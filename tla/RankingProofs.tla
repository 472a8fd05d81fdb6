---------------------------- MODULE RankingProofs ----------------------------
(***************************************************************************)
(* Proofs about RankFeed, for any names, requests, discounts and limits:    *)
(* the entries are those of the listings, the newest are kept, and a client *)
(* shows what the store has.  At the end, the types of all that MCRankings  *)
(* puts side by side.                                                       *)
(***************************************************************************)
EXTENDS MCRankings, SaleProofs

-----------------------------------------------------------------------------
(* RankFeed: the commands a task has still to run.                          *)

Writes == {"zadd", "set", "zrem", "del"}

\* What is left of a job on name n: its commands are in the order of redis.rs,
\* it writes an entry or removes one, and it ends with a broadcast.
WellFormed(r, T, n) ==
  /\ T \in Seq(OpSet)
  /\ T # <<>> => T[Len(T)].do \in Sends
  /\ \A k \in 1 .. Len(T) :
       /\ T[k].name = n
       /\ T[k].do = "zadd" =>
            k < Len(T) /\ T[k + 1].do = "set" /\ T[k + 1].item = T[k].item
       /\ T[k].do = "zadd" /\ r = "new" => k + 2 <= Len(T) /\ T[k + 2].do = "zcard"
       /\ T[k].do = "zcard" => k < Len(T) /\ T[k + 1].do = "trim"
  /\ \A k \in 2 .. Len(T) :
       /\ T[k].do # "zrem"
       /\ T[k].do = "del" => T[k - 1].do = "zrem"
       /\ T[k].do = "set" => T[k - 1].do = "zadd"
       /\ T[k].do = "trim" => T[k - 1].do = "zcard"
  /\ \A k \in 1 .. Len(T) : \A l \in k + 1 .. Len(T) :
       /\ T[k].do = "zadd" => T[l].do \notin {"zadd", "zrem", "del"}
       /\ T[k].do = "set" => T[l].do \notin Writes

\* What is left later is well formed as well.
LEMMA StaysWellFormed ==
  ASSUME NEW r, NEW T, NEW n, WellFormed(r, T, n), NEW U \in Seq(OpSet), NEW d \in 0 .. Len(T),
         Len(U) = Len(T) - d, \A k \in 1 .. Len(U) : U[k] = T[k + d]
  PROVE  WellFormed(r, U, n)
  <1>1. T \in Seq(OpSet) /\ Len(T) \in Nat /\ Len(U) \in Nat
    BY DEF WellFormed
  <1>2. \A k \in 1 .. Len(U) : k + d \in 1 .. Len(T)
    BY <1>1
  <1>3. U # <<>> => U[Len(U)].do \in Sends
    <2>1. SUFFICES ASSUME U # <<>> PROVE U[Len(U)].do \in Sends
      OBVIOUS
    <2>2. Len(U) \in 1 .. Len(U) /\ Len(U) + d = Len(T) /\ T # <<>>
      BY <2>1, <1>1
    <2> QED
      BY <2>2 DEF WellFormed
  <1>4. ASSUME NEW k \in 1 .. Len(U)
        PROVE  /\ U[k].name = n
               /\ U[k].do = "zadd" =>
                    k < Len(U) /\ U[k + 1].do = "set" /\ U[k + 1].item = U[k].item
               /\ U[k].do = "zadd" /\ r = "new" =>
                    k + 2 <= Len(U) /\ U[k + 2].do = "zcard"
               /\ U[k].do = "zcard" => k < Len(U) /\ U[k + 1].do = "trim"
    <2>1. k + d \in 1 .. Len(T) /\ U[k] = T[k + d]
      BY <1>2
    <2>2. T[k + d].name = n
      BY <2>1 DEF WellFormed
    <2>3. ASSUME U[k].do = "zadd"
          PROVE  k < Len(U) /\ U[k + 1].do = "set" /\ U[k + 1].item = U[k].item
      <3>1. /\ k + d < Len(T)
            /\ T[k + d + 1].do = "set" /\ T[k + d + 1].item = T[k + d].item
        BY <2>1, <2>3 DEF WellFormed
      <3>2. k + 1 \in 1 .. Len(U) /\ (k + 1) + d = k + d + 1 /\ k < Len(U)
        BY <3>1, <1>1
      <3> QED
        BY <2>1, <3>1, <3>2
    <2>4. ASSUME U[k].do = "zadd", r = "new"
          PROVE  k + 2 <= Len(U) /\ U[k + 2].do = "zcard"
      <3>1. k + d + 2 <= Len(T) /\ T[k + d + 2].do = "zcard"
        BY <2>1, <2>4 DEF WellFormed
      <3>2. k + d + 2 <= Len(T)
        BY <3>1
      <3>3. k + 2 \in 1 .. Len(U)
        BY <3>2, <1>1
      <3>4. (k + 2) + d = k + d + 2
        BY <1>1
      <3> QED
        BY <3>1, <3>3, <3>4
    <2>5. ASSUME U[k].do = "zcard"
          PROVE  k < Len(U) /\ U[k + 1].do = "trim"
      <3>1. k + d < Len(T) /\ T[k + d + 1].do = "trim"
        BY <2>1, <2>5 DEF WellFormed
      <3>2. k + 1 \in 1 .. Len(U) /\ (k + 1) + d = k + d + 1
        BY <3>1, <1>1
      <3> QED
        BY <3>1, <3>2
    <2> QED
      BY <2>1, <2>2, <2>3, <2>4, <2>5
  <1>5. ASSUME NEW k \in 2 .. Len(U)
        PROVE  /\ U[k].do # "zrem"
               /\ U[k].do = "del" => U[k - 1].do = "zrem"
               /\ U[k].do = "set" => U[k - 1].do = "zadd"
               /\ U[k].do = "trim" => U[k - 1].do = "zcard"
    <2>1. k \in 1 .. Len(U) /\ k - 1 \in 1 .. Len(U) /\ (k - 1) + d = (k + d) - 1
          /\ k + d \in 2 .. Len(T)
      BY <1>1
    <2>2. U[k] = T[k + d] /\ U[k - 1] = T[(k + d) - 1]
      BY <2>1
    <2> QED
      BY <2>1, <2>2 DEF WellFormed
  <1>6. ASSUME NEW k \in 1 .. Len(U), NEW l \in k + 1 .. Len(U)
        PROVE  /\ U[k].do = "zadd" => U[l].do \notin {"zadd", "zrem", "del"}
               /\ U[k].do = "set" => U[l].do \notin Writes
    <2>1. /\ k + d \in 1 .. Len(T) /\ l + d \in (k + d) + 1 .. Len(T)
          /\ l \in 1 .. Len(U)
      BY <1>1
    <2>2. U[k] = T[k + d] /\ U[l] = T[l + d]
      BY <2>1
    <2> QED
      BY <2>1, <2>2 DEF WellFormed
  <1> QED
    BY <1>3, <1>4, <1>5, <1>6 DEF WellFormed

\* What is put together of commands.
LEMMA OpIs ==
  ASSUME NEW do \in Ops, NEW n \in FeedNames, NEW i \in Items \cup {NoItem}
  PROVE  /\ Op(do, n, i) \in OpSet
         /\ Op(do, n, i).do = do /\ Op(do, n, i).name = n /\ Op(do, n, i).item = i
  BY DEF Op, OpSet

LEMMA RemIs ==
  ASSUME NEW n \in FeedNames
  PROVE  /\ Rem(n) \in Seq(OpSet) /\ Len(Rem(n)) = 3
         /\ Rem(n)[1] = Op("zrem", n, NoItem) /\ Rem(n)[2] = Op("del", n, NoItem)
         /\ Rem(n)[3] = Op("remove", n, NoItem)
  <1>1. /\ Op("zrem", n, NoItem) \in OpSet /\ Op("del", n, NoItem) \in OpSet
        /\ Op("remove", n, NoItem) \in OpSet
    BY OpIs DEF Ops
  <1> QED
    BY <1>1 DEF Rem

LEMMA AddIs ==
  ASSUME NEW n \in FeedNames, NEW i \in Items, ranking \in Ranks
  PROVE  /\ Add(n, i) \in Seq(OpSet)
         /\ Add(n, i)[1] = Op("zadd", n, i) /\ Add(n, i)[2] = Op("set", n, i)
         /\ ranking = "new" =>
              /\ Len(Add(n, i)) = 5
              /\ Add(n, i)[3] = Op("zcard", n, i) /\ Add(n, i)[4] = Op("trim", n, i)
              /\ Add(n, i)[5] = Op("upsert", n, i)
         /\ ranking = "best" =>
              Len(Add(n, i)) = 3 /\ Add(n, i)[3] = Op("upsert", n, i)
  <1> DEFINE a == Op("zadd", n, i)
             b == Op("set", n, i)
             c == Op("zcard", n, i)
             d == Op("trim", n, i)
             e == Op("upsert", n, i)
  <1>1. a \in OpSet /\ b \in OpSet /\ c \in OpSet /\ d \in OpSet /\ e \in OpSet
    BY OpIs DEF Ops
  <1>2. Add(n, i) = <<a, b>> \o (IF ranking = "new" THEN <<c, d>> ELSE <<>>) \o <<e>>
    BY DEF Add
  <1> HIDE DEF a, b, c, d, e
  <1>3. CASE ranking = "new"
    <2>1. Add(n, i) = (<<a, b>> \o <<c, d>>) \o <<e>>
      BY <1>2, <1>3
    <2>2. <<a, b>> \o <<c, d>> \in Seq(OpSet) /\ Len(<<a, b>> \o <<c, d>>) = 4
      BY <1>1
    <2>3. /\ (<<a, b>> \o <<c, d>>)[1] = a /\ (<<a, b>> \o <<c, d>>)[2] = b
          /\ (<<a, b>> \o <<c, d>>)[3] = c /\ (<<a, b>> \o <<c, d>>)[4] = d
      OBVIOUS
    <2> QED
      BY <1>1, <1>3, <2>1, <2>2, <2>3 DEF Ranks, a, b, c, d, e
  <1>4. CASE ranking = "best"
    <2>1. Add(n, i) = (<<a, b>> \o <<>>) \o <<e>>
      BY <1>2, <1>4
    <2>2. <<a, b>> \o <<>> = <<a, b>>
      BY <1>1
    <2> QED
      BY <1>1, <1>4, <2>1, <2>2 DEF Ranks, a, b, c, d, e
  <1> QED
    BY <1>3, <1>4 DEF Ranks

\* A job of its own, and one after another.
LEMMA RemWell ==
  ASSUME NEW n \in FeedNames, NEW r
  PROVE  WellFormed(r, Rem(n), n)
  <1>1. /\ Rem(n)[1].do = "zrem" /\ Rem(n)[2].do = "del" /\ Rem(n)[3].do = "remove"
        /\ Rem(n)[1].name = n /\ Rem(n)[2].name = n /\ Rem(n)[3].name = n
    BY RemIs, OpIs DEF Ops
  <1>2. \A k \in 1 .. 3 : k = 1 \/ k = 2 \/ k = 3
    OBVIOUS
  <1>3. Rem(n) \in Seq(OpSet) /\ Len(Rem(n)) = 3 /\ Rem(n) # <<>>
    BY RemIs
  <1> QED
    BY <1>1, <1>2, <1>3 DEF WellFormed, Sends, Writes

LEMMA AddWell ==
  ASSUME NEW n \in FeedNames, NEW i \in Items, ranking \in Ranks
  PROVE  /\ WellFormed(ranking, Add(n, i), n)
         /\ \A k \in 1 .. Len(Add(n, i)) : Add(n, i)[k].item = i
  <1> DEFINE A == Add(n, i)
  <1>1. /\ A[1].do = "zadd" /\ A[2].do = "set"
        /\ A[1].name = n /\ A[2].name = n /\ A[1].item = i /\ A[2].item = i
    BY AddIs, OpIs DEF Ops
  <1>2. A \in Seq(OpSet) /\ Len(A) \in {3, 5} /\ A # <<>>
    BY AddIs DEF Ranks
  <1>3. CASE ranking = "new"
    <2>1. /\ A[3].do = "zcard" /\ A[4].do = "trim" /\ A[5].do = "upsert"
          /\ A[3].name = n /\ A[4].name = n /\ A[5].name = n
          /\ A[3].item = i /\ A[4].item = i /\ A[5].item = i /\ Len(A) = 5
      BY <1>3, AddIs, OpIs DEF Ops
    <2>2. \A k \in 1 .. 5 : k = 1 \/ k = 2 \/ k = 3 \/ k = 4 \/ k = 5
      OBVIOUS
    <2> HIDE DEF A
    <2>3. \A k \in 1 .. 5 : A[k].item = i /\ A[k].name = n
      BY <1>1, <2>1, <2>2
    <2>4. WellFormed(ranking, A, n)
      BY <1>1, <1>2, <2>1, <2>2, <2>3 DEF WellFormed, Sends, Writes
    <2> QED
      BY <2>1, <2>3, <2>4 DEF A
  <1>4. CASE ranking = "best"
    <2>1. A[3].do = "upsert" /\ A[3].name = n /\ A[3].item = i /\ Len(A) = 3
      BY <1>4, AddIs, OpIs DEF Ops
    <2>2. \A k \in 1 .. 3 : k = 1 \/ k = 2 \/ k = 3
      OBVIOUS
    <2> HIDE DEF A
    <2>3. \A k \in 1 .. 3 : A[k].item = i /\ A[k].name = n
      BY <1>1, <2>1, <2>2
    <2>4. WellFormed(ranking, A, n)
      BY <1>1, <1>2, <1>4, <2>1, <2>2, <2>3 DEF WellFormed, Sends, Writes
    <2> QED
      BY <2>1, <2>3, <2>4 DEF A
  <1> QED
    BY <1>3, <1>4 DEF Ranks

\* One after the other: the first one adds no entry, or the second one only tells
\* the clients.
LEMMA Chained ==
  ASSUME NEW r, NEW n, NEW A, NEW B, WellFormed(r, A, n), WellFormed(r, B, n),
         B # <<>>, B[1].do \in {"zadd", "remove"},
         \/ \A k \in 1 .. Len(A) : A[k].do \notin {"zadd", "set"}
         \/ \A k \in 1 .. Len(B) : B[k].do \notin Writes
  PROVE  WellFormed(r, A \o B, n)
  <1> DEFINE C == A \o B
  <1>1. /\ A \in Seq(OpSet) /\ B \in Seq(OpSet) /\ C \in Seq(OpSet)
        /\ Len(A) \in Nat /\ Len(B) \in Nat /\ Len(C) = Len(A) + Len(B)
        /\ Len(B) >= 1 /\ Len(C) \in Nat
    BY ConcatProperties DEF WellFormed
  <1>2. /\ \A k \in 1 .. Len(A) : C[k] = A[k]
        /\ \A k \in Len(A) + 1 .. Len(C) : C[k] = B[k - Len(A)] /\ k - Len(A) \in 1 .. Len(B)
    BY <1>1, ConcatProperties
  <1> HIDE DEF C
  <1>3. C[Len(C)].do \in Sends
    <2>1. Len(C) \in Len(A) + 1 .. Len(C) /\ Len(C) - Len(A) = Len(B)
      BY <1>1
    <2> QED
      BY <2>1, <1>2 DEF WellFormed
  <1>4. ASSUME NEW k \in 1 .. Len(C)
        PROVE  /\ C[k].name = n
               /\ C[k].do = "zadd" =>
                    k < Len(C) /\ C[k + 1].do = "set" /\ C[k + 1].item = C[k].item
               /\ C[k].do = "zadd" /\ r = "new" =>
                    k + 2 <= Len(C) /\ C[k + 2].do = "zcard"
               /\ C[k].do = "zcard" => k < Len(C) /\ C[k + 1].do = "trim"
    <2>1. CASE k \in 1 .. Len(A)
      <3>1. k < Len(A) => k + 1 \in 1 .. Len(A) /\ k < Len(C)
        BY <1>1, <2>1
      <3>2. k + 2 <= Len(A) => k + 2 \in 1 .. Len(A) /\ k + 2 <= Len(C)
        BY <1>1, <2>1
      <3>3. C[k] = A[k]
        BY <1>2, <2>1
      <3>4. A[k].name = n
        BY <2>1 DEF WellFormed
      <3>5. A[k].do = "zadd" =>
              k < Len(A) /\ A[k + 1].do = "set" /\ A[k + 1].item = A[k].item
        BY <2>1 DEF WellFormed
      <3>6. A[k].do = "zadd" /\ r = "new" => k + 2 <= Len(A) /\ A[k + 2].do = "zcard"
        BY <2>1 DEF WellFormed
      <3>7. A[k].do = "zcard" => k < Len(A) /\ A[k + 1].do = "trim"
        BY <2>1 DEF WellFormed
      <3> QED
        BY <1>2, <3>1, <3>2, <3>3, <3>4, <3>5, <3>6, <3>7
    <2>2. CASE k \in Len(A) + 1 .. Len(C)
      <3> DEFINE j == k - Len(A)
      <3>1. j \in 1 .. Len(B) /\ C[k] = B[j]
        BY <1>2, <2>2
      <3>2. j < Len(B) => k < Len(C) /\ k + 1 \in Len(A) + 1 .. Len(C)
                          /\ (k + 1) - Len(A) = j + 1
        BY <1>1, <2>2
      <3>3. j + 2 <= Len(B) => k + 2 <= Len(C) /\ k + 2 \in Len(A) + 1 .. Len(C)
                               /\ (k + 2) - Len(A) = j + 2
        BY <1>1, <2>2
      <3> HIDE DEF j
      <3>4. B[j].name = n
        BY <3>1 DEF WellFormed
      <3>5. B[j].do = "zadd" =>
              j < Len(B) /\ B[j + 1].do = "set" /\ B[j + 1].item = B[j].item
        BY <3>1 DEF WellFormed
      <3>6. B[j].do = "zadd" /\ r = "new" => j + 2 <= Len(B) /\ B[j + 2].do = "zcard"
        BY <3>1 DEF WellFormed
      <3>7. B[j].do = "zcard" => j < Len(B) /\ B[j + 1].do = "trim"
        BY <3>1 DEF WellFormed
      <3> QED
        BY <1>2, <3>1, <3>2, <3>3, <3>4, <3>5, <3>6, <3>7
    <2> QED
      BY <2>1, <2>2, <1>1
  <1>5. ASSUME NEW k \in 2 .. Len(C)
        PROVE  /\ C[k].do # "zrem"
               /\ C[k].do = "del" => C[k - 1].do = "zrem"
               /\ C[k].do = "set" => C[k - 1].do = "zadd"
               /\ C[k].do = "trim" => C[k - 1].do = "zcard"
    <2>1. CASE k \in 2 .. Len(A)
      <3>1. C[k] = A[k] /\ C[k - 1] = A[k - 1]
        BY <1>1, <1>2, <2>1
      <3> QED
        BY <3>1, <2>1 DEF WellFormed
    <2>2. CASE k = Len(A) + 1
      <3>1. C[k] = B[1]
        BY <1>1, <1>2, <2>2
      <3> QED
        BY <3>1
    <2>3. CASE k \in Len(A) + 2 .. Len(C)
      <3>1. /\ k \in Len(A) + 1 .. Len(C) /\ k - 1 \in Len(A) + 1 .. Len(C)
            /\ k - Len(A) \in 2 .. Len(B) /\ (k - 1) - Len(A) = (k - Len(A)) - 1
        BY <1>1, <2>3
      <3>2. C[k] = B[k - Len(A)] /\ C[k - 1] = B[(k - Len(A)) - 1]
        BY <1>2, <3>1
      <3> QED
        BY <3>1, <3>2 DEF WellFormed
    <2> QED
      BY <2>1, <2>2, <2>3, <1>1
  <1>6. ASSUME NEW k \in 1 .. Len(C), NEW l \in k + 1 .. Len(C)
        PROVE  /\ C[k].do = "zadd" => C[l].do \notin {"zadd", "zrem", "del"}
               /\ C[k].do = "set" => C[l].do \notin Writes
    <2>1. CASE l \in 1 .. Len(A)
      <3>1. k \in 1 .. Len(A) /\ l \in k + 1 .. Len(A)
        BY <1>1, <2>1
      <3>2. C[k] = A[k] /\ C[l] = A[l]
        BY <1>2, <2>1, <3>1
      <3> QED
        BY <3>1, <3>2 DEF WellFormed
    <2>2. CASE k \in Len(A) + 1 .. Len(C)
      <3>1. /\ k - Len(A) \in 1 .. Len(B) /\ l - Len(A) \in (k - Len(A)) + 1 .. Len(B)
            /\ l \in Len(A) + 1 .. Len(C)
        BY <1>1, <2>2
      <3>2. C[k] = B[k - Len(A)] /\ C[l] = B[l - Len(A)]
        BY <1>2, <2>2, <3>1
      <3> QED
        BY <3>1, <3>2 DEF WellFormed
    <2>3. CASE k \in 1 .. Len(A) /\ l \in Len(A) + 1 .. Len(C)
      <3>1. C[k] = A[k] /\ C[l] = B[l - Len(A)] /\ l - Len(A) \in 1 .. Len(B)
        BY <1>2, <2>3
      <3> QED
        BY <3>1, <2>3 DEF Writes
    <2> QED
      BY <2>1, <2>2, <2>3, <1>1
  <1>7. WellFormed(r, C, n)
    <2>1. C # <<>> => C[Len(C)].do \in Sends
      BY <1>3
    <2> QED
      BY <1>1, <2>1, <1>4, <1>5, <1>6 DEF WellFormed
  <1> QED
    BY <1>7 DEF C

\* Which commands go together: the last one of a removal is a DEL, only the new
\* listings are trimmed, a job puts one item only, and what it tells the clients to
\* show, after a removal, it adds first.
Puts == {"zadd", "set", "upsert"}
Putting(T) == \E k \in 1 .. Len(T) : T[k].do \in Puts
Adding(T) == \E k \in 1 .. Len(T) : T[k].do = "zadd"
Steady(r, T) ==
  \A k \in 1 .. Len(T) :
    /\ T[k].do = "zrem" => k < Len(T) /\ T[k + 1].do = "del"
    /\ T[k].do \in {"zcard", "trim"} => r = "new"
    /\ \A l \in 1 .. Len(T) :
         /\ T[k].do \in Puts /\ T[l].do \in Puts => T[k].item = T[l].item
         /\ T[k].do = "zrem" /\ T[l].do = "upsert" => Adding(T)

\* What is left later does so as well.
LEMMA SteadyLater ==
  ASSUME NEW r, NEW T, NEW n, WellFormed(r, T, n), Steady(r, T), NEW U \in Seq(OpSet),
         NEW d \in 0 .. Len(T), Len(U) = Len(T) - d, \A k \in 1 .. Len(U) : U[k] = T[k + d]
  PROVE  Steady(r, U)
  <1>1. T \in Seq(OpSet) /\ Len(T) \in Nat /\ Len(U) \in Nat
    BY DEF WellFormed
  <1>2. \A k \in 1 .. Len(U) : k + d \in 1 .. Len(T)
    BY <1>1
  <1>3. ASSUME NEW k \in 1 .. Len(U), NEW l \in 1 .. Len(U)
        PROVE  /\ U[k].do = "zrem" => k < Len(U) /\ U[k + 1].do = "del"
               /\ U[k].do \in {"zcard", "trim"} => r = "new"
               /\ U[k].do \in Puts /\ U[l].do \in Puts => U[k].item = U[l].item
               /\ U[k].do = "zrem" /\ U[l].do = "upsert" => Adding(U)
    <2>1. /\ k + d \in 1 .. Len(T) /\ U[k] = T[k + d]
          /\ l + d \in 1 .. Len(T) /\ U[l] = T[l + d]
      BY <1>2
    <2>2. /\ U[k].do \in {"zcard", "trim"} => r = "new"
          /\ U[k].do \in Puts /\ U[l].do \in Puts => U[k].item = U[l].item
      BY <2>1 DEF Steady
    <2>3. ASSUME U[k].do = "zrem"
          PROVE  d = 0
      <3>1. k + d \notin 2 .. Len(T)
        BY <2>1, <2>3 DEF WellFormed
      <3> QED
        BY <2>1, <3>1, <1>1
    <2>4. ASSUME U[k].do = "zrem"
          PROVE  k < Len(U) /\ U[k + 1].do = "del"
      <3>1. d = 0 /\ k + 0 = k /\ Len(U) = Len(T) /\ \A j \in 1 .. Len(T) : U[j] = T[j]
        BY <2>3, <2>4, <1>1
      <3>2. k < Len(T) /\ T[k + 1].do = "del"
        BY <2>1, <2>4, <3>1 DEF Steady
      <3> QED
        BY <3>1, <3>2, <1>1
    <2>5. ASSUME U[k].do = "zrem", U[l].do = "upsert"
          PROVE  Adding(U)
      <3>1. d = 0 /\ Len(U) = Len(T) /\ \A j \in 1 .. Len(T) : U[j] = T[j]
        BY <2>3, <2>5, <1>1
      <3>2. Adding(T)
        BY <2>1, <2>5 DEF Steady
      <3> QED
        BY <3>1, <3>2 DEF Adding
    <2> QED
      BY <2>2, <2>4, <2>5
  <1> QED
    BY <1>3 DEF Steady

\* What a job starts with, when the row of its name becomes i: the jobs of
\* RankFeed, and those that are to list the name once more.
Script(T, n, i) ==
  /\ WellFormed(ranking, T, n) /\ Steady(ranking, T)
  /\ T # <<>> => T[1].do \in {"zadd", "zrem"}
  /\ \A k \in 1 .. Len(T) : T[k].do \in Puts => T[k].item = i

LEMMA Joined ==
  ASSUME NEW A \in Seq(OpSet), NEW B \in Seq(OpSet), NEW n, NEW i,
         Script(A, n, i), A # <<>>, B # <<>>, ~ Putting(A),
         WellFormed(ranking, B, n), Steady(ranking, B),
         \A k \in 1 .. Len(B) : B[k].do \in Puts => B[k].item = i,
         B[1].do \in {"zadd", "remove"},
         (\E k \in 1 .. Len(B) : B[k].do = "upsert") => Adding(B)
  PROVE  Script(A \o B, n, i)
  <1> DEFINE C == A \o B
  <1>1. WellFormed(ranking, C, n)
    BY Chained DEF Script, Putting, Puts
  <1>2. /\ Len(C) = Len(A) + Len(B) /\ Len(A) \in Nat /\ Len(B) \in Nat /\ Len(A) >= 1
        /\ \A k \in 1 .. Len(A) : C[k] = A[k]
        /\ \A k \in Len(A) + 1 .. Len(C) : C[k] = B[k - Len(A)] /\ k - Len(A) \in 1 .. Len(B)
        /\ \A k \in 1 .. Len(B) : k + Len(A) \in 1 .. Len(C) /\ C[k + Len(A)] = B[k]
    BY ConcatProperties
  <1> HIDE DEF C
  <1>3. C[1].do \in {"zadd", "zrem"}
    BY <1>2 DEF Script
  <1>4. ASSUME NEW k \in 1 .. Len(C), C[k].do \in Puts
        PROVE  C[k].item = i
    <2>1. CASE k \in 1 .. Len(A)
      BY <1>2, <1>4, <2>1 DEF Putting
    <2>2. CASE k \in Len(A) + 1 .. Len(C)
      BY <1>2, <1>4, <2>2
    <2> QED
      BY <2>1, <2>2, <1>2
  <1>5. Adding(B) => Adding(C)
    BY <1>2 DEF Adding
  <1>6. ASSUME NEW k \in 1 .. Len(C), NEW l \in 1 .. Len(C)
        PROVE  /\ C[k].do = "zrem" => k < Len(C) /\ C[k + 1].do = "del"
               /\ C[k].do \in {"zcard", "trim"} => ranking = "new"
               /\ C[k].do = "zrem" /\ C[l].do = "upsert" => Adding(C)
    <2>1. C[l].do = "upsert" => Adding(C)
      <3>1. CASE l \in 1 .. Len(A)
        BY <1>2, <3>1 DEF Putting, Puts
      <3>2. CASE l \in Len(A) + 1 .. Len(C)
        BY <1>2, <1>5, <3>2
      <3> QED
        BY <3>1, <3>2, <1>2
    <2>2. CASE k \in 1 .. Len(A)
      <3>1. /\ A[k].do = "zrem" => k < Len(A) /\ A[k + 1].do = "del"
            /\ A[k].do \in {"zcard", "trim"} => ranking = "new"
        BY <2>2 DEF Script, Steady
      <3>2. k < Len(A) => k < Len(C) /\ C[k + 1] = A[k + 1]
        BY <1>2, <2>2
      <3>3. C[k] = A[k]
        BY <1>2, <2>2
      <3> QED
        BY <2>1, <3>1, <3>2, <3>3
    <2>3. CASE k \in Len(A) + 1 .. Len(C)
      <3> DEFINE j == k - Len(A)
      <3>1. j \in 1 .. Len(B) /\ C[k] = B[j]
        BY <1>2, <2>3
      <3>2. j < Len(B) => k < Len(C) /\ k + 1 \in Len(A) + 1 .. Len(C)
                          /\ (k + 1) - Len(A) = j + 1
        BY <1>2, <2>3
      <3> HIDE DEF j
      <3>3. /\ B[j].do = "zrem" => j < Len(B) /\ B[j + 1].do = "del"
            /\ B[j].do \in {"zcard", "trim"} => ranking = "new"
        BY <3>1 DEF Steady
      <3> QED
        BY <1>2, <2>1, <3>1, <3>2, <3>3
    <2> QED
      BY <2>2, <2>3, <1>2
  <1>7. Steady(ranking, C)
    BY <1>4, <1>6 DEF Steady
  <1>8. Script(C, n, i)
    BY <1>1, <1>3, <1>4, <1>7 DEF Script
  <1> QED
    BY <1>8 DEF C

\* A job that ends with a removal puts nothing.
Whole(T) == T # <<>> /\ T[Len(T)].do = "remove" => ~ Putting(T)

LEMMA Scripts ==
  ASSUME NEW n \in FeedNames, NEW i \in Items, ranking \in Ranks
  PROVE  /\ Script(Add(n, i), n, i) /\ Adding(Add(n, i)) /\ Whole(Add(n, i))
         /\ Script(Rem(n), n, i) /\ ~ Putting(Rem(n))
         /\ LET T == Rem(n) \o Only("best", Add(n, i))
            IN Script(T, n, i) /\ Whole(T) /\ (ranking = "new" => ~ Putting(T))
         /\ LET T == Rem(n) \o Add(n, i) \o Only("new", <<Op("remove", n, NoItem)>>)
            IN Script(T, n, i) /\ Adding(T) /\ (ranking = "best" => Whole(T))
         /\ Script(Only("best", Add(n, i)), n, i) /\ Whole(Only("best", Add(n, i)))
         /\ ranking = "new" => Only("best", Add(n, i)) = <<>>
  <1> DEFINE A == Add(n, i)
             R == Rem(n)
             L == <<Op("remove", n, NoItem)>>
  <1>1. /\ A \in Seq(OpSet) /\ Len(A) \in {3, 5} /\ A # <<>>
        /\ A[1].do = "zadd" /\ A[2].do = "set" /\ A[Len(A)].do = "upsert"
        /\ \A k \in 1 .. Len(A) : A[k].do # "zrem"
        /\ \A k \in 1 .. Len(A) : A[k].do \in {"zcard", "trim"} => ranking = "new"
    <2>1. /\ A \in Seq(OpSet) /\ Len(A) \in {3, 5} /\ A # <<>>
          /\ A[1].do = "zadd" /\ A[2].do = "set"
      BY AddIs, OpIs DEF Ops, Ranks
    <2>2. CASE ranking = "new"
      <3>1. /\ A[3].do = "zcard" /\ A[4].do = "trim" /\ A[5].do = "upsert" /\ Len(A) = 5
        BY <2>2, AddIs, OpIs DEF Ops
      <3>2. \A k \in 1 .. 5 : k = 1 \/ k = 2 \/ k = 3 \/ k = 4 \/ k = 5
        OBVIOUS
      <3> HIDE DEF A
      <3> QED
        BY <2>1, <2>2, <3>1, <3>2
    <2>3. CASE ranking = "best"
      <3>1. A[3].do = "upsert" /\ Len(A) = 3
        BY <2>3, AddIs, OpIs DEF Ops
      <3>2. \A k \in 1 .. 3 : k = 1 \/ k = 2 \/ k = 3
        OBVIOUS
      <3> HIDE DEF A
      <3> QED
        BY <2>1, <3>1, <3>2
    <2> QED
      BY <2>2, <2>3 DEF Ranks
  <1>2. /\ Script(A, n, i) /\ Adding(A) /\ Whole(A)
        /\ WellFormed(ranking, A, n) /\ Steady(ranking, A)
        /\ \A k \in 1 .. Len(A) : A[k].do \in Puts => A[k].item = i
    <2>1. WellFormed(ranking, A, n) /\ \A k \in 1 .. Len(A) : A[k].item = i
      BY AddWell
    <2> HIDE DEF A
    <2>2. Steady(ranking, A)
      BY <1>1, <2>1 DEF Steady
    <2>3. Adding(A) /\ Whole(A)
      BY <1>1 DEF Adding, Whole
    <2> QED
      BY <1>1, <2>1, <2>2, <2>3 DEF Script
  <1>3. /\ R \in Seq(OpSet) /\ Len(R) = 3 /\ R # <<>>
        /\ R[1].do = "zrem" /\ R[2].do = "del" /\ R[3].do = "remove"
    BY RemIs, OpIs DEF Ops
  <1>4. /\ L \in Seq(OpSet) /\ Len(L) = 1 /\ L # <<>> /\ L[1] = Op("remove", n, NoItem)
        /\ L[1].do = "remove" /\ L[1].name = n
    BY OpIs DEF Ops
  <1>5. WellFormed(ranking, L, n)
    BY <1>4 DEF WellFormed, Sends, Writes
  <1>6. WellFormed(ranking, R, n)
    BY RemWell
  <1> HIDE DEF A, R, L
  <1>7. Script(R, n, i) /\ ~ Putting(R)
    <2>1. \A k \in 1 .. 3 : k = 1 \/ k = 2 \/ k = 3
      OBVIOUS
    <2>2. \A k \in 1 .. Len(R) : R[k].do \notin Puts /\ R[k].do \notin {"zcard", "trim"}
      BY <1>3, <2>1 DEF Puts
    <2>3. \A k \in 1 .. Len(R) : R[k].do = "zrem" => k < Len(R) /\ R[k + 1].do = "del"
      BY <1>3, <2>1
    <2>4. Steady(ranking, R)
      BY <2>2, <2>3 DEF Steady, Puts
    <2> QED
      BY <1>3, <1>6, <2>2, <2>4 DEF Script, Putting
  <1>8. Script(R \o A, n, i)
    BY <1>1, <1>2, <1>3, <1>7, Joined
  <1>9. /\ R \o A \in Seq(OpSet) /\ Len(R \o A) = 3 + Len(A)
        /\ (R \o A)[4].do = "zadd" /\ (R \o A)[3 + Len(A)].do = "upsert"
    <2>1. R \o A \in Seq(OpSet) /\ Len(R \o A) = Len(R) + Len(A)
      BY <1>1, <1>3, ConcatProperties
    <2>2. \A k \in 1 .. Len(R) + Len(A) :
            (R \o A)[k] = IF k <= Len(R) THEN R[k] ELSE A[k - Len(R)]
      BY <1>1, <1>3, ConcatProperties
    <2> PICK C : C = R \o A
      OBVIOUS
    <2>c. \A k \in 1 .. 3 + Len(A) : C[k] = IF k <= 3 THEN R[k] ELSE A[k - 3]
      BY <1>3, <2>2
    <2>l. Len(A) \in Nat /\ Len(A) >= 3
      BY <1>1
    <2>f. C[4] = A[1] /\ C[3 + Len(A)] = A[Len(A)]
      <3>1. 4 \in 1 .. 3 + Len(A) /\ ~ (4 <= 3) /\ 4 - 3 = 1
        BY <2>l
      <3>2. PICK l : l = 3 + Len(A)
        OBVIOUS
      <3>3. l \in 1 .. 3 + Len(A) /\ ~ (l <= 3) /\ l - 3 = Len(A)
        BY <2>l, <3>2
      <3>4. C[4] = A[4 - 3] /\ C[l] = A[l - 3]
        BY <3>1, <3>3, <2>c
      <3> QED
        BY <3>1, <3>2, <3>3, <3>4
    <2>3. (R \o A)[4] = A[1] /\ (R \o A)[3 + Len(A)] = A[Len(A)]
      BY <2>f
    <2> QED
      BY <1>1, <1>3, <2>1, <2>3
  <1>10. Adding(R \o A) /\ Whole(R \o A)
    BY <1>1, <1>9 DEF Adding, Whole
  <1>11. Script((R \o A) \o L, n, i) /\ Adding((R \o A) \o L)
    <2> DEFINE C == R \o A
               D == C \o L
    <2>1. /\ C \in Seq(OpSet) /\ Len(C) \in Nat /\ Len(C) >= 4 /\ C[4].do = "zadd"
          /\ Script(C, n, i) /\ C # <<>>
      BY <1>1, <1>8, <1>9
    <2> HIDE DEF C
    <2>2. \A k \in 1 .. Len(L) : L[k].do \notin Writes /\ L[k].do \notin Puts
      BY <1>4 DEF Writes, Puts
    <2>3. WellFormed(ranking, D, n)
      BY <1>4, <1>5, <2>1, <2>2, Chained DEF Script
    <2>4. /\ Len(D) = Len(C) + Len(L) /\ Len(L) = 1
          /\ \A k \in 1 .. Len(C) : D[k] = C[k]
          /\ \A k \in Len(C) + 1 .. Len(D) : D[k] = L[k - Len(C)]
      <3>1. L \in Seq(OpSet) /\ C \in Seq(OpSet)
        BY <1>4, <2>1
      <3>2. /\ Len(D) = Len(C) + Len(L) /\ Len(C) \in Nat /\ Len(L) \in Nat
            /\ \A k \in 1 .. Len(C) + Len(L) :
                 D[k] = IF k <= Len(C) THEN C[k] ELSE L[k - Len(C)]
        BY <3>1, ConcatProperties
      <3> HIDE DEF D
      <3> QED
        BY <3>2, <1>4
    <2> HIDE DEF D
    <2>5. D[1].do \in {"zadd", "zrem"} /\ D[4].do = "zadd" /\ 4 \in 1 .. Len(D)
      BY <2>1, <2>4 DEF Script
    <2>6. ASSUME NEW k \in 1 .. Len(D)
          PROVE  \/ k \in 1 .. Len(C) /\ D[k] = C[k]
                 \/ D[k].do = "remove"
      <3>1. CASE k \in 1 .. Len(C)
        BY <2>4, <3>1
      <3>2. CASE k = Len(C) + 1
        <4>1. D[k] = L[1]
          BY <2>1, <2>4, <3>2
        <4> QED
          BY <4>1, <1>4
      <3> QED
        BY <3>1, <3>2, <2>1, <2>4
    <2>7. \A k \in 1 .. Len(D) : D[k].do \in Puts => D[k].item = i
      BY <2>1, <2>6 DEF Script, Puts
    <2>8. Adding(D)
      BY <2>5 DEF Adding
    <2>9. Steady(ranking, D)
      <3>1. ASSUME NEW k \in 1 .. Len(D)
            PROVE  /\ D[k].do = "zrem" => k < Len(D) /\ D[k + 1].do = "del"
                   /\ D[k].do \in {"zcard", "trim"} => ranking = "new"
        <4>1. CASE D[k].do = "remove"
          BY <4>1
        <4>2. CASE k \in 1 .. Len(C) /\ D[k] = C[k]
          <5>1. /\ C[k].do = "zrem" => k < Len(C) /\ C[k + 1].do = "del"
                /\ C[k].do \in {"zcard", "trim"} => ranking = "new"
            BY <4>2, <2>1 DEF Script, Steady
          <5>2. k < Len(C) => k < Len(D) /\ D[k + 1] = C[k + 1]
            BY <2>1, <2>4
          <5> QED
            BY <4>2, <5>1, <5>2
        <4> QED
          BY <2>6, <4>1, <4>2
      <3> QED
        BY <3>1, <2>7, <2>8 DEF Steady
    <2>10. Script(D, n, i) /\ Adding(D)
      BY <2>3, <2>5, <2>7, <2>8, <2>9 DEF Script
    <2> QED
      BY <2>10 DEF D, C
  <1>12. Script(<<>>, n, i) /\ Whole(<<>>)
    BY DEF Script, WellFormed, Steady, Whole
  <1>13. CASE ranking = "new"
    <2>1. Only("best", A) = <<>> /\ Only("new", L) = L
      BY <1>13 DEF Only
    <2>2. R \o <<>> = R
      BY <1>3
    <2>3. /\ Script(R \o Only("best", A), n, i) /\ ~ Putting(R \o Only("best", A))
          /\ Whole(R \o Only("best", A))
      BY <1>7, <2>1, <2>2 DEF Whole
    <2> QED
      BY <1>2, <1>7, <1>11, <1>12, <1>13, <2>1, <2>3 DEF A, R, L
  <1>14. CASE ranking = "best"
    <2>1. Only("best", A) = A /\ Only("new", L) = <<>>
      BY <1>14 DEF Only
    <2>2. (R \o A) \o <<>> = R \o A
      BY <1>9
    <2>3. /\ Script((R \o A) \o Only("new", L), n, i) /\ Adding((R \o A) \o Only("new", L))
          /\ Whole((R \o A) \o Only("new", L))
      BY <1>8, <1>10, <2>1, <2>2
    <2>4. Script(R \o Only("best", A), n, i) /\ Whole(R \o Only("best", A))
      BY <1>8, <1>10, <2>1
    <2> QED
      BY <1>2, <1>7, <1>14, <2>1, <2>3, <2>4 DEF A, R, L
  <1> QED
    BY <1>13, <1>14 DEF Ranks

-----------------------------------------------------------------------------
(* The entries: the inductive invariant behind EntriesMatchListings.        *)

StoreTypes ==
  /\ ranking \in Ranks
  /\ listing \in [FeedNames -> Items \cup {NoItem}]
  /\ zset \in [FeedNames -> Items \cup {NoItem}]
  /\ meta \in [FeedNames -> Items \cup {NoItem}]
  /\ resold \subseteq Members(listing)
  /\ task \in [Workers -> [todo : Seq(OpSet), name : FeedNames \cup {0}, count : Nat]]
  /\ jobs \in 0 .. MaxJobs
  /\ sloppy \in [raced : SUBSET FeedNames, failed : SUBSET FeedNames,
                 undone : SUBSET FeedNames, late : SUBSET FeedNames, trimmed : BOOLEAN]

\* Each task has the rest of a job to do, with items of its name.
Scripted ==
  \A p \in Workers :
    /\ WellFormed(ranking, task[p].todo, task[p].name)
    /\ task[p].todo # <<>> => task[p].name \in FeedNames
    /\ \A k \in 1 .. Len(task[p].todo) :
         task[p].todo[k].do \in {"zadd", "set"} => task[p].todo[k].item \in Items

\* A name that no two jobs met at has one job at a time.
Alone ==
  \A n \in FeedNames \ sloppy.raced : \A p, q \in Busy(n) : p = q

\* The item is that of the name's listing.
Fits(n, i) ==
  listing[n] = IF ranking = "best" THEN i ELSE [i EXCEPT !.discount = listing[n].discount]

\* In the middle of a job the entry is one the job's next commands complete; and
\* an entry that no command is about has the metadata of its listing.
Entry(n) ==
  /\ \A p \in Busy(n) : LET T == task[p].todo IN
       /\ T[1].do = "set" => zset[n] \in {NoItem, T[1].item}
       /\ T[1].do = "del" => zset[n] = NoItem
       /\ \A k \in 1 .. Len(T) : T[k].do \in {"zadd", "set"} => Fits(n, T[k].item)
  /\ (\A p \in Busy(n) : \A k \in 1 .. Len(task[p].todo) : task[p].todo[k].do \notin Writes)
       /\ zset[n] # NoItem
       => meta[n] = zset[n] /\ Fits(n, zset[n])

Entries == \A n \in FeedNames : Exact(n) => Entry(n)

StoreInv == StoreTypes /\ Scripted /\ Alone /\ Entries

\* What a step of task p leaves of its job: all but its first d commands.
Goes(p, d) ==
  /\ task[p].todo # <<>>
  /\ d \in 1 .. Len(task[p].todo)
  /\ task' \in [Workers -> [todo : Seq(OpSet), name : FeedNames \cup {0}, count : Nat]]
  /\ \A q \in Workers \ {p} : task'[q] = task[q]
  /\ Len(task'[p].todo) = Len(task[p].todo) - d
  /\ \A k \in 1 .. Len(task'[p].todo) : task'[p].todo[k] = task[p].todo[k + d]
  /\ task'[p].todo # <<>> => task'[p].name = task[p].name
  /\ UNCHANGED <<ranking, listing, resold, jobs>>

LEMMA DoneGoes ==
  ASSUME StoreTypes, Scripted, NEW p \in Workers, task[p].todo # <<>>, Done(p),
         UNCHANGED <<ranking, listing, resold, jobs>>
  PROVE  /\ Goes(p, 1)
         /\ task'[p].todo # <<>> => task'[p].count = task[p].count
  <1> DEFINE T == task[p].todo
             V == [todo : Seq(OpSet), name : FeedNames \cup {0}, count : Nat]
  <1>1. /\ task[p] \in V /\ T \in Seq(OpSet) /\ Len(T) \in Nat /\ Len(T) >= 1
    BY DEF StoreTypes
  <1>2. Idle \in V /\ Idle.todo = <<>>
    BY DEF Idle
  <1>3. /\ Len(Tail(T)) = Len(T) - 1 /\ Tail(T) \in Seq(OpSet)
        /\ \A k \in 1 .. Len(T) - 1 : Tail(T)[k] = T[k + 1]
    BY <1>1, HeadTailProperties
  <1>u. PICK U : U = Tail(T)
    OBVIOUS
  <1>3u. U \in Seq(OpSet) /\ Len(U) = Len(T) - 1 /\ \A k \in 1 .. Len(T) - 1 : U[k] = T[k + 1]
    BY <1>3, <1>u
  <1>4. U = <<>> => Len(T) = 1
    BY <1>1, <1>3u
  <1> DEFINE r == [task[p] EXCEPT !.todo = Tail(T)]
  <1>5. r \in V /\ r.todo = U /\ r.name = task[p].name /\ r.count = task[p].count
    BY <1>1, <1>3, <1>u
  <1>6. task' = [task EXCEPT ![p] = IF r.todo = <<>> THEN Idle ELSE r]
    BY DEF Done
  <1> HIDE DEF r
  <1>7. /\ task'[p] = (IF r.todo = <<>> THEN Idle ELSE r)
        /\ \A q \in Workers \ {p} : task'[q] = task[q]
        /\ task' \in [Workers -> V]
    BY <1>2, <1>5, <1>6 DEF StoreTypes
  <1>8. CASE r.todo = <<>>
    <2>1. task'[p].todo = <<>>
      BY <1>2, <1>7, <1>8
    <2>2. /\ Len(task'[p].todo) = Len(T) - 1 /\ 1 \in 1 .. Len(T)
          /\ \A k \in 1 .. Len(task'[p].todo) : task'[p].todo[k] = T[k + 1]
      BY <1>1, <1>4, <1>5, <1>8, <2>1
    <2> QED
      BY <1>1, <1>7, <2>1, <2>2 DEF Goes
  <1>9. CASE r.todo # <<>>
    <2>1. task'[p] = r
      BY <1>7, <1>9
    <2>2. /\ Len(task'[p].todo) = Len(T) - 1 /\ 1 \in 1 .. Len(T)
          /\ \A k \in 1 .. Len(task'[p].todo) : task'[p].todo[k] = T[k + 1]
      BY <1>1, <1>3u, <1>5, <2>1
    <2> QED
      BY <1>1, <1>5, <1>7, <2>1, <2>2 DEF Goes
  <1> QED
    BY <1>8, <1>9

\* A step of a task keeps the scripts, and who is busy with what.
LEMMA GoesOn ==
  ASSUME StoreTypes, Scripted, Alone, NEW p \in Workers, NEW d \in Nat, Goes(p, d),
         sloppy'.raced = sloppy.raced
  PROVE  /\ Scripted' /\ Alone'
         /\ \A n \in FeedNames : Busy(n)' \subseteq Busy(n)
         /\ \A n \in FeedNames \ {task[p].name} : Busy(n)' = Busy(n) /\ p \notin Busy(n)
         /\ \A n \in FeedNames : Busy(n)' \ {p} = Busy(n) \ {p}
         /\ p \in Busy(task[p].name) /\ task[p].name \in FeedNames
  <1>1. task[p].name \in FeedNames
    BY DEF Scripted, Goes
  <1>2. /\ p \in Busy(task[p].name)
        /\ \A n \in FeedNames : Busy(n)' \subseteq Busy(n)
        /\ \A n \in FeedNames \ {task[p].name} : Busy(n)' = Busy(n) /\ p \notin Busy(n)
        /\ \A n \in FeedNames : Busy(n)' \ {p} = Busy(n) \ {p}
    <2>1. /\ task[p].todo # <<>> /\ \A q \in Workers \ {p} : task'[q] = task[q]
          /\ task'[p].todo # <<>> => task'[p].name = task[p].name
      BY DEF Goes
    <2>2. p \in Busy(task[p].name) /\ \A n \in FeedNames \ {task[p].name} : p \notin Busy(n)
      BY <2>1 DEF Busy
    <2>3. \A n \in FeedNames : Busy(n)' \ {p} = Busy(n) \ {p}
      BY <2>1 DEF Busy
    <2>4. \A n \in FeedNames : p \in Busy(n)' => p \in Busy(n)
      BY <2>1 DEF Busy
    <2> QED
      BY <2>2, <2>3, <2>4
  <1>3. Alone'
    BY <1>2 DEF Alone
  <1>4. ASSUME NEW q \in Workers
        PROVE  /\ WellFormed(ranking, task[q].todo, task[q].name)'
               /\ (task[q].todo # <<>> => task[q].name \in FeedNames)'
               /\ (\A k \in 1 .. Len(task[q].todo) :
                     task[q].todo[k].do \in {"zadd", "set"} => task[q].todo[k].item \in Items)'
    <2>1. CASE q # p
      <3>1. task'[q] = task[q] /\ ranking' = ranking
        BY <2>1 DEF Goes
      <3> QED
        BY <3>1 DEF Scripted, WellFormed
    <2>2. CASE q = p
      <3> DEFINE T == task[p].todo
      <3> PICK U : U = task'[p].todo
        OBVIOUS
      <3>1. /\ U \in Seq(OpSet) /\ T \in Seq(OpSet) /\ d \in 0 .. Len(T)
            /\ Len(U) = Len(T) - d /\ \A k \in 1 .. Len(U) : U[k] = T[k + d]
            /\ WellFormed(ranking, T, task[p].name)
        BY DEF Goes, StoreTypes, Scripted
      <3>2. WellFormed(ranking, U, task[p].name)
        BY <3>1, StaysWellFormed
      <3>3. CASE U = <<>>
        <4>1. task'[p].todo = <<>> /\ Len(task'[p].todo) = 0
          BY <3>3
        <4> QED
          BY <2>2, <4>1 DEF WellFormed
      <3>4. CASE U # <<>>
        <4>1. task'[p].name = task[p].name /\ ranking' = ranking
          BY <3>4 DEF Goes
        <4>2. \A k \in 1 .. Len(U) : U[k].do \in {"zadd", "set"} => U[k].item \in Items
          <5>1. \A k \in 1 .. Len(U) : k + d \in 1 .. Len(T)
            BY <3>1
          <5> QED
            BY <3>1, <5>1 DEF Scripted
        <4>3. WellFormed(ranking, task[p].todo, task[p].name)'
          BY <3>2, <4>1
        <4>4. (task[p].name \in FeedNames)'
          BY <4>1, <1>1
        <4>5. (\A k \in 1 .. Len(task[p].todo) :
                task[p].todo[k].do \in {"zadd", "set"} => task[p].todo[k].item \in Items)'
          BY <4>2
        <4> QED
          BY <2>2, <4>3, <4>4, <4>5
      <3> QED
        BY <3>3, <3>4
    <2> QED
      BY <2>1, <2>2
  <1>5. Scripted'
    BY <1>4 DEF Scripted
  <1> QED
    BY <1>1, <1>2, <1>3, <1>5

\* What the first command of a job does to the entries.
Effect(p) ==
  LET o == task[p].todo[1]
      n == task[p].name
  IN /\ \A m \in FeedNames \ {n} : zset'[m] \in {zset[m], NoItem} /\ meta'[m] = meta[m]
     /\ o.do = "zadd" => zset'[n] = o.item
     /\ o.do = "set" => zset'[n] = zset[n] /\ meta'[n] = o.item
     /\ o.do = "zrem" => zset'[n] = NoItem
     /\ o.do = "del" => zset'[n] = zset[n]
     /\ o.do \notin Writes => zset'[n] \in {zset[n], NoItem} /\ meta'[n] = meta[n]

\* The entry of a name no command of which is run.
LEMMA OtherEntry ==
  ASSUME StoreInv, NEW p \in Workers, NEW d \in Nat, Goes(p, d),
         sloppy'.raced = sloppy.raced,
         NEW n \in FeedNames \ {task[p].name}, Entry(n),
         zset'[n] \in {zset[n], NoItem}, meta'[n] = meta[n]
  PROVE  Entry(n)'
  <1>1. Busy(n)' = Busy(n) /\ p \notin Busy(n)
    BY GoesOn DEF StoreInv
  <1>2. \A q \in Busy(n) : q \in Workers /\ task'[q] = task[q]
    BY <1>1 DEF Goes, Busy
  <1>3. listing' = listing /\ ranking' = ranking
    BY DEF Goes
  <1>4. ASSUME NEW q \in Busy(n)'
        PROVE  LET T == task'[q].todo IN
                 /\ T[1].do = "set" => zset'[n] \in {NoItem, T[1].item}
                 /\ T[1].do = "del" => zset'[n] = NoItem
                 /\ \A k \in 1 .. Len(T) : T[k].do \in {"zadd", "set"} => Fits(n, T[k].item)
    <2>1. q \in Busy(n) /\ task'[q] = task[q]
      BY <1>1, <1>2
    <2>2. LET T == task[q].todo IN
             /\ T[1].do = "set" => zset[n] \in {NoItem, T[1].item}
             /\ T[1].do = "del" => zset[n] = NoItem
             /\ \A k \in 1 .. Len(T) : T[k].do \in {"zadd", "set"} => Fits(n, T[k].item)
      BY <2>1 DEF Entry
    <2> QED
      BY <2>1, <2>2
  <1>5. ASSUME \A q \in Busy(n)' : \A k \in 1 .. Len(task'[q].todo) :
                 task'[q].todo[k].do \notin Writes,
               zset'[n] # NoItem
        PROVE  meta'[n] = zset'[n] /\ Fits(n, zset'[n])
    <2>1. \A q \in Busy(n) : \A k \in 1 .. Len(task[q].todo) : task[q].todo[k].do \notin Writes
      BY <1>1, <1>2, <1>5
    <2>2. zset'[n] = zset[n] /\ zset[n] # NoItem
      BY <1>5
    <2>3. meta[n] = zset[n] /\ Fits(n, zset[n])
      BY <2>1, <2>2 DEF Entry
    <2> QED
      BY <2>2, <2>3
  <1> QED
    BY <1>3, <1>4, <1>5 DEF Entry, Fits

\* The entry of the name whose command is run.
LEMMA OwnEntry ==
  ASSUME StoreInv, NEW p \in Workers, Goes(p, 1), Effect(p),
         sloppy'.raced = sloppy.raced, NEW n, n = task[p].name,
         n \notin sloppy.raced, Entry(n)
  PROVE  Entry(n)'
  <1> PICK T, U, o : T = task[p].todo /\ U = task'[p].todo /\ o = T[1]
    OBVIOUS
  <1>1. /\ n \in FeedNames /\ p \in Busy(n) /\ Busy(n)' \subseteq Busy(n)
        /\ \A q \in Busy(n) : q = p
    BY GoesOn DEF StoreInv, Alone
  <1>2. /\ T \in Seq(OpSet) /\ U \in Seq(OpSet) /\ Len(T) \in Nat /\ Len(U) \in Nat
        /\ Len(T) >= 1 /\ Len(U) = Len(T) - 1 /\ \A k \in 1 .. Len(U) : U[k] = T[k + 1]
        /\ WellFormed(ranking, T, n)
    BY DEF Goes, StoreInv, StoreTypes, Scripted
  <1>3. listing' = listing /\ ranking' = ranking
    BY DEF Goes
  <1>4. /\ T[1].do = "set" => zset[n] \in {NoItem, T[1].item}
        /\ T[1].do = "del" => zset[n] = NoItem
        /\ \A k \in 1 .. Len(T) : T[k].do \in {"zadd", "set"} => Fits(n, T[k].item)
        /\ (\A k \in 1 .. Len(T) : T[k].do \notin Writes) /\ zset[n] # NoItem
             => meta[n] = zset[n] /\ Fits(n, zset[n])
    BY <1>1 DEF Entry
  <1>5. /\ o.do = "zadd" => zset'[n] = o.item
        /\ o.do = "set" => zset'[n] = zset[n] /\ meta'[n] = o.item
        /\ o.do = "zrem" => zset'[n] = NoItem
        /\ o.do = "del" => zset'[n] = zset[n]
        /\ o.do \notin Writes => zset'[n] \in {zset[n], NoItem} /\ meta'[n] = meta[n]
    BY DEF Effect
  <1>l. Len(T) \in Nat /\ Len(U) \in Nat /\ Len(T) >= 1 /\ Len(U) = Len(T) - 1
    BY <1>2
  <1>6. \A k \in 1 .. Len(U) : U[k] = T[k + 1] /\ k + 1 \in 2 .. Len(T) /\ k + 1 \in 1 .. Len(T)
    <2>1. \A k \in 1 .. Len(U) : U[k] = T[k + 1]
      BY <1>2
    <2>2. \A k \in 1 .. Len(U) : k + 1 \in 2 .. Len(T) /\ k + 1 \in 1 .. Len(T)
      BY <1>l
    <2> QED
      BY <2>1, <2>2
  <1>7. \A k \in 1 .. Len(U) : U[k].do \in {"zadd", "set"} => Fits(n, U[k].item)
    BY <1>4, <1>6
  <1>8. U # <<>> => 1 \in 1 .. Len(U) /\ U[1] = T[2] /\ 2 \in 2 .. Len(T)
    BY <1>2, <1>6
  <1>9. ASSUME U # <<>>
        PROVE  /\ U[1].do = "set" => o.do = "zadd" /\ U[1].item = o.item
               /\ U[1].do = "del" => o.do = "zrem"
    <2>1. /\ T[2].do = "set" => T[1].do = "zadd"
          /\ T[2].do = "del" => T[1].do = "zrem"
      <3>1. /\ T[2].do = "set" => T[2 - 1].do = "zadd"
            /\ T[2].do = "del" => T[2 - 1].do = "zrem"
        BY <1>2, <1>8, <1>9 DEF WellFormed
      <3> QED
        BY <3>1
    <2>2. T[1].do = "zadd" => T[1 + 1].item = T[1].item
      BY <1>2 DEF WellFormed
    <2> QED
      BY <1>8, <1>9, <2>1, <2>2
  <1>10. ASSUME U # <<>>
         PROVE  /\ U[1].do = "set" => zset'[n] \in {NoItem, U[1].item}
                /\ U[1].do = "del" => zset'[n] = NoItem
    BY <1>5, <1>9, <1>10
  <1>11. ASSUME \A k \in 1 .. Len(U) : U[k].do \notin Writes, zset'[n] # NoItem
         PROVE  meta'[n] = zset'[n] /\ Fits(n, zset'[n])
    <2>1. CASE o.do = "zadd"
      <3>0. 1 \in 1 .. Len(T) /\ T[1].do = "zadd" /\ WellFormed(ranking, T, n)
        BY <2>1, <1>2
      <3>1. 1 < Len(T) /\ T[1 + 1].do = "set"
        BY <3>0 DEF WellFormed
      <3>2. U # <<>> /\ 1 \in 1 .. Len(U) /\ U[1] = T[2]
        BY <3>1, <1>l, <1>6
      <3> QED
        BY <3>1, <3>2, <1>11 DEF Writes
    <2>2. CASE o.do = "set"
      <3>0. 1 \in 1 .. Len(T) /\ T[1] = o
        BY <1>l
      <3>1. zset[n] = o.item
        BY <2>2, <3>0, <1>4, <1>5, <1>11
      <3>2. Fits(n, o.item)
        BY <2>2, <3>0, <1>4
      <3> QED
        BY <2>2, <3>1, <3>2, <1>5
    <2>3. CASE o.do \in {"zrem", "del"}
      BY <2>3, <1>4, <1>5, <1>11
    <2>4. CASE o.do \notin Writes
      <3>1. \A k \in 1 .. Len(T) : k = 1 \/ (k - 1 \in 1 .. Len(U) /\ (k - 1) + 1 = k)
        BY <1>2
      <3>2. \A k \in 1 .. Len(T) : T[k].do \notin Writes
        BY <3>1, <2>4, <1>6, <1>11
      <3>3. zset'[n] = zset[n] /\ zset[n] # NoItem /\ meta'[n] = meta[n]
        BY <2>4, <1>5, <1>11
      <3>4. meta[n] = zset[n] /\ Fits(n, zset[n])
        BY <1>4, <3>2, <3>3, Zenon
      <3> QED
        BY <3>3, <3>4
    <2> QED
      BY <2>1, <2>2, <2>3, <2>4 DEF Writes
  <1>12. \A q \in Busy(n)' : q = p /\ task'[p].todo = U /\ U # <<>>
    BY <1>1 DEF Busy
  <1>13. CASE p \in Busy(n)'
    <2>1. U # <<>> /\ Busy(n)' = {p}
      BY <1>12, <1>13
    <2>2. (\A q \in Busy(n)' : \A k \in 1 .. Len(task'[q].todo) :
             task'[q].todo[k].do \notin Writes)
            => \A k \in 1 .. Len(U) : U[k].do \notin Writes
      BY <2>1, <1>12
    <2>3. (\A q \in Busy(n)' : \A k \in 1 .. Len(task'[q].todo) :
             task'[q].todo[k].do \notin Writes) /\ zset'[n] # NoItem
            => meta'[n] = zset'[n] /\ Fits(n, zset'[n])
      BY <2>2, <1>11
    <2>4. \A q \in Busy(n)' :
            LET V == task'[q].todo IN
              /\ V[1].do = "set" => zset'[n] \in {NoItem, V[1].item}
              /\ V[1].do = "del" => zset'[n] = NoItem
              /\ \A k \in 1 .. Len(V) : V[k].do \in {"zadd", "set"} => Fits(n, V[k].item)
      BY <2>1, <1>7, <1>10, <1>12
    <2>5. Entry(n)'
      BY <1>3, <2>3, <2>4 DEF Entry, Fits
    <2> QED
      BY <2>5
  <1>14. CASE p \notin Busy(n)'
    <2>1. Busy(n)' = {}
      BY <1>12, <1>14
    <2>2. U = <<>>
      <3>1. U # <<>> => task'[p].name = n
        BY DEF Goes
      <3> QED
        BY <1>14, <3>1 DEF Busy
    <2>3. zset'[n] # NoItem => meta'[n] = zset'[n] /\ Fits(n, zset'[n])
      <3>1. Len(U) = 0
        BY <2>2
      <3>2. \A k \in 1 .. Len(U) : U[k].do \notin Writes
        BY <3>1
      <3> QED
        BY <3>2, <1>11
    <2>4. Entry(n)'
      BY <1>3, <2>1, <2>3 DEF Entry, Fits
    <2> QED
      BY <2>4
  <1> QED
    BY <1>13, <1>14

\* A command that succeeds.
Ran(p) ==
  \/ ZAdd(p) \/ SetMeta(p) \/ ZCard(p) \/ ZTrim(p) \/ ZRem(p) \/ DelMeta(p) \/ Send(p)

LEMMA CommandEffect ==
  ASSUME StoreInv, NEW p \in Workers, Ran(p)
  PROVE  /\ Goes(p, 1) /\ Effect(p)
         /\ zset' \in [FeedNames -> Items \cup {NoItem}]
         /\ meta' \in [FeedNames -> Items \cup {NoItem}]
         /\ sloppy' \in [raced : SUBSET FeedNames, failed : SUBSET FeedNames,
                        undone : SUBSET FeedNames, late : SUBSET FeedNames,
                        trimmed : BOOLEAN]
         /\ sloppy'.raced = sloppy.raced /\ sloppy'.failed = sloppy.failed
  <1> DEFINE S == [raced : SUBSET FeedNames, failed : SUBSET FeedNames,
                   undone : SUBSET FeedNames, late : SUBSET FeedNames, trimmed : BOOLEAN]
             E == [FeedNames -> Items \cup {NoItem}]
  <1> PICK n, T, o : n = task[p].name /\ T = task[p].todo /\ o = T[1]
    OBVIOUS
  <1>1. task[p].todo # <<>>
    BY DEF Ran, ZAdd, SetMeta, ZCard, ZTrim, ZRem, DelMeta, Send, Next1
  <1>2. /\ T \in Seq(OpSet) /\ Len(T) >= 1 /\ o = Head(T) /\ n \in FeedNames
        /\ o.name = n /\ o \in OpSet /\ 1 \in 1 .. Len(T)
        /\ o.do \in {"zadd", "set"} => o.item \in Items
    BY <1>1 DEF StoreInv, StoreTypes, Scripted, WellFormed
  <1>3. /\ zset \in E /\ meta \in E /\ sloppy \in S /\ p \in Workers
        /\ StoreTypes /\ Scripted
    BY DEF StoreInv, StoreTypes
  <1>4. /\ ~ ZCard(p) => Done(p)
        /\ UNCHANGED <<ranking, listing, resold, jobs>>
    BY DEF Ran, ZAdd, SetMeta, ZCard, ZTrim, ZRem, DelMeta, Send
  <1>5. Goes(p, 1)
    <2>1. CASE ~ ZCard(p)
      BY <1>1, <1>3, <1>4, <2>1, DoneGoes
    <2>2. CASE ZCard(p)
      <3> DEFINE V == [todo : Seq(OpSet), name : FeedNames \cup {0}, count : Nat]
      <3>1. task' = [task EXCEPT ![p].todo = Tail(@), ![p].count = Cardinality(Members(zset))]
        BY <2>2 DEF ZCard
      <3>2. Cardinality(Members(zset)) \in Nat
        BY FS_CardinalityType, FS_Subset, FeedAssumption DEF Members
      <3>3. task \in [Workers -> V]
        BY <1>3 DEF StoreTypes
      <3> PICK U : U = Tail(T)
        OBVIOUS
      <3>4. /\ U \in Seq(OpSet) /\ Len(U) = Len(T) - 1
            /\ \A k \in 1 .. Len(T) - 1 : U[k] = T[k + 1]
        BY <1>2, HeadTailProperties
      <3>5. /\ task'[p].todo = U /\ task'[p].name = n /\ task' \in [Workers -> V]
            /\ \A q \in Workers \ {p} : task'[q] = task[q]
        BY <3>1, <3>2, <3>3, <3>4
      <3>6. /\ Len(task'[p].todo) = Len(T) - 1
            /\ \A k \in 1 .. Len(task'[p].todo) : task'[p].todo[k] = T[k + 1]
        BY <1>2, <3>4, <3>5
      <3> QED
        BY <1>1, <1>2, <1>4, <3>5, <3>6 DEF Goes
    <2> QED
      BY <2>1, <2>2
  <1>6. /\ zset' \in E /\ meta' \in E /\ sloppy' \in S
        /\ sloppy'.raced = sloppy.raced /\ sloppy'.failed = sloppy.failed
        /\ Effect(p)
    <2>1. CASE ZAdd(p)
      <3>1. /\ zset' = [zset EXCEPT ![n] = o.item] /\ meta' = meta /\ o.do = "zadd"
            /\ sloppy' = [sloppy EXCEPT
                 !.late = IF Outdated(o) THEN @ \cup {n} ELSE @ \ {n}]
        BY <1>2, <2>1 DEF ZAdd, Next1
      <3>2. Effect(p)
        BY <1>2, <1>3, <3>1 DEF Effect, Writes
      <3> QED
        BY <1>2, <1>3, <3>1, <3>2
    <2>2. CASE SetMeta(p)
      <3>1. meta' = [meta EXCEPT ![n] = o.item] /\ zset' = zset /\ o.do = "set" /\ sloppy' = sloppy
        BY <1>2, <2>2 DEF SetMeta, Next1
      <3> QED
        BY <1>2, <1>3, <3>1 DEF Effect, Writes
    <2>3. CASE ZCard(p)
      <3>1. meta' = meta /\ zset' = zset /\ o.do = "zcard" /\ sloppy' = sloppy
        BY <1>2, <2>3 DEF ZCard, Next1
      <3> QED
        BY <1>2, <1>3, <3>1 DEF Effect, Writes
    <2>4. CASE ZTrim(p)
      <3>1. PICK out : /\ zset' = Without(zset, out)
                       /\ sloppy' = [sloppy EXCEPT !.trimmed = @ \/ out # {}]
        BY <2>4 DEF ZTrim
      <3>2. meta' = meta /\ o.do = "trim"
        BY <1>2, <2>4 DEF ZTrim, Next1
      <3>3. zset' \in E /\ \A m \in FeedNames : zset'[m] \in {zset[m], NoItem}
        BY <1>3, <3>1 DEF Without
      <3> QED
        BY <1>2, <1>3, <3>1, <3>2, <3>3 DEF Effect, Writes
    <2>5. CASE ZRem(p)
      <3>1. zset' = [zset EXCEPT ![n] = NoItem] /\ meta' = meta /\ o.do = "zrem" /\ sloppy' = sloppy
        BY <1>2, <2>5 DEF ZRem, Next1
      <3> QED
        BY <1>2, <1>3, <3>1 DEF Effect, Writes
    <2>6. CASE DelMeta(p)
      <3>1. meta' = [meta EXCEPT ![n] = NoItem] /\ zset' = zset /\ o.do = "del" /\ sloppy' = sloppy
        BY <1>2, <2>6 DEF DelMeta, Next1
      <3> QED
        BY <1>2, <1>3, <3>1 DEF Effect, Writes
    <2>7. CASE Send(p)
      <3>1. zset' = zset /\ meta' = meta /\ o.do \in Sends /\ sloppy' = sloppy
        BY <1>2, <2>7 DEF Send
      <3> QED
        BY <1>2, <1>3, <3>1 DEF Effect, Writes, Sends
    <2> QED
      BY <2>1, <2>2, <2>3, <2>4, <2>5, <2>6, <2>7 DEF Ran
  <1> QED
    BY <1>5, <1>6

\* One that fails writes nothing, and its name is marked.
LEMMA FailEffect ==
  ASSUME StoreInv, NEW p \in Workers, FailCommand(p)
  PROVE  /\ \E d \in Nat : Goes(p, d)
         /\ UNCHANGED <<zset, meta>>
         /\ task'[p].todo # <<>> => task'[p].todo[1].do \in Sends
         /\ sloppy' \in [raced : SUBSET FeedNames, failed : SUBSET FeedNames,
                        undone : SUBSET FeedNames, late : SUBSET FeedNames,
                        trimmed : BOOLEAN]
         /\ sloppy'.raced = sloppy.raced
         /\ sloppy'.failed = sloppy.failed \cup {task[p].name}
         /\ sloppy'.late = sloppy.late
  <1> PICK T : T = task[p].todo
    OBVIOUS
  <1> DEFINE V == [todo : Seq(OpSet), name : FeedNames \cup {0}, count : Nat]
  <1>1. /\ T # <<>> /\ T \in Seq(OpSet) /\ Len(T) \in Nat /\ Len(T) >= 1
        /\ task \in [Workers -> V] /\ task[p].name \in FeedNames
        /\ T[1].do \notin Sends
        /\ UNCHANGED <<ranking, listing, resold, zset, meta, jobs>>
        /\ sloppy' = [sloppy EXCEPT !.failed = @ \cup {task[p].name}]
    BY DEF FailCommand, StoreInv, StoreTypes, Scripted
  <1>2. PICK next \in DOMAIN T :
          /\ T[next].do \in Sends
          /\ task' = [task EXCEPT ![p].todo = SubSeq(@, next, Len(@))]
    BY DEF FailCommand
  <1>3. next \in 2 .. Len(T) /\ next - 1 \in Nat /\ next - 1 \in 1 .. Len(T)
    BY <1>1, <1>2
  <1> PICK U : U = SubSeq(T, next, Len(T))
    OBVIOUS
  <1>4. /\ U \in Seq(OpSet) /\ Len(U) = Len(T) - (next - 1)
        /\ \A k \in 1 .. Len(U) : U[k] = T[k + (next - 1)]
    <2>1. /\ U \in Seq(OpSet) /\ Len(U) = Len(T) - next + 1
          /\ \A k \in 1 .. Len(T) - next + 1 : U[k] = T[next + k - 1]
      BY <1>1, <1>3, SubSeqProperties
    <2>2. \A k \in 1 .. Len(T) - next + 1 : next + k - 1 = k + (next - 1)
      BY <1>1, <1>3
    <2> QED
      BY <1>1, <1>3, <2>1, <2>2
  <1>5. /\ task'[p].todo = U /\ task'[p].name = task[p].name
        /\ task' \in [Workers -> V] /\ \A q \in Workers \ {p} : task'[q] = task[q]
    BY <1>1, <1>2, <1>4
  <1>6. Goes(p, next - 1)
    BY <1>1, <1>3, <1>4, <1>5 DEF Goes
  <1>7. U # <<>> => U[1].do \in Sends
    <2>1. 1 \in 1 .. Len(U) /\ 1 + (next - 1) = next
      BY <1>1, <1>3, <1>4
    <2> QED
      BY <1>2, <1>4, <2>1
  <1> QED
    BY <1>1, <1>3, <1>5, <1>6, <1>7 DEF StoreInv, StoreTypes

\* The invariant is kept by a task's command ...
LEMMA CommandKeeps ==
  ASSUME StoreInv, NEW p \in Workers, Command(p)
  PROVE  StoreInv'
  <1>1. PICK d \in Nat :
          /\ Goes(p, d)
          /\ zset' \in [FeedNames -> Items \cup {NoItem}]
          /\ meta' \in [FeedNames -> Items \cup {NoItem}]
          /\ sloppy' \in [raced : SUBSET FeedNames, failed : SUBSET FeedNames,
                         undone : SUBSET FeedNames, late : SUBSET FeedNames,
                         trimmed : BOOLEAN]
          /\ sloppy'.raced = sloppy.raced
          /\ Ran(p) => d = 1 /\ Effect(p) /\ sloppy'.failed = sloppy.failed
          /\ ~ Ran(p) => /\ UNCHANGED <<zset, meta>>
                         /\ sloppy'.failed = sloppy.failed \cup {task[p].name}
    <2>1. CASE Ran(p)
      BY <2>1, CommandEffect
    <2>2. CASE ~ Ran(p)
      <3>1. FailCommand(p)
        BY <2>2 DEF Command, Ran
      <3> QED
        BY <2>2, <3>1, FailEffect DEF StoreInv, StoreTypes
    <2> QED
      BY <2>1, <2>2
  <1>2. Scripted' /\ Alone' /\ task[p].name \in FeedNames
    BY <1>1, GoesOn DEF StoreInv
  <1>3. StoreTypes'
    <2>1. resold' \subseteq Members(listing)'
      BY <1>1 DEF Goes, StoreInv, StoreTypes, Members
    <2> QED
      BY <1>1, <2>1 DEF StoreTypes, StoreInv, Goes
  <1>4. ASSUME NEW n \in FeedNames, Exact(n)'
        PROVE  Entry(n)'
    <2>1. Exact(n) /\ n \notin sloppy.raced /\ Entry(n)
      BY <1>1, <1>4 DEF Exact, StoreInv, Entries
    <2>2. CASE n # task[p].name
      <3>1. zset'[n] \in {zset[n], NoItem} /\ meta'[n] = meta[n]
        BY <1>1, <2>2 DEF Effect
      <3> QED
        BY <1>1, <2>1, <2>2, <3>1, OtherEntry
    <2>3. CASE n = task[p].name
      <3>1. Ran(p)
        BY <1>1, <1>4, <2>3 DEF Exact
      <3> QED
        BY <1>1, <2>1, <2>3, <3>1, OwnEntry
    <2> QED
      BY <2>2, <2>3
  <1> QED
    BY <1>2, <1>3, <1>4 DEF StoreInv, Entries

\* ... and by a job that starts.
LEMMA StartKeeps ==
  ASSUME StoreInv, NEW p \in Workers, NEW n \in FeedNames, NEW T, NEW u \in BOOLEAN,
         Start(p, n, T, u), jobs < MaxJobs,
         NEW i \in Items \cup {NoItem}, listing' = [listing EXCEPT ![n] = i],
         resold' \subseteq Members(listing)',
         WellFormed(ranking, T, n), T # <<>> => T[1].do \in {"zadd", "zrem"},
         \A k \in 1 .. Len(T) :
           T[k].do \in {"zadd", "set"} => T[k].item = i /\ i \in Items,
         T = <<>> => /\ ranking = "new" /\ listing[n] # NoItem
                     /\ i = [listing[n] EXCEPT !.discount = i.discount]
  PROVE  StoreInv'
  <1> DEFINE V == [todo : Seq(OpSet), name : FeedNames \cup {0}, count : Nat]
             j == [todo |-> T, name |-> n, count |-> 0]
  <1>1. /\ task[p].todo = <<>> /\ jobs' = jobs + 1 /\ task' = [task EXCEPT ![p] = j]
        /\ sloppy' = [sloppy EXCEPT
             !.raced = IF Busy(n) = {} THEN @ ELSE @ \cup {n},
             !.undone = IF u THEN @ \cup {n} ELSE IF T = <<>> THEN @ ELSE @ \ {n}]
        /\ UNCHANGED <<ranking, zset, meta>>
    BY DEF Start
  <1>2. /\ task \in [Workers -> V] /\ j \in V /\ j.todo = T /\ j.name = n
        /\ T \in Seq(OpSet)
    BY DEF StoreInv, StoreTypes, WellFormed
  <1> HIDE DEF j
  <1>3. /\ task' \in [Workers -> V] /\ task'[p] = j
        /\ \A q \in Workers \ {p} : task'[q] = task[q]
    BY <1>1, <1>2
  <1>4. /\ sloppy' \in [raced : SUBSET FeedNames, failed : SUBSET FeedNames,
                       undone : SUBSET FeedNames, late : SUBSET FeedNames,
                       trimmed : BOOLEAN]
        /\ sloppy'.raced = (IF Busy(n) = {} THEN sloppy.raced ELSE sloppy.raced \cup {n})
        /\ sloppy'.failed = sloppy.failed
    <2>1. sloppy \in [raced : SUBSET FeedNames, failed : SUBSET FeedNames,
                     undone : SUBSET FeedNames, late : SUBSET FeedNames,
                     trimmed : BOOLEAN]
      BY DEF StoreInv, StoreTypes
    <2> QED
      BY <1>1, <2>1
  <1>5. listing \in [FeedNames -> Items \cup {NoItem}]
    BY DEF StoreInv, StoreTypes
  <1>6. StoreTypes'
    <2>1. listing' \in [FeedNames -> Items \cup {NoItem}]
      BY <1>5
    <2>2. jobs' \in 0 .. MaxJobs
      BY <1>1, FeedAssumption DEF StoreInv, StoreTypes
    <2>3. zset' = zset /\ meta' = meta /\ ranking' = ranking
      BY <1>1
    <2> QED
      BY <1>3, <1>4, <2>1, <2>2, <2>3 DEF StoreInv, StoreTypes
  <1>7. Scripted'
    <2>1. ASSUME NEW q \in Workers
          PROVE  /\ WellFormed(ranking, task'[q].todo, task'[q].name)
                 /\ task'[q].todo # <<>> => task'[q].name \in FeedNames
                 /\ \A k \in 1 .. Len(task'[q].todo) :
                      task'[q].todo[k].do \in {"zadd", "set"} =>
                        task'[q].todo[k].item \in Items
      <3>1. CASE q = p
        BY <1>2, <1>3, <3>1
      <3>2. CASE q # p
        BY <1>3, <3>2 DEF StoreInv, Scripted
      <3> QED
        BY <3>1, <3>2
    <2> QED
      BY <1>1, <2>1 DEF Scripted
  <1>8. /\ \A m \in FeedNames : p \notin Busy(m)
        /\ \A m \in FeedNames \ {n} : Busy(m)' = Busy(m)
        /\ Busy(n)' = IF T = <<>> THEN Busy(n) ELSE Busy(n) \cup {p}
    BY <1>1, <1>2, <1>3 DEF Busy
  <1>9. \A m \in FeedNames \ {n} : m \in sloppy'.raced <=> m \in sloppy.raced
    BY <1>4
  <1>10. n \notin sloppy'.raced => Busy(n) = {} /\ n \notin sloppy.raced
    BY <1>4
  <1>11. Alone'
    <2>1. ASSUME NEW m \in FeedNames, m \notin sloppy'.raced,
                 NEW q \in Busy(m)', NEW r \in Busy(m)'
          PROVE  q = r
      <3>1. CASE m = n
        BY <1>8, <1>10, <2>1, <3>1
      <3>2. CASE m # n
        BY <1>8, <1>9, <2>1, <3>2 DEF StoreInv, Alone
      <3> QED
        BY <3>1, <3>2
    <2> QED
      BY <2>1 DEF Alone
  <1>12. ASSUME NEW m \in FeedNames \ {n}, Exact(m)'
         PROVE  Entry(m)'
    <2>1. Exact(m) /\ Entry(m)
      BY <1>4, <1>9, <1>12 DEF Exact, StoreInv, Entries
    <2>2. /\ listing'[m] = listing[m] /\ zset' = zset /\ meta' = meta /\ ranking' = ranking
          /\ Busy(m)' = Busy(m)
      BY <1>1, <1>5, <1>8
    <2>3. \A q \in Busy(m) : task'[q] = task[q]
      BY <1>3, <1>8 DEF Busy
    <2>4. \A k : Fits(m, k) <=> listing'[m] = IF ranking = "best" THEN k
                                             ELSE [k EXCEPT !.discount = listing'[m].discount]
      BY <2>2 DEF Fits
    <2>5. \A q \in Busy(m) : LET W == task'[q].todo IN
            /\ W[1].do = "set" => zset'[m] \in {NoItem, W[1].item}
            /\ W[1].do = "del" => zset'[m] = NoItem
            /\ \A k \in 1 .. Len(W) : W[k].do \in {"zadd", "set"} => Fits(m, W[k].item)
      BY <2>1, <2>2, <2>3 DEF Entry
    <2>6. (\A q \in Busy(m) : \A k \in 1 .. Len(task'[q].todo) :
             task'[q].todo[k].do \notin Writes) /\ zset'[m] # NoItem
            => meta'[m] = zset'[m] /\ Fits(m, zset'[m])
      BY <2>1, <2>2, <2>3 DEF Entry
    <2> HIDE DEF Fits
    <2> QED
      BY <2>2, <2>4, <2>5, <2>6 DEF Entry, Fits
  <1>13. ASSUME Exact(n)'
         PROVE  Entry(n)'
    <2>1. Exact(n) /\ Entry(n) /\ Busy(n) = {} /\ ranking' = ranking
      BY <1>1, <1>4, <1>10, <1>13 DEF Exact, StoreInv, Entries
    <2>2. listing'[n] = i
      BY <1>5
    <2>3. CASE T = <<>>
      <3>1. Busy(n)' = {} /\ zset' = zset /\ meta' = meta
        BY <1>1, <1>8, <2>1, <2>3
      <3>2. ASSUME zset[n] # NoItem
            PROVE  meta[n] = zset[n] /\ i = [zset[n] EXCEPT !.discount = i.discount]
        <4>1. meta[n] = zset[n] /\ Fits(n, zset[n])
          BY <2>1, <3>2 DEF Entry
        <4>2. listing[n] = [zset[n] EXCEPT !.discount = listing[n].discount]
          BY <2>3, <4>1 DEF Fits
        <4>3. listing[n] \in Items /\ zset[n] \in Items
          BY <2>3, <3>2 DEF StoreInv, StoreTypes
        <4>4. i = [listing[n] EXCEPT !.discount = i.discount]
          BY <2>3
        <4>5. i = [zset[n] EXCEPT !.discount = i.discount]
          <5>1. PICK l, z : l = listing[n] /\ z = zset[n]
            OBVIOUS
          <5>2. /\ l = [z EXCEPT !.discount = l.discount] /\ l \in Items /\ z \in Items
                /\ i = [l EXCEPT !.discount = i.discount]
            BY <4>2, <4>3, <4>4, <5>1
          <5>3. l.listed = z.listed
            BY <5>2 DEF Items
          <5>4. /\ [l EXCEPT !.discount = i.discount]
                     = [listed |-> l.listed, discount |-> i.discount]
                /\ [z EXCEPT !.discount = i.discount]
                     = [listed |-> z.listed, discount |-> i.discount]
            BY <5>2 DEF Items
          <5> QED
            BY <5>1, <5>2, <5>3, <5>4
        <4> QED
          BY <4>1, <4>5
      <3>3. ranking' # "best"
        BY <2>1, <2>3
      <3> QED
        BY <2>2, <3>1, <3>2, <3>3 DEF Entry, Fits
    <2>4. CASE T # <<>>
      <3>1. Busy(n)' = {p} /\ task'[p].todo = T
        BY <1>2, <1>3, <1>8, <2>1, <2>4
      <3>2. 1 \in 1 .. Len(T) /\ T[1].do \in {"zadd", "zrem"} /\ T[1].do \in Writes
        BY <1>2, <2>4 DEF Writes
      <3>3. i \in Items => i = [i EXCEPT !.discount = i.discount]
        BY DEF Items
      <3>4. \A k \in 1 .. Len(T) : T[k].do \in {"zadd", "set"} =>
              listing'[n] = IF ranking' = "best" THEN T[k].item
                            ELSE [T[k].item EXCEPT !.discount = listing'[n].discount]
        BY <2>2, <3>3
      <3> QED
        BY <3>1, <3>2, <3>4 DEF Entry, Fits
    <2> QED
      BY <2>3, <2>4
  <1> QED
    BY <1>6, <1>7, <1>11, <1>12, <1>13 DEF StoreInv, Entries

\* What every job is: the row of its name becomes i, a new one or the old one with
\* another discount, and it runs T.
Job(p, n, T, u, i) ==
  /\ Start(p, n, T, u) /\ jobs < MaxJobs
  /\ listing' = [listing EXCEPT ![n] = i]
  /\ resold' \subseteq Members(listing)'
  /\ WellFormed(ranking, T, n)
  /\ T # <<>> => T[1].do \in {"zadd", "zrem"}
  /\ \A k \in 1 .. Len(T) : T[k].do \in Puts => T[k].item = i /\ i \in Items
  /\ T = <<>> => /\ ranking = "new" /\ listing[n] # NoItem /\ ~ u
                 /\ i \in Items /\ i = [listing[n] EXCEPT !.discount = i.discount]
                 /\ n \in resold' <=> n \in resold
  /\ Steady(ranking, T)
  /\ Whole(T) \/ (ranking = "new" /\ u)
  /\ ranking = "new" /\ n \in resold' => ~ Putting(T)
  /\ i # NoItem => i.listed = IF listing[n] = NoItem THEN jobs + 1 ELSE listing[n].listed
  /\ \A m \in FeedNames \ {n} : m \in resold' <=> m \in resold
  /\ i = NoItem \/ Adding(T) \/ n \in resold' \/ T = <<>> \/ ranking = "best"

Jobs ==
  \/ \E p \in Workers, n \in FeedNames : ListName(p, n) \/ DropName(p, n)
  \/ \E p \in Requests, n \in FeedNames : Resell(p, n) \/ RelistName(p, n)
  \/ \E n \in FeedNames : UndoResale(n)

LEMMA JobOf ==
  ASSUME NEW p \in Workers, NEW n \in FeedNames, NEW T \in Seq(OpSet), NEW u \in BOOLEAN,
         NEW i \in Items, Start(p, n, T, u), jobs < MaxJobs,
         listing' = [listing EXCEPT ![n] = i], resold' \subseteq Members(listing)',
         Script(T, n, i), Whole(T) \/ (ranking = "new" /\ u),
         ranking = "new" /\ n \in resold' => ~ Putting(T),
         T = <<>> => /\ ranking = "new" /\ listing[n] # NoItem /\ ~ u
                     /\ i = [listing[n] EXCEPT !.discount = i.discount]
                     /\ n \in resold' <=> n \in resold,
         i.listed = IF listing[n] = NoItem THEN jobs + 1 ELSE listing[n].listed,
         \A m \in FeedNames \ {n} : m \in resold' <=> m \in resold,
         Adding(T) \/ n \in resold' \/ T = <<>> \/ ranking = "best"
  PROVE  Job(p, n, T, u, i)
  BY DEF Job, Script

LEMMA JobIs ==
  ASSUME StoreTypes, Jobs
  PROVE  \E p \in Workers, n \in FeedNames, T \in Seq(OpSet), u \in BOOLEAN,
            i \in Items \cup {NoItem} : Job(p, n, T, u, i)
  <1>1. /\ listing \in [FeedNames -> Items \cup {NoItem}] /\ resold \subseteq Members(listing)
        /\ jobs \in Nat /\ jobs <= MaxJobs /\ ranking \in Ranks
        /\ Requests \subseteq Workers /\ "poller" \in Workers /\ MaxJobs \in Nat
    BY FeedAssumption DEF StoreTypes, Workers
  <1>2. ASSUME jobs < MaxJobs
        PROVE  /\ [listed |-> jobs + 1, discount |-> Deals[jobs + 1]] \in Items
               /\ \A n \in FeedNames : listing[n] # NoItem =>
                    /\ listing[n] \in Items
                    /\ Rediscounted(n) \in Items
                    /\ Rediscounted(n).listed = listing[n].listed
                    /\ Rediscounted(n)
                         = [listing[n] EXCEPT !.discount = Rediscounted(n).discount]
    <2>1. jobs + 1 \in 1 .. MaxJobs
      BY <1>1, <1>2
    <2>2. Deals[jobs + 1] \in {Deals[j] : j \in 1 .. MaxJobs}
      BY <2>1
    <2>3. [listed |-> jobs + 1, discount |-> Deals[jobs + 1]] \in Items
      BY <2>1, <2>2 DEF Items
    <2>4. ASSUME NEW n \in FeedNames, listing[n] # NoItem
          PROVE  /\ listing[n] \in Items
                 /\ Rediscounted(n) \in Items
                 /\ Rediscounted(n).listed = listing[n].listed
                 /\ Rediscounted(n)
                      = [listing[n] EXCEPT !.discount = Rediscounted(n).discount]
      <3>1. listing[n] \in Items
        BY <1>1, <2>4
      <3>2. Rediscounted(n) = [listing[n] EXCEPT !.discount = Deals[jobs + 1]]
        BY DEF Rediscounted
      <3> PICK l, e, d : l = listing[n] /\ e = Rediscounted(n) /\ d = Deals[jobs + 1]
        OBVIOUS
      <3>3. l \in Items /\ e = [l EXCEPT !.discount = d] /\ d \in {Deals[j] : j \in 1 .. MaxJobs}
        BY <3>1, <3>2, <2>2
      <3>4. e \in Items /\ e.listed = l.listed /\ e.discount = d
        BY <3>3 DEF Items
      <3> QED
        BY <3>3, <3>4
    <2> QED
      BY <2>3, <2>4
  <1>3. ASSUME NEW p \in Workers, NEW n \in FeedNames, ListName(p, n)
        PROVE  \E T \in Seq(OpSet), i \in Items : Job(p, n, T, FALSE, i)
    <2> DEFINE i == [listed |-> jobs + 1, discount |-> Deals[jobs + 1]]
    <2>1. /\ listing[n] = NoItem /\ jobs < MaxJobs /\ listing' = [listing EXCEPT ![n] = i]
          /\ Start(p, n, Add(n, i), FALSE) /\ resold' = resold
      BY <1>3 DEF ListName
    <2>2. i \in Items /\ i.listed = jobs + 1
      BY <1>2, <2>1
    <2> HIDE DEF i
    <2>3. /\ Script(Add(n, i), n, i) /\ Adding(Add(n, i)) /\ Whole(Add(n, i))
          /\ Add(n, i) \in Seq(OpSet) /\ Add(n, i) # <<>>
      <3>1. Script(Add(n, i), n, i) /\ Adding(Add(n, i)) /\ Whole(Add(n, i))
        BY <1>1, <2>2, Scripts
      <3> QED
        BY <3>1 DEF Script, WellFormed, Adding
    <2>4. resold' \subseteq Members(listing)' /\ n \notin resold'
      BY <1>1, <2>1 DEF Members
    <2>5. Job(p, n, Add(n, i), FALSE, i)
      BY <2>1, <2>2, <2>3, <2>4, JobOf
    <2> QED
      BY <2>2, <2>3, <2>5
  <1>4. ASSUME NEW p \in Workers, NEW n \in FeedNames, DropName(p, n)
        PROVE  \E T \in Seq(OpSet) : Job(p, n, T, FALSE, NoItem)
    <2>1. /\ listing[n] # NoItem /\ jobs < MaxJobs /\ listing' = [listing EXCEPT ![n] = NoItem]
          /\ Start(p, n, Rem(n), FALSE) /\ resold' = resold \ {n}
      BY <1>4 DEF DropName
    <2>2. WellFormed(ranking, Rem(n), n) /\ Rem(n) \in Seq(OpSet) /\ Rem(n) # <<>>
      BY RemWell, RemIs
    <2>3. /\ Rem(n)[1].do = "zrem" /\ Len(Rem(n)) = 3 /\ Rem(n)[2].do = "del"
          /\ Rem(n)[3].do = "remove"
      BY RemIs, OpIs DEF Ops
    <2>5. resold' \subseteq Members(listing)' /\ n \notin resold'
          /\ \A m \in FeedNames \ {n} : m \in resold' <=> m \in resold
      BY <1>1, <2>1 DEF Members
    <2>6. /\ Steady(ranking, Rem(n)) /\ Whole(Rem(n))
          /\ \A k \in 1 .. Len(Rem(n)) : Rem(n)[k].do \notin Puts
      <3>1. listing[n] \in Items
        BY <1>1, <2>1
      <3>2. Script(Rem(n), n, listing[n]) /\ ~ Putting(Rem(n))
        BY <1>1, <3>1, Scripts
      <3> QED
        BY <3>2 DEF Script, Whole, Putting
    <2> PICK T : T = Rem(n)
      OBVIOUS
    <2>7. /\ Start(p, n, T, FALSE) /\ WellFormed(ranking, T, n) /\ T \in Seq(OpSet) /\ T # <<>>
          /\ T[1].do = "zrem" /\ Steady(ranking, T) /\ Whole(T)
          /\ \A k \in 1 .. Len(T) : T[k].do \notin Puts
      BY <2>1, <2>2, <2>3, <2>6
    <2>8. Job(p, n, T, FALSE, NoItem)
      BY <2>1, <2>5, <2>7 DEF Job
    <2> QED
      BY <2>7, <2>8
  <1>5. ASSUME NEW p \in Requests, NEW n \in FeedNames, Resell(p, n)
        PROVE  \E T \in Seq(OpSet), i \in Items : Job(p, n, T, FALSE, i)
    <2> PICK i : i = Rediscounted(n)
      OBVIOUS
    <2> DEFINE T == Rem(n) \o Only("best", Add(n, i))
    <2>1. /\ listing[n] # NoItem /\ jobs < MaxJobs /\ listing' = [listing EXCEPT ![n] = i]
          /\ resold' = resold \cup {n} /\ Start(p, n, T, FALSE)
      BY <1>5 DEF Resell
    <2>2. i \in Items /\ i.listed = listing[n].listed
      BY <1>2, <2>1
    <2>3. Script(T, n, i) /\ Whole(T) /\ (ranking = "new" => ~ Putting(T))
      BY <1>1, <2>2, Scripts
    <2>4. T \in Seq(OpSet) /\ T # <<>>
      <3>1. Rem(n) \in Seq(OpSet) /\ Len(Rem(n)) = 3
        BY RemIs
      <3>2. Add(n, i) \in Seq(OpSet) /\ <<>> \in Seq(OpSet)
        BY <1>1, <2>2, AddIs
      <3>3. Only("best", Add(n, i)) \in Seq(OpSet)
        BY <3>2 DEF Only
      <3>4. T \in Seq(OpSet) /\ Len(T) = Len(Rem(n)) + Len(Only("best", Add(n, i)))
        BY <3>1, <3>3, ConcatProperties
      <3> HIDE DEF T
      <3>5. Len(T) > 0
        BY <3>1, <3>3, <3>4
      <3> QED
        BY <3>4, <3>5
    <2> HIDE DEF T
    <2>5. resold' \subseteq Members(listing)' /\ n \in resold'
          /\ \A m \in FeedNames \ {n} : m \in resold' <=> m \in resold
      <3>1. i # NoItem
        BY <2>2, NoItemAssumption
      <3> QED
        BY <1>1, <2>1, <2>2, <3>1 DEF Members
    <2>6. Job(p, n, T, FALSE, i)
      BY <1>1, <2>1, <2>2, <2>3, <2>4, <2>5, JobOf
    <2> QED
      BY <2>2, <2>4, <2>6
  <1>6. ASSUME NEW p \in Requests, NEW n \in FeedNames, RelistName(p, n)
        PROVE  \E T \in Seq(OpSet), i \in Items : Job(p, n, T, FALSE, i)
    <2> PICK i : i = Rediscounted(n)
      OBVIOUS
    <2> DEFINE T == Only("best", Add(n, i))
    <2>1. /\ listing[n] # NoItem /\ jobs < MaxJobs /\ listing' = [listing EXCEPT ![n] = i]
          /\ resold' = resold /\ Start(p, n, T, FALSE)
      BY <1>6 DEF RelistName
    <2>2. /\ i \in Items /\ i.listed = listing[n].listed
          /\ i = [listing[n] EXCEPT !.discount = i.discount]
      BY <1>2, <2>1
    <2>3. Script(T, n, i) /\ Whole(T) /\ (ranking = "new" => T = <<>>)
      BY <1>1, <2>2, Scripts
    <2>4. Script(Add(n, i), n, i) /\ Adding(Add(n, i))
      BY <1>1, <2>2, Scripts
    <2>5. ranking = "best" => T = Add(n, i) /\ T # <<>>
      BY <2>4 DEF Only, Adding
    <2>6. T \in Seq(OpSet)
      BY <2>3 DEF Script, WellFormed
    <2> HIDE DEF T
    <2>7. resold' \subseteq Members(listing)'
      BY <1>1, <2>1, <2>2, NoItemAssumption DEF Members
    <2>8. ranking = "new" => ~ Putting(T)
      BY <2>3 DEF Putting
    <2>9. Job(p, n, T, FALSE, i)
      BY <1>1, <2>1, <2>2, <2>3, <2>5, <2>6, <2>7, <2>8, JobOf DEF Ranks
    <2> QED
      BY <2>2, <2>6, <2>9
  <1>7. ASSUME NEW n \in FeedNames, UndoResale(n)
        PROVE  \E T \in Seq(OpSet), i \in Items : Job("poller", n, T, TRUE, i)
    <2> PICK i : i = Rediscounted(n)
      OBVIOUS
    <2> DEFINE T == Rem(n) \o Add(n, i) \o Only("new", <<Op("remove", n, NoItem)>>)
    <2>1. /\ n \in resold /\ jobs < MaxJobs /\ listing' = [listing EXCEPT ![n] = i]
          /\ resold' = resold \ {n} /\ Start("poller", n, T, TRUE)
      BY <1>7 DEF UndoResale
    <2>2. listing[n] # NoItem
      BY <1>1, <2>1 DEF Members
    <2>3. i \in Items /\ i.listed = listing[n].listed
      BY <1>2, <2>1, <2>2
    <2>4. Script(T, n, i) /\ Adding(T) /\ (ranking = "best" => Whole(T))
      BY <1>1, <2>3, Scripts
    <2>5. T \in Seq(OpSet) /\ T # <<>>
      BY <2>4 DEF Script, WellFormed, Adding
    <2> HIDE DEF T
    <2>6. resold' \subseteq Members(listing)' /\ n \notin resold'
          /\ \A m \in FeedNames \ {n} : m \in resold' <=> m \in resold
      BY <1>1, <2>1 DEF Members
    <2>7. Job("poller", n, T, TRUE, i)
      BY <1>1, <2>1, <2>2, <2>3, <2>4, <2>5, <2>6, JobOf DEF Ranks
    <2> QED
      BY <2>3, <2>5, <2>7
  <1> QED
    BY <1>1, <1>3, <1>4, <1>5, <1>6, <1>7 DEF Jobs

\* The steps of the ranking: a job starts, a command is run, or the reader does
\* something, which changes nothing of the store's.
Rests == UNCHANGED <<ranking, listing, resold, zset, meta, task, jobs, sloppy>>
Reads ==
  Listen \/ ReadNames \/ ReadItem \/ Snapshot \/ Forward \/ Update \/ UNCHANGED feedVars

LEMMA FeedStepIs ==
  ASSUME [FeedNext]_feedVars
  PROVE  Jobs \/ (\E p \in Workers : Command(p)) \/ (Rests /\ Reads)
  <1>1. CASE Reads
    BY <1>1 DEF Reads, Listen, ReadNames, ReadItem, Snapshot, Forward, Update, feedVars, Rests
  <1>2. CASE ~ Reads
    BY <1>2, Zenon DEF FeedNext, Jobs, Reads
  <1> QED
    BY <1>1, <1>2

LEMMA FeedStarts ==
  ASSUME FeedInit
  PROVE  StoreInv
  <1>1. /\ listing = None /\ zset = None /\ meta = None /\ resold = {} /\ jobs = 0
        /\ ranking \in Ranks /\ task = [p \in Workers |-> Idle]
        /\ sloppy = [raced |-> {}, failed |-> {}, undone |-> {}, late |-> {},
                     trimmed |-> FALSE]
    BY DEF FeedInit
  <1>2. /\ None \in [FeedNames -> Items \cup {NoItem}]
        /\ \A n \in FeedNames : None[n] = NoItem
    BY DEF None
  <1>3. Idle \in [todo : Seq(OpSet), name : FeedNames \cup {0}, count : Nat] /\ Idle.todo = <<>>
    BY DEF Idle
  <1>4. \A p \in Workers : task[p] = Idle /\ task[p].todo = <<>> /\ Len(task[p].todo) = 0
    BY <1>1, <1>3
  <1>5. StoreTypes
    BY <1>1, <1>2, <1>3, FeedAssumption DEF StoreTypes
  <1>6. Scripted
    <2>1. \A n : WellFormed(ranking, <<>>, n)
      BY DEF WellFormed
    <2> QED
      BY <1>4, <2>1 DEF Scripted
  <1>7. \A n \in FeedNames : Busy(n) = {}
    BY <1>4 DEF Busy
  <1> QED
    BY <1>1, <1>2, <1>5, <1>6, <1>7 DEF StoreInv, Alone, Entries, Entry

LEMMA StoreKept ==
  ASSUME StoreInv, [FeedNext]_feedVars
  PROVE  StoreInv'
  <1>1. CASE Jobs
    <2>1. PICK p \in Workers, n \in FeedNames, T \in Seq(OpSet), u \in BOOLEAN,
               i \in Items \cup {NoItem} : Job(p, n, T, u, i)
      BY <1>1, JobIs DEF StoreInv
    <2> QED
      BY <2>1, StartKeeps DEF Job, Puts
  <1>2. CASE \E p \in Workers : Command(p)
    BY <1>2, CommandKeeps
  <1>3. CASE Rests
    <2>1. \A n \in FeedNames : Busy(n)' = Busy(n)
      BY <1>3 DEF Rests, Busy
    <2>2. StoreTypes'
      BY <1>3 DEF StoreInv, StoreTypes, Rests, Members
    <2>3. Scripted'
      BY <1>3 DEF StoreInv, Scripted, Rests, WellFormed
    <2>4. Alone'
      BY <1>3, <2>1 DEF StoreInv, Alone, Rests
    <2>5. ASSUME NEW n \in FeedNames, Exact(n)'
          PROVE  Entry(n)'
      <3>1. Entry(n)
        BY <1>3, <2>5 DEF StoreInv, Entries, Exact, Rests
      <3> QED
        BY <1>3, <2>1, <3>1 DEF Rests, Entry, Fits
    <2> QED
      BY <2>2, <2>3, <2>4, <2>5 DEF StoreInv, Entries
  <1> QED
    BY <1>1, <1>2, <1>3, FeedStepIs

\* EntriesMatchListings, for any names, requests, discounts and limits: while no
\* job is at a name that no two jobs met at, and no command of which failed, its
\* entry is that of its listing, and so is the entry's metadata.
THEOREM EntriesMatch == FeedSpec => []EntriesMatchListings
  <1>1. FeedInit => StoreInv
    BY FeedStarts
  <1>2. StoreInv /\ [FeedNext]_feedVars => StoreInv'
    BY StoreKept
  <1>3. StoreInv => EntriesMatchListings
    <2>1. ASSUME StoreInv, NEW n \in FeedNames, Resting(n), Exact(n), zset[n] # NoItem
          PROVE  meta[n] = zset[n] /\ Fits(n, zset[n])
      BY <2>1 DEF StoreInv, Entries, Entry, Resting
    <2> QED
      BY <2>1 DEF EntriesMatchListings, Fits
  <1> QED
    BY <1>1, <1>2, <1>3, PTL DEF FeedSpec

-----------------------------------------------------------------------------
(* The newest are kept: the order of the entries, and what a trim takes out. *)

\* The entries behind one.
Behind(n) == {m \in Members(zset) : Ahead(zset, n, m)}

LEMMA Ordered ==
  ASSUME StoreTypes
  PROVE  /\ IsFiniteSet(Members(zset)) /\ Cardinality(Members(zset)) \in Nat
         /\ \A n \in Members(zset) :
              IsFiniteSet(Behind(n)) /\ Cardinality(Behind(n)) \in Nat
                /\ Cardinality(Behind(n)) < Cardinality(Members(zset))
         /\ \A n, m \in Members(zset) :
              Ahead(zset, n, m) => Cardinality(Behind(m)) < Cardinality(Behind(n))
         /\ \A n, m \in Members(zset) : n = m \/ Ahead(zset, n, m) \/ Ahead(zset, m, n)
  <1> DEFINE M == Members(zset)
  <1>1. IsFiniteSet(M) /\ Cardinality(M) \in Nat
    BY FS_Subset, FS_CardinalityType, FeedAssumption DEF Members
  <1>2. /\ \A n \in M : Score(zset[n]) \in Int /\ n \in Nat
        /\ \A n, m \in M : Ahead(zset, n, m) <=>
             Score(zset[n]) > Score(zset[m]) \/ (Score(zset[n]) = Score(zset[m]) /\ n > m)
    <2>1. ASSUME NEW n \in M
          PROVE  Score(zset[n]) \in Int /\ n \in Nat
      <3>1. zset[n] \in Items /\ n \in Nat
        BY FeedAssumption DEF StoreTypes, Members
      <3>2. zset[n].listed \in Int /\ zset[n].discount \in Int
        BY <3>1, FeedAssumption DEF Items
      <3> QED
        BY <3>1, <3>2 DEF Score
    <2> QED
      BY <2>1 DEF Ahead
  <1>3. ASSUME NEW n \in M
        PROVE  /\ IsFiniteSet(Behind(n)) /\ Cardinality(Behind(n)) \in Nat
               /\ Cardinality(Behind(n)) < Cardinality(M)
    <2>1. Behind(n) \in SUBSET M /\ n \notin Behind(n)
      BY <1>2 DEF Behind
    <2>2. /\ IsFiniteSet(Behind(n)) /\ Cardinality(Behind(n)) <= Cardinality(M)
          /\ Cardinality(M) # Cardinality(Behind(n))
      BY <1>1, <2>1, FS_Subset
    <2>3. Cardinality(Behind(n)) \in Nat
      BY <2>2, FS_CardinalityType
    <2> QED
      BY <1>1, <2>2, <2>3
  <1>4. ASSUME NEW n \in M, NEW m \in M, Ahead(zset, n, m)
        PROVE  Cardinality(Behind(m)) < Cardinality(Behind(n))
    <2>1. Behind(m) \subseteq Behind(n)
      <3>1. ASSUME NEW l \in M, Ahead(zset, m, l)
            PROVE  Ahead(zset, n, l)
        BY <1>2, <1>4, <3>1
      <3> QED
        BY <3>1 DEF Behind
    <2>2. m \in Behind(n) /\ m \notin Behind(m)
      BY <1>2, <1>4 DEF Behind
    <2>3. /\ Cardinality(Behind(m)) <= Cardinality(Behind(n))
          /\ Cardinality(Behind(m)) # Cardinality(Behind(n))
      BY <1>3, <2>1, <2>2, FS_Subset
    <2> QED
      BY <1>3, <2>3
  <1>5. \A n, m \in M : n = m \/ Ahead(zset, n, m) \/ Ahead(zset, m, n)
    BY <1>2
  <1> QED
    BY <1>1, <1>3, <1>4, <1>5

\* A trim takes out the entries that come last; if its count is not too low, what
\* it leaves is not too much.
LEMMA Trimming ==
  ASSUME StoreTypes, NEW c \in Nat, NEW out,
         out = {n \in Members(zset) : Cardinality(Behind(n)) < c - Keep}
  PROVE  /\ \A n \in out, m \in Members(zset) \ out : Ahead(zset, m, n)
         /\ c >= Cardinality(Members(zset)) => Cardinality(Members(zset) \ out) <= Keep
  <1> DEFINE M == Members(zset)
             L == M \ out
             k == Cardinality(M)
  <1>1. /\ IsFiniteSet(M) /\ k \in Nat /\ Keep \in Nat /\ Keep >= 1
        /\ \A n \in M : Cardinality(Behind(n)) \in Nat /\ Cardinality(Behind(n)) < k
        /\ \A n, m \in M : n = m \/ Ahead(zset, n, m) \/ Ahead(zset, m, n)
        /\ \A n, m \in M :
             Ahead(zset, n, m) => Cardinality(Behind(m)) < Cardinality(Behind(n))
    BY Ordered, FeedAssumption
  <1>2. ASSUME NEW n \in out, NEW m \in L
        PROVE  Ahead(zset, m, n)
    <2>1. /\ n \in M /\ m \in M /\ n # m
          /\ Cardinality(Behind(n)) < c - Keep
          /\ ~ (Cardinality(Behind(m)) < c - Keep)
      BY <1>2
    <2>2. ~ (Cardinality(Behind(m)) < Cardinality(Behind(n)))
      <3>1. Cardinality(Behind(n)) \in Nat /\ Cardinality(Behind(m)) \in Nat
        BY <1>1, <2>1
      <3> QED
        BY <1>1, <2>1, <3>1
    <2> QED
      BY <1>1, <2>1, <2>2
  <1>3. ASSUME c >= k
        PROVE  Cardinality(L) <= Keep
    <2>1. IsFiniteSet(L) /\ Cardinality(L) <= k /\ Cardinality(L) \in Nat
      BY <1>1, FS_Subset, FS_CardinalityType
    <2>2. CASE k <= Keep
      BY <1>1, <2>1, <2>2
    <2>3. CASE k > Keep
      <3> DEFINE f == [n \in L |-> Cardinality(Behind(n))]
                 D == c - Keep .. k - 1
      <3>1. \A n \in L : Cardinality(Behind(n)) \in D
        <4>1. ASSUME NEW n \in L
              PROVE  Cardinality(Behind(n)) \in D
          <5>1. /\ n \in M /\ Cardinality(Behind(n)) \in Nat /\ Cardinality(Behind(n)) < k
                /\ ~ (Cardinality(Behind(n)) < c - Keep)
            BY <1>1
          <5> QED
            BY <1>1, <5>1
        <4> QED
          BY <4>1
      <3>2. \A n, m \in L : f[n] = f[m] => n = m
        <4>1. ASSUME NEW n \in L, NEW m \in L, f[n] = f[m], n # m
              PROVE  FALSE
          <5>1. /\ n \in M /\ m \in M
                /\ Cardinality(Behind(n)) = Cardinality(Behind(m))
                /\ Cardinality(Behind(n)) \in Nat
            BY <1>1, <4>1
          <5>2. ~ (Cardinality(Behind(n)) < Cardinality(Behind(m)))
                /\ ~ (Cardinality(Behind(m)) < Cardinality(Behind(n)))
            BY <5>1
          <5> QED
            BY <1>1, <4>1, <5>1, <5>2
        <4> QED
          BY <4>1
      <3>3. f \in Injection(L, D)
        BY <3>1, <3>2 DEF Injection, IsInjective
      <3>4. /\ IsFiniteSet(D)
            /\ Cardinality(D) = IF c - Keep > k - 1 THEN 0 ELSE (k - 1) - (c - Keep) + 1
        <4> DEFINE a == c - Keep
                   b == k - 1
        <4>1. a \in Int /\ b \in Int
          BY <1>1
        <4> HIDE DEF a, b
        <4>2. IsFiniteSet(a .. b) /\ Cardinality(a .. b) = IF a > b THEN 0 ELSE b - a + 1
          BY <4>1, FS_Interval
        <4> QED
          BY <4>2 DEF a, b
      <3>5. Cardinality(L) <= Cardinality(D)
        BY <3>3, <3>4, FS_Injection
      <3>6. Cardinality(D) \in Nat /\ Cardinality(D) <= Keep
        <4>1. CASE c - Keep > k - 1
          BY <1>1, <3>4, <4>1
        <4>2. CASE ~ (c - Keep > k - 1)
          BY <1>1, <1>3, <3>4, <4>2
        <4> QED
          BY <4>1, <4>2
      <3> HIDE DEF D, L
      <3> QED
        BY <1>1, <2>1, <3>5, <3>6
    <2> QED
      BY <1>1, <2>2, <2>3
  <1> QED
    BY <1>2, <1>3

\* The time of a listing is that of no other name's listing, entry or addition, and
\* none is later than the last job.
Stamped ==
  \A n \in Members(listing) :
    /\ listing[n].listed <= jobs
    /\ \A m \in FeedNames \ {n} :
         /\ m \in Members(listing) => listing[m].listed # listing[n].listed
         /\ m \in Members(zset) => zset[m].listed # listing[n].listed
         /\ \A p \in Busy(m) : \A k \in 1 .. Len(task[p].todo) :
              task[p].todo[k].do = "zadd" => task[p].todo[k].item.listed # listing[n].listed
Bounded ==
  /\ \A m \in Members(zset) : zset[m].listed <= jobs
  /\ \A p \in Workers : \A k \in 1 .. Len(task[p].todo) :
       task[p].todo[k].do = "zadd" => task[p].todo[k].item.listed <= jobs

\* A job removes the entry of a name that is no new listing any more, or adds it
\* again.
Removing ==
  ranking = "new" => \A n \in FeedNames \ sloppy.raced : \A p \in Busy(n) :
    task[p].todo[1].do = "zrem" =>
      n \notin Members(listing) \/ n \in resold \/ Adding(task[p].todo)

\* A listed name has no entry, and no job is to add it.
Missing(n) ==
  /\ n \in Members(listing) \ (Members(zset) \cup resold \cup sloppy.raced)
  /\ \A p \in Busy(n) : ~ Adding(task[p].todo)
Newer ==
  ranking = "new" /\ sloppy.failed = {} =>
    \A n \in FeedNames : Missing(n) =>
      \A m \in Members(zset) \ sloppy.late : zset[m].listed > listing[n].listed

\* The task is to count the entries, or to trim them and has counted enough.
Counts(p) ==
  \/ \E k \in 1 .. Len(task[p].todo) : task[p].todo[k].do = "zcard"
  \/ /\ task[p].todo # <<>> /\ task[p].todo[1].do = "trim"
     /\ task[p].count >= Cardinality(Members(zset))
Short ==
  ranking = "new" /\ sloppy.failed = {} =>
    Cardinality(Members(zset)) <= Keep \/ \E p \in Workers : Counts(p)

KeptInv == Stamped /\ Bounded /\ Removing /\ Newer /\ Short

\* An entry that no job is to replace is that of its listing.
LEMMA EntryTime ==
  ASSUME StoreInv, Removing, ranking = "new", NEW n \in FeedNames,
         n \in Members(listing), n \in Members(zset),
         n \notin resold, Exact(n), \A p \in Busy(n) : ~ Adding(task[p].todo)
  PROVE  zset[n].listed = listing[n].listed
  <1>1. SUFFICES Fits(n, zset[n])
    <2>1. zset[n] \in Items /\ listing[n] = [zset[n] EXCEPT !.discount = listing[n].discount]
      BY <1>1 DEF StoreInv, StoreTypes, Members, Fits
    <2>2. PICK l, z : l = listing[n] /\ z = zset[n]
      OBVIOUS
    <2>3. z \in Items /\ l = [z EXCEPT !.discount = l.discount]
      BY <2>1, <2>2
    <2>4. l.listed = z.listed
      BY <2>3 DEF Items
    <2> QED
      BY <2>2, <2>4
  <1>2. Entry(n) /\ zset[n] # NoItem
    BY DEF StoreInv, Entries, Members
  <1>3. CASE \A p \in Busy(n) : \A k \in 1 .. Len(task[p].todo) : task[p].todo[k].do \notin Writes
    BY <1>2, <1>3 DEF Entry
  <1>4. CASE \E p \in Busy(n) : \E k \in 1 .. Len(task[p].todo) : task[p].todo[k].do \in Writes
    <2>1. PICK p \in Busy(n) : \E k \in 1 .. Len(task[p].todo) : task[p].todo[k].do \in Writes
      BY <1>4
    <2>2. PICK T : T = task[p].todo
      OBVIOUS
    <2>3. PICK k \in 1 .. Len(T) : T[k].do \in Writes
      BY <2>1, <2>2
    <2>4. /\ T \in Seq(OpSet) /\ Len(T) \in Nat /\ WellFormed(ranking, T, n)
          /\ \A j \in 1 .. Len(T) : T[j].do # "zadd"
      BY <2>2 DEF StoreInv, StoreTypes, Scripted, Busy, Adding
    <2>5. T[1].do \in {"set", "del", "zrem"} /\ 1 \in 1 .. Len(T)
      <3>1. CASE k = 1
        BY <2>3, <2>4, <3>1 DEF Writes
      <3>2. CASE k # 1
        <4>1. k \in 2 .. Len(T) /\ k - 1 \in 1 .. Len(T)
          BY <2>3, <2>4, <3>2
        <4>2. /\ T[k].do # "zrem"
              /\ T[k].do = "del" => T[k - 1].do = "zrem"
              /\ T[k].do = "set" => T[k - 1].do = "zadd"
          BY <2>4, <4>1 DEF WellFormed
        <4>3. T[k - 1].do = "zrem"
          BY <2>3, <2>4, <4>1, <4>2 DEF Writes
        <4>4. k - 1 \notin 2 .. Len(T)
          BY <2>4, <4>3 DEF WellFormed
        <4>5. k - 1 = 1
          BY <2>3, <4>1, <4>4
        <4> QED
          BY <4>1, <4>3, <4>5
      <3> QED
        BY <3>1, <3>2
    <2>6. T[1].do # "zrem"
      <3>1. n \notin sloppy.raced /\ ~ Adding(T)
        BY <2>2 DEF Exact
      <3> QED
        BY <2>2, <3>1 DEF Removing
    <2>7. /\ T[1].do = "set" => zset[n] \in {NoItem, T[1].item}
          /\ T[1].do = "del" => zset[n] = NoItem
          /\ \A j \in 1 .. Len(T) : T[j].do \in {"zadd", "set"} => Fits(n, T[j].item)
      BY <1>2, <2>2 DEF Entry
    <2> QED
      BY <1>2, <2>5, <2>6, <2>7
  <1> QED
    BY <1>3, <1>4

\* What a command does to the entries, in full.
Stays == zset' = zset /\ sloppy'.late = sloppy.late
Adds(n, o) ==
  /\ o.do = "zadd" /\ o.item \in Items
  /\ zset' = [zset EXCEPT ![n] = o.item]
  /\ sloppy'.late = IF Outdated(o) THEN sloppy.late \cup {n} ELSE sloppy.late \ {n}
Trims(p, o) ==
  /\ o.do = "trim" /\ sloppy'.late = sloppy.late
  /\ \E out : /\ out = {n \in Members(zset) : Cardinality(Behind(n)) < task[p].count - Keep}
              /\ zset' = Without(zset, out)
Removes(n, o) ==
  o.do = "zrem" /\ zset' = [zset EXCEPT ![n] = NoItem] /\ sloppy'.late = sloppy.late

LEMMA RanIs ==
  ASSUME StoreInv, NEW p \in Workers, Ran(p),
         NEW o, o = task[p].todo[1], NEW n, n = task[p].name
  PROVE  /\ (Stays /\ o.do \notin {"zadd", "trim", "zrem"})
              \/ Adds(n, o) \/ Trims(p, o) \/ Removes(n, o)
         /\ o.do = "zcard" => task'[p].count = Cardinality(Members(zset))
         /\ o.do # "zcard" /\ task'[p].todo # <<>> => task'[p].count = task[p].count
  <1>1. task[p].todo # <<>>
    BY DEF Ran, ZAdd, SetMeta, ZCard, ZTrim, ZRem, DelMeta, Send, Next1
  <1>2. /\ task[p].todo \in Seq(OpSet) /\ o = Head(task[p].todo) /\ n \in FeedNames
        /\ o.name = n /\ (o.do = "zadd" => o.item \in Items)
        /\ StoreTypes /\ Scripted
    <2>1. StoreTypes /\ Scripted
      BY DEF StoreInv
    <2>2. /\ task[p].todo \in Seq(OpSet) /\ n \in FeedNames
          /\ WellFormed(ranking, task[p].todo, n) /\ 1 \in 1 .. Len(task[p].todo)
      BY <1>1, <2>1 DEF StoreTypes, Scripted
    <2>3. task[p].todo[1].name = n
      BY <2>2 DEF WellFormed
    <2>4. o.do = "zadd" => o.item \in Items
      BY <2>1, <2>2 DEF Scripted
    <2>5. o = Head(task[p].todo)
      BY <1>1, <2>2
    <2> QED
      BY <2>1, <2>2, <2>3, <2>4, <2>5
  <1>3. (Stays /\ o.do \notin {"zadd", "trim", "zrem"})
           \/ Adds(n, o) \/ Trims(p, o) \/ Removes(n, o)
    <2>1. CASE ZAdd(p)
      <3>1. /\ zset' = [zset EXCEPT ![n] = o.item] /\ o.do = "zadd"
            /\ sloppy' = [sloppy EXCEPT
                 !.late = IF Outdated(o) THEN @ \cup {n} ELSE @ \ {n}]
        BY <1>2, <2>1 DEF ZAdd, Next1
      <3>2. Adds(n, o)
        BY <1>2, <3>1 DEF Adds, StoreTypes
      <3> QED
        BY <3>2
    <2>2. CASE ZTrim(p)
      <3>1. PICK out :
              /\ out = {m \in Members(zset) :
                          Cardinality({l \in Members(zset) : Ahead(zset, m, l)})
                            < task[p].count - Keep}
              /\ zset' = Without(zset, out)
              /\ sloppy' = [sloppy EXCEPT !.trimmed = @ \/ out # {}]
        BY <2>2 DEF ZTrim
      <3>2. o.do = "trim" /\ sloppy'.late = sloppy.late
        BY <1>2, <2>2, <3>1 DEF ZTrim, Next1, StoreTypes
      <3> QED
        BY <3>1, <3>2 DEF Trims, Behind
    <2>3. CASE ZRem(p)
      BY <1>2, <2>3 DEF ZRem, Next1, Removes
    <2>4. CASE SetMeta(p) \/ ZCard(p) \/ DelMeta(p) \/ Send(p)
      BY <1>2, <2>4 DEF SetMeta, ZCard, DelMeta, Send, Sends, Next1, Stays
    <2> QED
      BY <2>1, <2>2, <2>3, <2>4 DEF Ran
  <1>4. o.do = "zcard" => task'[p].count = Cardinality(Members(zset))
    <2>1. o.do = "zcard" => ZCard(p)
      BY <1>2 DEF Ran, ZAdd, SetMeta, ZTrim, ZRem, DelMeta, Send, Sends, Next1
    <2>2. ZCard(p) => task'[p].count = Cardinality(Members(zset))
      BY <1>2 DEF ZCard, StoreTypes
    <2> QED
      BY <2>1, <2>2
  <1>5. o.do # "zcard" /\ task'[p].todo # <<>> => task'[p].count = task[p].count
    <2>1. o.do # "zcard" =>
            Done(p) /\ UNCHANGED <<ranking, listing, resold, jobs>>
      BY <1>2 DEF Ran, ZAdd, SetMeta, ZCard, ZTrim, ZRem, DelMeta, Send, Next1
    <2> QED
      BY <1>1, <1>2, <2>1, DoneGoes
  <1> QED
    BY <1>3, <1>4, <1>5, Zenon

\* The facts about times are kept by the commands ...
LEMMA TimesKept ==
  ASSUME StoreInv, Stamped, Bounded, NEW p \in Workers, NEW d \in Nat, Goes(p, d),
         sloppy'.raced = sloppy.raced,
         \A m \in FeedNames :
           \/ zset'[m] \in {zset[m], NoItem}
           \/ /\ m = task[p].name /\ task[p].todo[1].do = "zadd"
              /\ zset'[m] = task[p].todo[1].item
  PROVE  Stamped' /\ Bounded'
  <1> PICK T, U : T = task[p].todo /\ U = task'[p].todo
    OBVIOUS
  <1>1. /\ listing' = listing /\ jobs' = jobs /\ Len(T) \in Nat /\ 1 \in 1 .. Len(T)
        /\ \A k \in 1 .. Len(U) : k + d \in 1 .. Len(T) /\ U[k] = T[k + d]
        /\ \A q \in Workers \ {p} : task'[q] = task[q]
        /\ p \in Busy(task[p].name)
    <2>1. T \in Seq(OpSet) /\ U \in Seq(OpSet) /\ T # <<>>
      BY DEF Goes, StoreInv, StoreTypes
    <2>2. p \in Busy(task[p].name)
      BY GoesOn DEF StoreInv
    <2> QED
      BY <2>1, <2>2 DEF Goes
  <1>2. \A m \in FeedNames : Busy(m)' \subseteq Busy(m)
    BY GoesOn DEF StoreInv
  <1>3. \A q \in Workers : \A k \in 1 .. Len(task'[q].todo) :
          \E l \in 1 .. Len(task[q].todo) : task'[q].todo[k] = task[q].todo[l]
    <2>1. ASSUME NEW q \in Workers, NEW k \in 1 .. Len(task'[q].todo)
          PROVE  \E l \in 1 .. Len(task[q].todo) : task'[q].todo[k] = task[q].todo[l]
      <3>1. CASE q = p
        BY <1>1, <3>1
      <3>2. CASE q # p
        BY <1>1, <3>2
      <3> QED
        BY <3>1, <3>2
    <2> QED
      BY <2>1
  <1>4. Members(listing)' = Members(listing)
    BY <1>1 DEF Members
  <1>5. Bounded'
    <2>1. ASSUME NEW m \in Members(zset)'
          PROVE  zset'[m].listed <= jobs
      <3>1. m \in FeedNames /\ zset'[m] # NoItem
        BY DEF Members
      <3>2. CASE zset'[m] = zset[m]
        BY <3>1, <3>2 DEF Bounded, Members
      <3>3. CASE T[1].do = "zadd" /\ zset'[m] = T[1].item
        BY <1>1, <3>3 DEF Bounded
      <3> QED
        BY <3>1, <3>2, <3>3
    <2>2. ASSUME NEW q \in Workers, NEW k \in 1 .. Len(task'[q].todo),
                 task'[q].todo[k].do = "zadd"
          PROVE  task'[q].todo[k].item.listed <= jobs
      <3>1. PICK l \in 1 .. Len(task[q].todo) : task'[q].todo[k] = task[q].todo[l]
        BY <1>3
      <3> QED
        BY <2>2, <3>1 DEF Bounded
    <2> QED
      BY <1>1, <2>1, <2>2 DEF Bounded
  <1>6. ASSUME NEW n \in Members(listing)
        PROVE  /\ listing[n].listed <= jobs
               /\ \A m \in FeedNames \ {n} :
                    /\ m \in Members(listing) => listing[m].listed # listing[n].listed
                    /\ m \in Members(zset)' => zset'[m].listed # listing[n].listed
                    /\ \A q \in Busy(m)' : \A k \in 1 .. Len(task'[q].todo) :
                         task'[q].todo[k].do = "zadd"
                           => task'[q].todo[k].item.listed # listing[n].listed
    <2>1. ASSUME NEW m \in FeedNames \ {n}, m \in Members(zset)'
          PROVE  zset'[m].listed # listing[n].listed
      <3>1. zset'[m] # NoItem
        BY <2>1 DEF Members
      <3>2. CASE zset'[m] = zset[m]
        BY <3>1, <3>2 DEF Stamped, Members
      <3>3. CASE m = task[p].name /\ T[1].do = "zadd" /\ zset'[m] = T[1].item
        BY <1>1, <3>3 DEF Stamped
      <3> QED
        BY <3>1, <3>2, <3>3
    <2>2. ASSUME NEW m \in FeedNames \ {n}, NEW q \in Busy(m)',
                 NEW k \in 1 .. Len(task'[q].todo), task'[q].todo[k].do = "zadd"
          PROVE  task'[q].todo[k].item.listed # listing[n].listed
      <3>1. q \in Busy(m) /\ q \in Workers
        BY <1>2 DEF Busy
      <3>2. PICK l \in 1 .. Len(task[q].todo) : task'[q].todo[k] = task[q].todo[l]
        BY <1>3, <3>1
      <3> QED
        BY <2>2, <3>1, <3>2 DEF Stamped
    <2> QED
      BY <2>1, <2>2 DEF Stamped
  <1>7. Stamped'
    BY <1>1, <1>4, <1>6 DEF Stamped
  <1> QED
    BY <1>5, <1>7

LEMMA RemovingKept ==
  ASSUME StoreInv, Removing, NEW p \in Workers, NEW d \in Nat, Goes(p, d),
         sloppy'.raced = sloppy.raced
  PROVE  Removing'
  <1>1. ASSUME ranking = "new", NEW n \in FeedNames \ sloppy.raced, NEW q \in Busy(n)',
               task'[q].todo[1].do = "zrem"
        PROVE  n \notin Members(listing) \/ n \in resold \/ Adding(task'[q].todo)
    <2>1. q \in Busy(n) /\ q \in Workers
      BY GoesOn DEF StoreInv, Busy
    <2>2. CASE q = p
      <3> PICK T, U : T = task[p].todo /\ U = task'[p].todo
        OBVIOUS
      <3>1. /\ U # <<>> /\ U \in Seq(OpSet) /\ T \in Seq(OpSet)
            /\ WellFormed(ranking, T, task[p].name)
            /\ Len(U) = Len(T) - d /\ d >= 1
            /\ \A k \in 1 .. Len(U) : U[k] = T[k + d]
        BY <1>1, <2>2 DEF Busy, Goes, StoreInv, StoreTypes, Scripted
      <3>2. 1 \in 1 .. Len(U) /\ 1 + d \in 2 .. Len(T)
        BY <3>1
      <3>3. U[1].do # "zrem"
        BY <3>1, <3>2 DEF WellFormed
      <3>4. task'[q].todo = U
        BY <2>2
      <3> QED
        BY <1>1, <3>3, <3>4
    <2>3. CASE q # p
      BY <1>1, <2>1, <2>3 DEF Goes, Removing
    <2> QED
      BY <2>2, <2>3
  <1>2. ranking' = ranking /\ resold' = resold /\ Members(listing)' = Members(listing)
    BY DEF Goes, Members
  <1> QED
    BY <1>1, <1>2 DEF Removing

\* ... and so are the others: the new entry of a name, and what a trim leaves, is
\* newer than what has none.
LEMMA NewerKept ==
  ASSUME StoreInv, KeptInv, NEW p \in Workers, Ran(p), ranking = "new",
         sloppy.failed = {}, NEW n \in FeedNames, Missing(n)',
         NEW m \in Members(zset)', m \notin sloppy'.late
  PROVE  zset'[m].listed > listing[n].listed
  <1> PICK T, U, o, b : T = task[p].todo /\ U = task'[p].todo /\ o = T[1] /\ b = task[p].name
    OBVIOUS
  <1>1. Goes(p, 1) /\ sloppy'.raced = sloppy.raced
    BY CommandEffect
  <1>2. /\ (Stays /\ o.do \notin {"zadd", "trim", "zrem"})
             \/ Adds(b, o) \/ Trims(p, o) \/ Removes(b, o)
    BY RanIs
  <1>3. /\ T \in Seq(OpSet) /\ Len(T) \in Nat /\ Len(T) >= 1 /\ Len(U) = Len(T) - 1
        /\ \A k \in 1 .. Len(U) : U[k] = T[k + 1]
        /\ \A q \in Workers \ {p} : task'[q] = task[q]
        /\ listing' = listing /\ resold' = resold /\ ranking' = ranking
        /\ U # <<>> => task'[p].name = b
        /\ U \in Seq(OpSet)
    BY <1>1 DEF Goes, StoreInv, StoreTypes
  <1>4. /\ zset \in [FeedNames -> Items \cup {NoItem}]
        /\ listing \in [FeedNames -> Items \cup {NoItem}]
        /\ zset' \in [FeedNames -> Items \cup {NoItem}]
        /\ b \in FeedNames /\ StoreTypes
    BY CommandEffect, <1>1, GoesOn DEF StoreInv, StoreTypes
  <1>5. /\ n \in Members(listing) /\ n \notin resold /\ n \notin sloppy.raced
        /\ zset'[n] = NoItem /\ zset'[m] # NoItem /\ m \in FeedNames /\ n # m
        /\ \A q \in Busy(n)' : ~ Adding(task'[q].todo)
    BY <1>1, <1>3 DEF Missing, Members, Adding
  <1>6. o.do # "zadd" => (\A q \in Busy(n) : ~ Adding(task[q].todo))
    <2>1. ASSUME o.do # "zadd", NEW q \in Busy(n), Adding(task[q].todo)
          PROVE  FALSE
      <3>1. CASE q # p
        <4>1. task'[q] = task[q] /\ q \in Busy(n)'
          BY <1>3, <2>1, <3>1 DEF Busy
        <4> QED
          BY <1>5, <2>1, <4>1
      <3>2. CASE q = p
        <4>1. PICK k \in 1 .. Len(T) : T[k].do = "zadd"
          BY <2>1, <3>2 DEF Adding
        <4>2. k - 1 \in 1 .. Len(U) /\ (k - 1) + 1 = k
          BY <1>3, <2>1, <4>1
        <4>3. U[k - 1].do = "zadd" /\ U # <<>>
          BY <1>3, <4>1, <4>2
        <4>4. p \in Busy(n)' /\ Adding(U)
          BY <1>3, <2>1, <3>2, <4>2, <4>3 DEF Busy, Adding
        <4> QED
          BY <1>5, <4>4
      <3> QED
        BY <3>1, <3>2
    <2> QED
      BY <2>1
  <1>7. ASSUME o.do # "zadd", zset[n] = NoItem
        PROVE  Missing(n)
    BY <1>5, <1>6, <1>7 DEF Missing, Members
  <1>8. Missing(n) /\ zset'[m] = zset[m] /\ m \notin sloppy.late
          => zset'[m].listed > listing[n].listed
    BY <1>5 DEF KeptInv, Newer, Members
  <1>9. CASE Stays /\ o.do \notin {"zadd", "trim", "zrem"}
    <2>1. zset' = zset /\ sloppy'.late = sloppy.late
      BY <1>9 DEF Stays
    <2> QED
      BY <1>5, <1>7, <1>8, <1>9, <2>1
  <1>10. CASE Removes(b, o)
    <2>1. /\ o.do = "zrem" /\ zset' = [zset EXCEPT ![b] = NoItem] /\ sloppy'.late = sloppy.late
      BY <1>10 DEF Removes
    <2>2. m # b /\ zset'[m] = zset[m]
      BY <1>4, <1>5, <2>1
    <2>3. zset[n] = NoItem
      <3>1. CASE n = b
        <4>1. p \in Busy(n) /\ task[p].todo[1].do = "zrem"
          BY <1>1, <2>1, <3>1, GoesOn DEF StoreInv
        <4>2. Adding(T)
          BY <1>5, <4>1 DEF KeptInv, Removing
        <4> QED
          BY <1>6, <2>1, <4>1, <4>2
      <3>2. CASE n # b
        BY <1>4, <1>5, <2>1, <3>2
      <3> QED
        BY <3>1, <3>2
    <2> QED
      BY <1>7, <1>8, <2>1, <2>2, <2>3
  <1>11. CASE Adds(b, o)
    <2>1. /\ o.do = "zadd" /\ zset' = [zset EXCEPT ![b] = o.item] /\ o.item \in Items
          /\ sloppy'.late = IF Outdated(o) THEN sloppy.late \cup {b} ELSE sloppy.late \ {b}
      BY <1>11 DEF Adds
    <2>2. n # b
      BY <1>4, <1>5, <2>1, NoItemAssumption
    <2>3. zset[n] = NoItem
      BY <1>4, <1>5, <2>1, <2>2
    <2>4. Missing(n)
      <3>1. \A q \in Busy(n) : q \in Busy(n)' /\ task'[q] = task[q]
        <4>1. Busy(n)' = Busy(n) /\ p \notin Busy(n)
          BY <1>1, <2>2, GoesOn DEF StoreInv
        <4> QED
          BY <1>3, <4>1 DEF Busy
      <3> QED
        BY <1>5, <2>3, <3>1 DEF Missing, Members
    <2>5. CASE m = b
      <3>1. zset'[m] = o.item
        BY <1>4, <2>1, <2>5
      <3>2. ~ Outdated(o)
        BY <2>1, <2>5
      <3>3. ~ (listing[n].listed > o.item.listed)
        BY <1>5, <3>2 DEF Outdated
      <3>4. o.item.listed # listing[n].listed
        <4>1. p \in Busy(b) /\ 1 \in 1 .. Len(T)
          BY <1>1, <1>3, GoesOn DEF StoreInv
        <4> QED
          BY <1>4, <1>5, <2>1, <2>2, <4>1 DEF KeptInv, Stamped
      <3>5. listing[n].listed \in Int /\ o.item.listed \in Int
        BY <1>4, <1>5, <2>1 DEF Items, Members
      <3> QED
        BY <3>1, <3>3, <3>4, <3>5
    <2>6. CASE m # b
      BY <1>4, <1>5, <1>8, <2>1, <2>4, <2>6
    <2> QED
      BY <2>5, <2>6
  <1>12. CASE Trims(p, o)
    <2>1. PICK out : /\ out = {k \in Members(zset) : Cardinality(Behind(k)) < task[p].count - Keep}
                     /\ zset' = Without(zset, out)
      BY <1>12 DEF Trims
    <2>2. o.do = "trim" /\ sloppy'.late = sloppy.late
      BY <1>12 DEF Trims
    <2>3. m \in Members(zset) \ out /\ zset'[m] = zset[m]
      BY <1>5, <2>1 DEF Without, Members
    <2>4. CASE zset[n] = NoItem
      BY <1>7, <1>8, <2>2, <2>3, <2>4
    <2>5. CASE zset[n] # NoItem
      <3>1. n \in Members(zset) /\ n \in out
        BY <1>5, <2>1, <2>5 DEF Without, Members
      <3>2. Ahead(zset, m, n)
        <4>1. task[p].count \in Nat
          BY DEF StoreInv, StoreTypes
        <4> QED
          BY <1>4, <2>1, <2>3, <3>1, <4>1, Trimming
      <3>3. zset[n].listed = listing[n].listed
        BY <1>5, <1>6, <2>2, <3>1, EntryTime DEF KeptInv, Exact
      <3>4. zset[m].listed # listing[n].listed
        BY <1>5, <2>3 DEF KeptInv, Stamped
      <3>5. zset[m].listed \in Int /\ zset[n].listed \in Int
        BY <1>4, <2>3, <3>1 DEF Items, Members
      <3>6. zset[m].listed > zset[n].listed \/ zset[m].listed = zset[n].listed
        BY <3>2 DEF Ahead, Score
      <3> QED
        BY <2>3, <3>3, <3>4, <3>5, <3>6
    <2> QED
      BY <2>4, <2>5
  <1> QED
    BY <1>2, <1>9, <1>10, <1>11, <1>12

\* While there are too many entries, a task is to trim them.
LEMMA ShortKept ==
  ASSUME StoreInv, Short, NEW p \in Workers, Ran(p), ranking = "new", sloppy.failed = {}
  PROVE  Cardinality(Members(zset)') <= Keep \/ \E q \in Workers : Counts(q)'
  <1> PICK T, U, o, b : T = task[p].todo /\ U = task'[p].todo /\ o = T[1] /\ b = task[p].name
    OBVIOUS
  <1> DEFINE K == Cardinality(Members(zset))
  <1>1. /\ Goes(p, 1) /\ zset' \in [FeedNames -> Items \cup {NoItem}]
        /\ zset \in [FeedNames -> Items \cup {NoItem}] /\ StoreTypes
    BY CommandEffect DEF StoreInv, StoreTypes
  <1>2. /\ (Stays /\ o.do \notin {"zadd", "trim", "zrem"})
             \/ Adds(b, o) \/ Trims(p, o) \/ Removes(b, o)
        /\ o.do = "zcard" => task'[p].count = K
    BY RanIs
  <1>3. /\ T \in Seq(OpSet) /\ Len(T) \in Nat /\ Len(T) >= 1 /\ Len(U) = Len(T) - 1
        /\ \A k \in 1 .. Len(U) : U[k] = T[k + 1]
        /\ \A q \in Workers \ {p} : task'[q] = task[q]
        /\ U \in Seq(OpSet) /\ WellFormed(ranking, T, b) /\ 1 \in 1 .. Len(T)
    <2>1. WellFormed(ranking, T, b)
      BY DEF StoreInv, Scripted
    <2>2. T \in Seq(OpSet)
      BY <1>1 DEF StoreTypes
    <2>3. /\ Len(T) >= 1 /\ Len(U) = Len(T) - 1 /\ U \in Seq(OpSet)
          /\ \A k \in 1 .. Len(U) : U[k] = T[k + 1]
          /\ \A q \in Workers \ {p} : task'[q] = task[q]
      BY <1>1 DEF Goes
    <2> QED
      BY <2>1, <2>2, <2>3
  <1>4. IsFiniteSet(Members(zset)) /\ K \in Nat
    BY <1>1, Ordered
  <1>5. CASE Adds(b, o)
    <2>1. o.do = "zadd"
      BY <1>5 DEF Adds
    <2>2. 1 + 2 <= Len(T) /\ T[1 + 2].do = "zcard"
      BY <1>3, <2>1 DEF WellFormed
    <2>3. 2 \in 1 .. Len(U) /\ U[2].do = "zcard"
      BY <1>3, <2>2
    <2>4. Counts(p)'
      BY <2>3 DEF Counts
    <2> QED
      BY <2>4
  <1>6. CASE ~ Adds(b, o)
    <2>1. Members(zset)' \subseteq Members(zset)
      <3>1. \A k \in FeedNames : zset'[k] \in {zset[k], NoItem}
        BY <1>1, <1>2, <1>6 DEF Stays, Trims, Removes, Without
      <3> QED
        BY <3>1 DEF Members
    <2>2. Cardinality(Members(zset)') \in Nat /\ Cardinality(Members(zset)') <= K
      BY <1>4, <2>1, FS_Subset, FS_CardinalityType
    <2>3. CASE K <= Keep
      BY <1>4, <2>2, <2>3, FeedAssumption
    <2>4. CASE ~ (K <= Keep)
      <3>1. PICK q \in Workers : Counts(q)
        BY <2>4 DEF Short
      <3>2. CASE q # p
        <4>1. task'[q] = task[q] /\ task[q].count \in Nat
          BY <1>1, <1>3, <3>2 DEF StoreTypes
        <4>2. CASE \E k \in 1 .. Len(task[q].todo) : task[q].todo[k].do = "zcard"
          <5>1. Counts(q)'
            BY <4>1, <4>2 DEF Counts
          <5> QED
            BY <5>1
        <4>3. CASE /\ task[q].todo # <<>> /\ task[q].todo[1].do = "trim"
                   /\ task[q].count >= K
          <5>1. task'[q].count >= Cardinality(Members(zset)')
            BY <1>4, <2>2, <4>1, <4>3
          <5>2. Counts(q)'
            BY <4>1, <4>3, <5>1 DEF Counts
          <5> QED
            BY <5>2
        <4> QED
          BY <3>1, <4>2, <4>3 DEF Counts
      <3>3. CASE q = p /\ \E k \in 1 .. Len(T) : T[k].do = "zcard"
        <4>1. PICK k \in 1 .. Len(T) : T[k].do = "zcard"
          BY <3>3
        <4>2. CASE k = 1
          <5>1. 1 < Len(T) /\ T[1 + 1].do = "trim"
            BY <1>3, <4>1, <4>2 DEF WellFormed
          <5>2. U # <<>> /\ U[1].do = "trim"
            <6>1. 1 \in 1 .. Len(U) /\ U[1] = T[1 + 1]
              BY <1>3, <5>1
            <6> QED
              BY <5>1, <6>1, <1>3
          <5>3. task'[p].count >= Cardinality(Members(zset)')
            BY <1>2, <1>4, <2>2, <4>1, <4>2
          <5>4. Counts(p)'
            BY <5>2, <5>3 DEF Counts
          <5> QED
            BY <5>4
        <4>3. CASE k # 1
          <5>1. k - 1 \in 1 .. Len(U) /\ (k - 1) + 1 = k
            BY <1>3, <4>3
          <5>2. U[k - 1].do = "zcard"
            BY <1>3, <4>1, <5>1
          <5>3. Counts(p)'
            BY <5>1, <5>2 DEF Counts
          <5> QED
            BY <5>3
        <4> QED
          BY <4>2, <4>3
      <3>4. CASE q = p /\ T[1].do = "trim" /\ task[p].count >= K
        <4>1. Trims(p, o)
          BY <1>2, <1>6, <3>4 DEF Removes
        <4>2. PICK out : /\ out = {k \in Members(zset) : Cardinality(Behind(k)) < task[p].count - Keep}
                         /\ zset' = Without(zset, out)
          BY <4>1 DEF Trims
        <4>3. Members(zset)' = Members(zset) \ out
          BY <1>1, <4>2 DEF Members, Without
        <4>4. task[p].count \in Nat
          BY <1>1 DEF StoreTypes
        <4>5. Cardinality(Members(zset) \ out) <= Keep
          BY <1>1, <3>4, <4>2, <4>4, Trimming
        <4> QED
          BY <4>3, <4>5
      <3> QED
        BY <3>1, <3>2, <3>3, <3>4 DEF Counts
    <2> QED
      BY <2>3, <2>4
  <1> QED
    BY <1>5, <1>6

LEMMA KeptByCommands ==
  ASSUME StoreInv, KeptInv, NEW p \in Workers, Command(p)
  PROVE  KeptInv'
  <1>1. CASE Ran(p)
    <2>1. /\ Goes(p, 1) /\ Effect(p) /\ sloppy'.raced = sloppy.raced
          /\ sloppy'.failed = sloppy.failed
          /\ zset' \in [FeedNames -> Items \cup {NoItem}] /\ task[p].name \in FeedNames
      BY <1>1, CommandEffect, GoesOn DEF StoreInv
    <2>2. \A m \in FeedNames :
            \/ zset'[m] \in {zset[m], NoItem}
            \/ /\ m = task[p].name /\ task[p].todo[1].do = "zadd"
               /\ zset'[m] = task[p].todo[1].item
      BY <2>1 DEF Effect, Writes
    <2>3. Stamped' /\ Bounded'
      BY <2>1, <2>2, TimesKept DEF KeptInv
    <2>4. Removing'
      BY <2>1, RemovingKept DEF KeptInv
    <2>5. listing' = listing /\ ranking' = ranking
      BY <2>1 DEF Goes
    <2>6. Newer'
      BY <1>1, <2>1, <2>5, NewerKept DEF Newer, Members
    <2>7. Short'
      BY <1>1, <2>1, <2>5, ShortKept DEF Short, KeptInv
    <2> QED
      BY <2>3, <2>4, <2>6, <2>7 DEF KeptInv
  <1>2. CASE FailCommand(p)
    <2>1. PICK d \in Nat : Goes(p, d)
      BY <1>2, FailEffect
    <2>2. /\ sloppy'.raced = sloppy.raced /\ zset' = zset
          /\ sloppy'.failed = sloppy.failed \cup {task[p].name}
      BY <1>2, FailEffect
    <2>3. Stamped' /\ Bounded'
      BY <2>1, <2>2, TimesKept DEF KeptInv
    <2>4. Removing'
      BY <2>1, <2>2, RemovingKept DEF KeptInv
    <2>5. sloppy'.failed # {}
      BY <2>2
    <2> QED
      BY <2>3, <2>4, <2>5 DEF KeptInv, Newer, Short
  <1> QED
    BY <1>1, <1>2 DEF Command, Ran

LEMMA KeptByJobs ==
  ASSUME StoreInv, KeptInv, NEW p \in Workers, NEW n \in FeedNames, NEW T \in Seq(OpSet),
         NEW u \in BOOLEAN, NEW i \in Items \cup {NoItem}, Job(p, n, T, u, i)
  PROVE  KeptInv'
  <1> DEFINE j == [todo |-> T, name |-> n, count |-> 0]
  <1>1. /\ task[p].todo = <<>> /\ jobs' = jobs + 1 /\ task' = [task EXCEPT ![p] = j]
        /\ sloppy' = [sloppy EXCEPT
             !.raced = IF Busy(n) = {} THEN @ ELSE @ \cup {n},
             !.undone = IF u THEN @ \cup {n} ELSE IF T = <<>> THEN @ ELSE @ \ {n}]
        /\ UNCHANGED <<ranking, zset, meta>>
        /\ listing' = [listing EXCEPT ![n] = i]
    BY DEF Job, Start
  <1>2. j.todo = T /\ j.name = n
    OBVIOUS
  <1> HIDE DEF j
  <1>3. /\ task'[p].todo = T /\ task'[p].name = n
        /\ \A q \in Workers \ {p} : task'[q] = task[q]
    BY <1>1, <1>2 DEF StoreInv, StoreTypes
  <1>4. /\ sloppy'.failed = sloppy.failed /\ sloppy'.late = sloppy.late
        /\ sloppy.raced \subseteq sloppy'.raced
        /\ \A m \in FeedNames \ {n} : m \in sloppy'.raced <=> m \in sloppy.raced
        /\ n \notin sloppy'.raced => Busy(n) = {}
    <2>1. sloppy \in [raced : SUBSET FeedNames, failed : SUBSET FeedNames,
                     undone : SUBSET FeedNames, late : SUBSET FeedNames,
                     trimmed : BOOLEAN]
      BY DEF StoreInv, StoreTypes
    <2> QED
      BY <1>1, <2>1
  <1>5. /\ listing'[n] = i /\ \A m \in FeedNames \ {n} : listing'[m] = listing[m]
        /\ zset' = zset /\ Members(zset)' = Members(zset) /\ ranking' = ranking
        /\ \A m \in FeedNames \ {n} : m \in Members(listing)' <=> m \in Members(listing)
        /\ n \in Members(listing)' <=> i # NoItem
    BY <1>1 DEF StoreInv, StoreTypes, Members
  <1>6. /\ \A m \in FeedNames : p \notin Busy(m)
        /\ \A m \in FeedNames \ {n} : Busy(m)' = Busy(m)
        /\ Busy(n)' = IF T = <<>> THEN Busy(n) ELSE Busy(n) \cup {p}
    BY <1>1, <1>3 DEF Busy
  <1>7. /\ \A k \in 1 .. Len(T) : T[k].do \in {"zadd", "set"} => T[k].item = i /\ i \in Items
        /\ i # NoItem => i.listed = IF listing[n] = NoItem THEN jobs + 1 ELSE listing[n].listed
        /\ \A m \in FeedNames \ {n} : m \in resold' <=> m \in resold
        /\ i = NoItem \/ Adding(T) \/ n \in resold'
             \/ (T = <<>> /\ ranking = "new" /\ (n \in resold' <=> n \in resold))
             \/ ranking = "best"
        /\ T = <<>> => listing[n] # NoItem
    BY DEF Job, Puts
  <1>8. /\ jobs \in Int /\ \A m \in Members(listing) : listing[m].listed \in Int
        /\ \A m \in Members(zset) : zset[m].listed \in Int
        /\ \A q \in Workers : \A k \in 1 .. Len(task[q].todo) :
             task[q].todo[k].do = "zadd" => task[q].todo[k].item.listed \in Int
    <2>1. \A e \in Items : e.listed \in Int
      BY DEF Items
    <2>2. \A m \in Members(listing) : listing[m] \in Items
      BY DEF StoreInv, StoreTypes, Members
    <2>3. \A m \in Members(zset) : zset[m] \in Items
      BY DEF StoreInv, StoreTypes, Members
    <2>4. \A q \in Workers : \A k \in 1 .. Len(task[q].todo) :
            task[q].todo[k].do = "zadd" => task[q].todo[k].item \in Items
      BY DEF StoreInv, Scripted
    <2>5. jobs \in Int
      BY DEF StoreInv, StoreTypes
    <2> QED
      BY <2>1, <2>2, <2>3, <2>4, <2>5
  <1>9. i # NoItem => i.listed <= jobs + 1
    BY <1>7, <1>8 DEF KeptInv, Stamped, Members
  <1>10. Bounded'
    <2>1. \A m \in Members(zset) : zset[m].listed <= jobs + 1
      BY <1>8 DEF KeptInv, Bounded
    <2>2. ASSUME NEW q \in Workers, NEW k \in 1 .. Len(task'[q].todo),
                 task'[q].todo[k].do = "zadd"
          PROVE  task'[q].todo[k].item.listed <= jobs + 1
      <3>1. CASE q = p
        BY <1>3, <1>7, <1>9, <2>2, <3>1, NoItemAssumption
      <3>2. CASE q # p
        <4>1. task'[q] = task[q]
          BY <1>3, <3>2
        <4>2. task[q].todo[k].item.listed <= jobs
          BY <2>2, <4>1 DEF KeptInv, Bounded
        <4>3. task[q].todo[k].item.listed \in Int
          BY <1>8, <2>2, <4>1
        <4> QED
          BY <1>8, <4>1, <4>2, <4>3
      <3> QED
        BY <3>1, <3>2
    <2> QED
      BY <1>1, <1>5, <2>1, <2>2 DEF Bounded
  <1>11. ASSUME NEW k \in Members(listing)'
         PROVE  /\ listing'[k].listed <= jobs + 1
                /\ \A m \in FeedNames \ {k} :
                     /\ m \in Members(listing)' => listing'[m].listed # listing'[k].listed
                     /\ m \in Members(zset) => zset[m].listed # listing'[k].listed
                     /\ \A q \in Busy(m)' : \A l \in 1 .. Len(task'[q].todo) :
                          task'[q].todo[l].do = "zadd"
                            => task'[q].todo[l].item.listed # listing'[k].listed
    <2>1. k \in FeedNames
      BY DEF Members
    <2>2. CASE k = n
      <3>1. i # NoItem /\ listing'[k] = i
        BY <1>5, <2>2
      <3>2. ASSUME NEW m \in FeedNames \ {k}
            PROVE  /\ m \in Members(listing)' => listing'[m].listed # i.listed
                   /\ m \in Members(zset) => zset[m].listed # i.listed
                   /\ \A q \in Busy(m)' : \A l \in 1 .. Len(task'[q].todo) :
                        task'[q].todo[l].do = "zadd" => task'[q].todo[l].item.listed # i.listed
        <4>1. /\ Busy(m)' = Busy(m) /\ \A q \in Busy(m) : q \in Workers /\ task'[q] = task[q]
          BY <1>3, <1>6, <2>2 DEF Busy
        <4>2. /\ listing'[m] = listing[m] /\ (m \in Members(listing)' <=> m \in Members(listing))
          BY <1>5, <2>2
        <4>3. CASE listing[n] = NoItem
          <5>1. i.listed = jobs + 1
            BY <1>7, <3>1, <4>3
          <5>2. m \in Members(listing) => listing[m].listed <= jobs
            BY DEF KeptInv, Stamped
          <5>3. m \in Members(zset) => zset[m].listed <= jobs
            BY DEF KeptInv, Bounded
          <5>4. \A q \in Busy(m) : \A l \in 1 .. Len(task[q].todo) :
                  task[q].todo[l].do = "zadd" => task[q].todo[l].item.listed <= jobs
            BY <4>1 DEF KeptInv, Bounded
          <5>5. \A q \in Busy(m) : \A l \in 1 .. Len(task[q].todo) :
                  task[q].todo[l].do = "zadd" => task[q].todo[l].item.listed # jobs + 1
            BY <1>8, <4>1, <5>4
          <5> QED
            BY <1>8, <4>1, <4>2, <5>1, <5>2, <5>3, <5>5
        <4>4. CASE listing[n] # NoItem
          <5>1. i.listed = listing[n].listed /\ n \in Members(listing)
            BY <1>7, <3>1, <4>4 DEF Members
          <5>2. /\ m \in Members(listing) => listing[m].listed # listing[n].listed
                /\ m \in Members(zset) => zset[m].listed # listing[n].listed
                /\ \A q \in Busy(m) : \A l \in 1 .. Len(task[q].todo) :
                     task[q].todo[l].do = "zadd" => task[q].todo[l].item.listed # listing[n].listed
            BY <2>2, <5>1 DEF KeptInv, Stamped
          <5> QED
            BY <4>1, <4>2, <5>1, <5>2
        <4> QED
          BY <4>3, <4>4
      <3> QED
        BY <1>9, <3>1, <3>2
    <2>3. CASE k # n
      <3>1. k \in Members(listing) /\ listing'[k] = listing[k]
        BY <1>5, <2>1, <2>3
      <3>2. listing[k].listed <= jobs /\ listing[k].listed \in Int
        BY <1>8, <3>1 DEF KeptInv, Stamped
      <3>3. i # NoItem => i.listed # listing[k].listed
        <4>1. CASE listing[n] = NoItem
          BY <1>7, <1>8, <3>2, <4>1
        <4>2. CASE listing[n] # NoItem
          <5>1. listing[n].listed # listing[k].listed
            BY <2>3, <3>1, <4>2 DEF KeptInv, Stamped, Members
          <5> QED
            BY <1>7, <4>2, <5>1
        <4> QED
          BY <4>1, <4>2
      <3>4. ASSUME NEW m \in FeedNames \ {k}, m \in Members(listing)'
            PROVE  listing'[m].listed # listing[k].listed
        <4>1. CASE m = n
          BY <1>5, <3>3, <3>4, <4>1
        <4>2. CASE m # n
          BY <1>5, <3>1, <3>4, <4>2 DEF KeptInv, Stamped
        <4> QED
          BY <4>1, <4>2
      <3>5. ASSUME NEW m \in FeedNames \ {k}, m \in Members(zset)
            PROVE  zset[m].listed # listing[k].listed
        BY <3>1, <3>5 DEF KeptInv, Stamped
      <3>6. ASSUME NEW m \in FeedNames \ {k}, NEW q \in Busy(m)',
                   NEW l \in 1 .. Len(task'[q].todo), task'[q].todo[l].do = "zadd"
            PROVE  task'[q].todo[l].item.listed # listing[k].listed
        <4>1. q \in Workers
          BY DEF Busy
        <4>2. CASE q = p
          BY <1>3, <1>7, <3>3, <3>6, <4>2, NoItemAssumption
        <4>3. CASE q # p
          <5>1. q \in Busy(m) /\ task'[q] = task[q]
            BY <1>3, <1>6, <4>1, <4>3
          <5> QED
            BY <3>1, <3>6, <5>1 DEF KeptInv, Stamped
        <4> QED
          BY <4>2, <4>3
      <3> QED
        BY <1>8, <3>1, <3>2, <3>4, <3>5, <3>6
    <2> QED
      BY <2>2, <2>3
  <1>12. Stamped'
    <2>1. /\ Stamped' <=>
               \A k \in Members(listing)' :
                 /\ listing'[k].listed <= jobs'
                 /\ \A m \in FeedNames \ {k} :
                      /\ m \in Members(listing)' => listing'[m].listed # listing'[k].listed
                      /\ m \in Members(zset)' => zset'[m].listed # listing'[k].listed
                      /\ \A q \in Busy(m)' : \A l \in 1 .. Len(task'[q].todo) :
                           task'[q].todo[l].do = "zadd"
                             => task'[q].todo[l].item.listed # listing'[k].listed
      BY DEF Stamped
    <2>2. jobs' = jobs + 1 /\ zset' = zset /\ Members(zset)' = Members(zset)
      BY <1>1, <1>5
    <2>3. ASSUME NEW k \in Members(listing)'
          PROVE  /\ listing'[k].listed <= jobs'
                 /\ \A m \in FeedNames \ {k} :
                      /\ m \in Members(listing)' => listing'[m].listed # listing'[k].listed
                      /\ m \in Members(zset)' => zset'[m].listed # listing'[k].listed
                      /\ \A q \in Busy(m)' : \A l \in 1 .. Len(task'[q].todo) :
                           task'[q].todo[l].do = "zadd"
                             => task'[q].todo[l].item.listed # listing'[k].listed
      BY <1>11, <2>2
    <2> QED
      BY <2>1, <2>3
  <1>13. Removing'
    <2>1. ASSUME ranking = "new", NEW m \in FeedNames \ sloppy'.raced, NEW q \in Busy(m)',
                 task'[q].todo[1].do = "zrem"
          PROVE  m \notin Members(listing)' \/ m \in resold' \/ Adding(task'[q].todo)
      <3>1. q \in Workers /\ m \notin sloppy.raced
        BY <1>4 DEF Busy
      <3>2. CASE m = n
        <4>1. Busy(n) = {} /\ T # <<>> /\ q = p
          BY <1>4, <1>6, <2>1, <3>2
        <4> QED
          BY <1>3, <1>5, <1>7, <2>1, <3>2, <4>1
      <3>3. CASE m # n
        <4>1. q \in Busy(m) /\ task'[q] = task[q]
          BY <1>3, <1>6, <2>1, <3>1, <3>3
        <4>2. m \notin Members(listing) \/ m \in resold \/ Adding(task[q].todo)
          BY <2>1, <3>1, <4>1 DEF KeptInv, Removing
        <4> QED
          BY <1>5, <1>7, <3>3, <4>1, <4>2
      <3> QED
        BY <3>2, <3>3
    <2> QED
      BY <1>5, <2>1 DEF Removing, Adding
  <1>14. Newer'
    <2>1. ASSUME ranking = "new", sloppy.failed = {}, NEW m \in FeedNames, Missing(m)',
                 NEW k \in Members(zset) \ sloppy.late
          PROVE  zset[k].listed > listing'[m].listed
      <3>1. /\ m \in Members(listing)' /\ m \notin Members(zset) /\ m \notin resold'
            /\ m \notin sloppy'.raced /\ \A q \in Busy(m)' : ~ Adding(task'[q].todo)
        BY <1>5, <2>1 DEF Missing, Adding
      <3>2. CASE m = n
        <4>1. ~ Adding(T)
          <5>1. Adding(T) => T # <<>>
            BY DEF Adding
          <5> QED
            BY <1>3, <1>6, <3>1, <3>2, <5>1
        <4>2. T = <<>> /\ n \notin resold /\ listing[n] # NoItem
              /\ i.listed = listing[n].listed
          BY <1>5, <1>7, <2>1, <3>1, <3>2, <4>1
        <4>3. Busy(n) = {}
          BY <1>4, <3>1, <3>2
        <4>4. Missing(n)
          BY <1>4, <3>1, <3>2, <4>2, <4>3 DEF Missing, Members
        <4>5. zset[k].listed > listing[n].listed
          BY <2>1, <4>4 DEF KeptInv, Newer
        <4> QED
          BY <1>5, <3>2, <4>2, <4>5
      <3>3. CASE m # n
        <4>1. /\ m \in Members(listing) /\ m \notin resold /\ m \notin sloppy.raced
              /\ listing'[m] = listing[m]
          BY <1>4, <1>5, <1>7, <3>1, <3>3
        <4>2. \A q \in Busy(m) : q \in Busy(m)' /\ task'[q] = task[q]
          BY <1>3, <1>6, <3>3 DEF Busy
        <4>3. Missing(m)
          BY <3>1, <4>1, <4>2 DEF Missing
        <4> QED
          BY <2>1, <4>1, <4>3 DEF KeptInv, Newer
      <3> QED
        BY <3>2, <3>3
    <2> QED
      BY <1>4, <1>5, <2>1 DEF Newer
  <1>15. Short'
    <2>1. ASSUME NEW q \in Workers, Counts(q)
          PROVE  Counts(q)'
      <3>1. q # p
        BY <1>1, <2>1 DEF Counts
      <3>2. task'[q] = task[q]
        BY <1>3, <3>1
      <3> QED
        BY <1>5, <2>1, <3>2 DEF Counts
    <2> QED
      BY <1>4, <1>5, <2>1 DEF KeptInv, Short
  <1> QED
    BY <1>10, <1>12, <1>13, <1>14, <1>15 DEF KeptInv

\* NewestAreKept, for any names, requests, discounts and limits: when no job is
\* under way and no command failed there are at most Keep new listings, and each is
\* newer than any listing that has no entry, but for those the history names.
THEOREM NewestKept == FeedSpec => []NewestAreKept
  <1>1. FeedInit => StoreInv /\ KeptInv
    <2>1. ASSUME FeedInit
          PROVE  KeptInv
      <3>1. /\ Members(listing) = {} /\ Members(zset) = {} /\ Cardinality({}) = 0
            /\ \A p \in Workers : task[p] = Idle
        BY <2>1, FS_EmptySet DEF FeedInit, None, Members
      <3>2. Idle.todo = <<>>
        BY DEF Idle
      <3>3. \A p \in Workers : Len(task[p].todo) = 0 /\ task[p].todo = <<>>
        BY <3>1, <3>2
      <3>4. \A n \in FeedNames : Busy(n) = {}
        BY <3>3 DEF Busy
      <3> QED
        BY <3>1, <3>3, <3>4, FeedAssumption
           DEF KeptInv, Stamped, Bounded, Removing, Newer, Missing, Short
    <2> QED
      BY <2>1, FeedStarts
  <1>2. StoreInv /\ KeptInv /\ [FeedNext]_feedVars => (StoreInv /\ KeptInv)'
    <2> SUFFICES ASSUME StoreInv, KeptInv, [FeedNext]_feedVars
                 PROVE  (StoreInv /\ KeptInv)'
      OBVIOUS
    <2>1. StoreInv'
      BY StoreKept
    <2>2. CASE Jobs
      <3>1. PICK p \in Workers, n \in FeedNames, T \in Seq(OpSet), u \in BOOLEAN,
                 i \in Items \cup {NoItem} : Job(p, n, T, u, i)
        BY <2>2, JobIs DEF StoreInv
      <3> QED
        BY <2>1, <3>1, KeptByJobs
    <2>3. CASE \E p \in Workers : Command(p)
      BY <2>1, <2>3, KeptByCommands
    <2>4. CASE Rests
      <3>1. /\ Members(listing)' = Members(listing) /\ Members(zset)' = Members(zset)
            /\ \A n \in FeedNames : Busy(n)' = Busy(n)
        BY <2>4 DEF Rests, Members, Busy
      <3>2. Stamped' /\ Bounded' /\ Removing'
        BY <2>4, <3>1 DEF KeptInv, Stamped, Bounded, Removing, Adding, Rests
      <3>3. Newer'
        BY <2>4, <3>1 DEF KeptInv, Newer, Missing, Adding, Rests
      <3>4. Short'
        BY <2>4, <3>1 DEF KeptInv, Short, Counts, Rests
      <3> QED
        BY <2>1, <3>2, <3>3, <3>4 DEF KeptInv
    <2> QED
      BY <2>2, <2>3, <2>4, FeedStepIs
  <1>3. StoreInv /\ KeptInv => NewestAreKept
    <2>1. ASSUME StoreInv, KeptInv, ranking = "new", sloppy.failed = {},
                 \A p \in Workers : task[p].todo = <<>>
          PROVE  /\ Cardinality(Members(zset)) <= Keep
                 /\ \A n \in Members(listing) \ (Members(zset) \cup resold \cup sloppy.raced) :
                      \A m \in Members(zset) \ sloppy.late : zset[m].listed > listing[n].listed
      <3>1. \A p \in Workers : ~ Counts(p)
        <4>1. Len(<<>>) = 0
          OBVIOUS
        <4> QED
          BY <2>1, <4>1 DEF Counts
      <3>2. \A n \in FeedNames : Busy(n) = {}
        BY <2>1 DEF Busy
      <3>3. Cardinality(Members(zset)) <= Keep
        BY <2>1, <3>1 DEF KeptInv, Short
      <3>4. \A n \in Members(listing) \ (Members(zset) \cup resold \cup sloppy.raced) :
              n \in FeedNames /\ Missing(n)
        BY <3>2 DEF Missing, Members
      <3> QED
        BY <2>1, <3>3, <3>4 DEF KeptInv, Newer
    <2> QED
      BY <2>1 DEF NewestAreKept
  <1> QED
    BY <1>1, <1>2, <1>3, PTL DEF FeedSpec
-----------------------------------------------------------------------------
(* What a reader sees: the last change it was told of, and what is to come. *)

\* The item is of the name's listing, and a ranking is to show it.
Stands(n, i) ==
  /\ listing[n] # NoItem /\ i \in Items /\ i.listed = listing[n].listed
  /\ ranking = "new" => n \notin resold

\* It is the one the store has, or a trim took that one out.
Current(n, i) ==
  Stands(n, i) /\ (zset[n] = i \/ (zset[n] = NoItem /\ sloppy.trimmed))

\* No write of the name's entry is under way.
Calm(n) ==
  \A p \in Busy(n) : \A k \in 1 .. Len(task[p].todo) : task[p].todo[k].do \notin Writes

\* The clients are told to remove a name that the store keeps.
Dropped(n) == ranking = "new" /\ n \in sloppy.undone

\* What the job at a name is still to write and to tell.
Coming(n, T) ==
  /\ \A k \in 1 .. Len(T) : T[k].do \in Puts => Stands(n, T[k].item)
  /\ ~ Adding(T) => \A k \in 1 .. Len(T) : T[k].do \in Puts => Current(n, T[k].item)
  /\ T[Len(T)].do = "remove" /\ ~ Dropped(n) =>
       ~ Putting(T) /\ (Calm(n) => zset[n] = NoItem)

\* When nothing is to be written, entry and metadata are the listing's.
Written(n) ==
  Calm(n) => /\ meta[n] # NoItem => Current(n, meta[n])
             /\ zset[n] # NoItem => Current(n, zset[n])

Underway(n) == (\A p \in Busy(n) : Coming(n, task[p].todo)) /\ Written(n)

TellInv ==
  /\ \A p \in Workers : Steady(ranking, task[p].todo)
  /\ sloppy.trimmed => ranking = "new"
  /\ \A n \in FeedNames : Exact(n) => Underway(n)

\* A client is to show the store's entry, unless something was trimmed.
Owed(n) == zset[n] # NoItem /\ ~ Dropped(n) /\ ~ sloppy.trimmed /\ ~ reader.trimmed

\* A change that is the last one about its name.
Says(n, o) ==
  /\ o.do = "upsert" => Current(n, o.item)
  /\ o.do = "remove" => ~ Owed(n)
IsLast(s, n, k) ==
  k \in 1 .. Len(s) /\ s[k].name = n /\ \A l \in k + 1 .. Len(s) : s[l].name # n
Silent(s, n) == \A k \in 1 .. Len(s) : s[k].name # n
LastSays(s, n) == \A k \in 1 .. Len(s) : IsLast(s, n, k) => Says(n, s[k])

\* The last change about a name is in the channel, or with the client, or applied.
Told(n) ==
  /\ LastSays(reader.queue, n)
  /\ Silent(reader.queue, n) =>
       /\ LastSays(reader.inbox, n)
       /\ Silent(reader.inbox, n) =>
            /\ reader.list[n] # NoItem => Current(n, reader.list[n])
            /\ Owed(n) /\ reader.at # "out" =>
                 reader.list[n] # NoItem \/ reader.fetch[n] # NoItem

Broadcasts == {o \in OpSet : o.do \in Sends}

ReaderTypes ==
  /\ DOMAIN reader = {"at", "heard", "queue", "lagged", "inbox", "fetch", "list", "trimmed"}
  /\ reader.at \in {"out", "fetching", "live"} /\ reader.heard \in BOOLEAN
  /\ reader.queue \in Seq(Broadcasts) /\ reader.inbox \in Seq(Broadcasts)
  /\ reader.lagged \in BOOLEAN /\ reader.trimmed \in BOOLEAN
  /\ reader.fetch \in [FeedNames -> Items \cup {NoItem}]
  /\ reader.list \in [FeedNames -> Items \cup {NoItem}]
  /\ reader.at = "out" => reader.list = None /\ ~ reader.trimmed
  /\ reader.at = "live" => reader.fetch = None
  /\ ~ reader.heard => reader.at = "out" /\ reader.queue = <<>> /\ reader.inbox = <<>>

ReaderInv ==
  /\ ReaderTypes
  /\ ~ reader.lagged => \A n \in FeedNames : Exact(n) /\ Resting(n) => Told(n)

\* Sequences of changes: what is last about a name, in a longer and a shorter one.
More(s, o, U, n) ==
  /\ U \in Seq(Broadcasts)
  /\ Silent(U, n) <=> Silent(s, n) /\ o.name # n
  /\ \A k \in 1 .. Len(U) : IsLast(U, n, k) =>
       \/ o.name = n /\ U[k] = o
       \/ o.name # n /\ k \in 1 .. Len(s) /\ IsLast(s, n, k) /\ U[k] = s[k]
Less(s, U, n) ==
  /\ U \in Seq(Broadcasts) /\ s[1] = Head(s) /\ s[1] \in Broadcasts /\ 1 \in 1 .. Len(s)
  /\ Silent(s, n) => Silent(U, n)
  /\ Silent(U, n) /\ ~ Silent(s, n) => IsLast(s, n, 1) /\ s[1].name = n
  /\ \A k \in 1 .. Len(U) : IsLast(U, n, k) =>
       k + 1 \in 1 .. Len(s) /\ IsLast(s, n, k + 1) /\ U[k] = s[k + 1] /\ ~ Silent(s, n)

LEMMA AppendLast ==
  ASSUME NEW s \in Seq(Broadcasts), NEW o \in Broadcasts, NEW n, NEW U, U = Append(s, o)
  PROVE  More(s, o, U, n)
  <1>1. /\ Len(s) \in Nat /\ Len(U) = Len(s) + 1 /\ U \in Seq(Broadcasts)
        /\ U[Len(s) + 1] = o /\ \A k \in 1 .. Len(s) : U[k] = s[k]
    BY AppendProperties
  <1>2. Silent(U, n) <=> Silent(s, n) /\ o.name # n
    <2>1. \A k \in 1 .. Len(U) : k \in 1 .. Len(s) \/ k = Len(s) + 1
      BY <1>1
    <2>2. Len(s) + 1 \in 1 .. Len(U) /\ \A k \in 1 .. Len(s) : k \in 1 .. Len(U)
      BY <1>1
    <2> QED
      BY <1>1, <2>1, <2>2 DEF Silent
  <1>3. ASSUME NEW k \in 1 .. Len(U), IsLast(U, n, k)
        PROVE  \/ o.name = n /\ U[k] = o
               \/ o.name # n /\ k \in 1 .. Len(s) /\ IsLast(s, n, k) /\ U[k] = s[k]
    <2>1. CASE k = Len(s) + 1
      BY <1>1, <1>3, <2>1 DEF IsLast
    <2>2. CASE k \in 1 .. Len(s)
      <3>1. Len(s) + 1 \in k + 1 .. Len(U) /\ \A l \in k + 1 .. Len(s) : l \in k + 1 .. Len(U)
            /\ l \in 1 .. Len(s)
        BY <1>1, <2>2
      <3>2. o.name # n
        BY <1>1, <1>3, <3>1 DEF IsLast
      <3>3. IsLast(s, n, k)
        BY <1>1, <1>3, <2>2, <3>1 DEF IsLast
      <3> QED
        BY <1>1, <2>2, <3>2, <3>3
    <2> QED
      BY <1>1, <2>1, <2>2
  <1> QED
    BY <1>1, <1>2, <1>3 DEF More

LEMMA TailLast ==
  ASSUME NEW s \in Seq(Broadcasts), s # <<>>, NEW n, NEW U, U = Tail(s)
  PROVE  Less(s, U, n)
  <1>1. /\ Len(s) \in Nat /\ Len(s) >= 1 /\ U \in Seq(Broadcasts) /\ Len(U) = Len(s) - 1
        /\ \A k \in 1 .. Len(U) : U[k] = s[k + 1]
    BY HeadTailProperties
  <1>2. /\ s[1] = Head(s) /\ s[1] \in Broadcasts /\ 1 \in 1 .. Len(s)
    BY <1>1
  <1>3. /\ \A k \in 1 .. Len(U) : k + 1 \in 1 .. Len(s) /\ U[k] = s[k + 1]
        /\ \A k \in 1 + 1 .. Len(s) : k - 1 \in 1 .. Len(U) /\ U[k - 1] = s[k]
    <2>1. \A k \in 1 + 1 .. Len(s) : k - 1 \in 1 .. Len(U) /\ (k - 1) + 1 = k
      BY <1>1
    <2>2. \A k \in 1 .. Len(U) : k + 1 \in 1 .. Len(s)
      BY <1>1
    <2> QED
      BY <1>1, <2>1, <2>2
  <1>4. Silent(s, n) => Silent(U, n)
    BY <1>3 DEF Silent
  <1>5. ASSUME Silent(U, n)
        PROVE  Silent(s, n) \/ (IsLast(s, n, 1) /\ s[1].name = n)
    <2>1. \A k \in 1 + 1 .. Len(s) : s[k].name # n
      BY <1>3, <1>5 DEF Silent
    <2>2. CASE s[1].name = n
      BY <1>2, <2>1, <2>2 DEF IsLast
    <2>3. CASE s[1].name # n
      <3>1. \A k \in 1 .. Len(s) : k = 1 \/ k \in 1 + 1 .. Len(s)
        BY <1>1
      <3> QED
        BY <2>1, <2>3, <3>1 DEF Silent
    <2> QED
      BY <2>2, <2>3
  <1>6. ASSUME NEW k \in 1 .. Len(U), IsLast(U, n, k)
        PROVE  k + 1 \in 1 .. Len(s) /\ IsLast(s, n, k + 1) /\ U[k] = s[k + 1] /\ ~ Silent(s, n)
    <2>1. k + 1 \in 1 .. Len(s) /\ U[k] = s[k + 1] /\ U[k].name = n
      BY <1>3, <1>6 DEF IsLast
    <2>2. ASSUME NEW l \in (k + 1) + 1 .. Len(s)
          PROVE  s[l].name # n
      <3>1. l - 1 \in k + 1 .. Len(U) /\ l \in 1 + 1 .. Len(s)
        BY <1>1
      <3>2. U[l - 1].name # n
        BY <1>6, <3>1 DEF IsLast
      <3> QED
        BY <1>3, <3>1, <3>2
    <2> QED
      BY <2>1, <2>2 DEF IsLast, Silent
  <1> QED
    BY <1>1, <1>2, <1>4, <1>5, <1>6 DEF Less

\* What is told of a name holds on as long as nothing happens to it.
LEMMA UnderwayKept ==
  ASSUME NEW n \in FeedNames, Underway(n), Busy(n)' = Busy(n),
         \A q \in Busy(n) : task'[q] = task[q],
         \A i : Stands(n, i) => Stands(n, i)', \A i : Current(n, i) => Current(n, i)',
         Dropped(n) => Dropped(n)', zset'[n] \in {zset[n], NoItem}, meta'[n] = meta[n]
  PROVE  Underway(n)'
  <1>1. Calm(n)' <=> Calm(n)
    BY DEF Calm
  <1>2. ASSUME NEW q \in Busy(n)'
        PROVE  Coming(n, task[q].todo)'
    <2> PICK T : T = task[q].todo
      OBVIOUS
    <2>1. q \in Busy(n) /\ task'[q].todo = T /\ Coming(n, T)
      BY DEF Underway
    <2>2. \A k \in 1 .. Len(T) : T[k].do \in Puts => Stands(n, T[k].item)'
      BY <2>1 DEF Coming
    <2>3. ~ Adding(T) => \A k \in 1 .. Len(T) : T[k].do \in Puts => Current(n, T[k].item)'
      BY <2>1 DEF Coming
    <2>4. T[Len(T)].do = "remove" /\ ~ Dropped(n)' =>
            ~ Putting(T) /\ (Calm(n)' => zset'[n] = NoItem)
      BY <2>1, <1>1 DEF Coming
    <2>5. Coming(n, T)'
      BY <2>2, <2>3, <2>4, Zenon DEF Coming
    <2> QED
      BY <2>1, <2>5
  <1>3. Written(n)'
    <2>1. ASSUME Calm(n)'
          PROVE  /\ (meta[n] # NoItem => Current(n, meta[n]))'
                 /\ (zset[n] # NoItem => Current(n, zset[n]))'
      <3> PICK e, f : e = meta[n] /\ f = zset[n]
        OBVIOUS
      <3>1. /\ e # NoItem => Current(n, e)'
            /\ f # NoItem => Current(n, f)'
        BY <1>1, <2>1 DEF Underway, Written
      <3>2. meta'[n] = e /\ zset'[n] \in {f, NoItem}
        OBVIOUS
      <3> QED
        BY <3>1, <3>2
    <2> QED
      BY <2>1 DEF Written
  <1> QED
    BY <1>2, <1>3 DEF Underway

LEMMA ToldKept ==
  ASSUME NEW n \in FeedNames, Told(n), UNCHANGED reader,
         \A i : Current(n, i) => Current(n, i)', Owed(n)' => Owed(n)
  PROVE  Told(n)'
  <1>1. \A o : Says(n, o) => Says(n, o)'
    BY DEF Says
  <1>2. \A s : LastSays(s, n) => LastSays(s, n)'
    BY <1>1 DEF LastSays
  <1> QED
    BY <1>2 DEF Told

\* A job that starts.
LEMMA JobTells ==
  ASSUME StoreInv, TellInv, ReaderInv, NEW p \in Workers, NEW n \in FeedNames,
         NEW T \in Seq(OpSet), NEW u \in BOOLEAN, NEW i \in Items \cup {NoItem},
         Job(p, n, T, u, i)
  PROVE  TellInv' /\ ReaderInv'
  <1> DEFINE j == [todo |-> T, name |-> n, count |-> 0]
  <1>1. /\ task[p].todo = <<>> /\ task' = [task EXCEPT ![p] = j]
        /\ sloppy' = [sloppy EXCEPT
             !.raced = IF Busy(n) = {} THEN @ ELSE @ \cup {n},
             !.undone = IF u THEN @ \cup {n} ELSE IF T = <<>> THEN @ ELSE @ \ {n}]
        /\ UNCHANGED <<ranking, zset, meta, reader>>
        /\ listing' = [listing EXCEPT ![n] = i]
    BY DEF Job, Start
  <1>2. j.todo = T /\ j.name = n
    OBVIOUS
  <1> HIDE DEF j
  <1>3. /\ task'[p].todo = T /\ task'[p].name = n
        /\ \A q \in Workers \ {p} : task'[q] = task[q]
    BY <1>1, <1>2 DEF StoreInv, StoreTypes
  <1>4. /\ sloppy'.failed = sloppy.failed /\ sloppy'.trimmed = sloppy.trimmed
        /\ \A m \in FeedNames \ {n} : m \in sloppy'.raced <=> m \in sloppy.raced
        /\ \A m \in FeedNames \ {n} : m \in sloppy'.undone <=> m \in sloppy.undone
        /\ n \notin sloppy'.raced => Busy(n) = {} /\ n \notin sloppy.raced
        /\ u = TRUE => n \in sloppy'.undone
        /\ T = <<>> /\ u = FALSE => sloppy'.undone = sloppy.undone
    <2>1. sloppy \in [raced : SUBSET FeedNames, failed : SUBSET FeedNames,
                     undone : SUBSET FeedNames, late : SUBSET FeedNames,
                     trimmed : BOOLEAN]
      BY DEF StoreInv, StoreTypes
    <2> QED
      BY <1>1, <2>1
  <1>5. listing'[n] = i /\ \A m \in FeedNames \ {n} : listing'[m] = listing[m]
    BY <1>1 DEF StoreInv, StoreTypes
  <1>6. /\ \A m \in FeedNames : p \notin Busy(m)
        /\ \A m \in FeedNames \ {n} : Busy(m)' = Busy(m)
        /\ Busy(n)' = IF T = <<>> THEN Busy(n) ELSE Busy(n) \cup {p}
    BY <1>1, <1>3 DEF Busy
  <1>7. /\ \A k \in 1 .. Len(T) : T[k].do \in Puts => T[k].item = i /\ i \in Items
        /\ T = <<>> => /\ ranking = "new" /\ listing[n] # NoItem /\ ~ u
                       /\ i \in Items /\ i = [listing[n] EXCEPT !.discount = i.discount]
                       /\ n \in resold' <=> n \in resold
        /\ Steady(ranking, T) /\ WellFormed(ranking, T, n)
        /\ T # <<>> => T[1].do \in {"zadd", "zrem"}
        /\ Whole(T) \/ (ranking = "new" /\ u)
        /\ ranking = "new" /\ n \in resold' => ~ Putting(T)
        /\ \A m \in FeedNames \ {n} : m \in resold' <=> m \in resold
    BY DEF Job
  \* Another name.
  <1>8. ASSUME NEW m \in FeedNames \ {n}, Exact(m)'
        PROVE  /\ Exact(m) /\ Underway(m)' /\ (Resting(m)' <=> Resting(m))
               /\ Told(m) => Told(m)'
    <2>1. Exact(m) /\ Underway(m)
      <3>1. sloppy'.failed = sloppy.failed /\ (m \in sloppy'.raced <=> m \in sloppy.raced)
        BY <1>4
      <3>2. Exact(m)
        BY <1>8, <3>1 DEF Exact
      <3> QED
        BY <3>2 DEF TellInv
    <2>2. \A q \in Busy(m) : task'[q] = task[q]
      BY <1>3, <1>6 DEF Busy
    <2>3. \A e : Stands(m, e)' <=> Stands(m, e)
      BY <1>1, <1>5, <1>7 DEF Stands
    <2>4. \A e : Current(m, e)' <=> Current(m, e)
      BY <1>1, <1>4, <2>3 DEF Current
    <2>5. Dropped(m)' <=> Dropped(m)
      BY <1>1, <1>4 DEF Dropped
    <2>6. Busy(m)' = Busy(m) /\ zset'[m] \in {zset[m], NoItem} /\ meta'[m] = meta[m]
      BY <1>1, <1>6
    <2>7. Owed(m)' => Owed(m)
      BY <1>1, <1>4, <2>5 DEF Owed
    <2>8. Underway(m)'
      BY <2>1, <2>2, <2>3, <2>4, <2>5, <2>6, UnderwayKept
    <2>9. Told(m) => Told(m)'
      BY <1>1, <2>4, <2>7, ToldKept
    <2> QED
      BY <2>1, <2>6, <2>8, <2>9 DEF Resting
  \* The name of the job: a new price of a new listing, which no entry shows, ...
  <1>9. ASSUME Exact(n)', T = <<>>
        PROVE  Underway(n)' /\ (Resting(n)' => Resting(n) /\ Exact(n) /\ (Told(n) => Told(n)'))
    <2>1. Exact(n) /\ Underway(n) /\ Busy(n) = {} /\ Busy(n)' = {}
      BY <1>4, <1>6, <1>9 DEF Exact, TellInv
    <2>2. listing[n] # NoItem /\ i # NoItem /\ i.listed = listing[n].listed
      <3>1. listing[n] \in Items
        BY <1>7, <1>9 DEF StoreInv, StoreTypes
      <3> PICK l : l = listing[n]
        OBVIOUS
      <3>2. l \in Items /\ i = [l EXCEPT !.discount = i.discount]
        BY <1>7, <1>9, <3>1
      <3>3. i.listed = l.listed
        BY <3>2 DEF Items
      <3> QED
        BY <1>7, <1>9, <3>1, <3>3, NoItemAssumption
    <2>3. \A e : Stands(n, e)' <=> Stands(n, e)
      BY <1>1, <1>5, <1>7, <1>9, <2>2 DEF Stands
    <2>4. \A e : Current(n, e)' <=> Current(n, e)
      BY <1>1, <1>4, <2>3 DEF Current
    <2>5. Dropped(n)' <=> Dropped(n)
      BY <1>1, <1>4, <1>7, <1>9 DEF Dropped
    <2>6. zset'[n] \in {zset[n], NoItem} /\ meta'[n] = meta[n]
      BY <1>1
    <2>7. Owed(n)' => Owed(n)
      BY <1>1, <1>4, <2>5 DEF Owed
    <2>8. Underway(n)'
      BY <2>1, <2>3, <2>4, <2>5, <2>6, UnderwayKept
    <2>9. Told(n) => Told(n)'
      BY <1>1, <2>4, <2>7, ToldKept
    <2> QED
      BY <2>1, <2>8, <2>9 DEF Resting
  \* ... or commands of its own.
  <1>10. ASSUME Exact(n)', T # <<>>
         PROVE  Underway(n)' /\ ~ Resting(n)'
    <2>1. Busy(n)' = {p}
      BY <1>4, <1>6, <1>10 DEF Exact
    <2>2. /\ T \in Seq(OpSet) /\ Len(T) \in Nat /\ 1 \in 1 .. Len(T)
          /\ T[1].do \in {"zadd", "zrem"} /\ T[1].do \in Writes
      BY <1>7, <1>10 DEF Writes
    <2>3. ~ Calm(n)'
      BY <1>3, <2>1, <2>2 DEF Calm
    <2>4. \A k \in 1 .. Len(T) : T[k].do \in Puts => Stands(n, T[k].item)'
      <3>1. ASSUME NEW k \in 1 .. Len(T), T[k].do \in Puts
            PROVE  Stands(n, i)'
        <4>1. i \in Items /\ i # NoItem /\ listing'[n] = i
          BY <1>5, <1>7, <3>1, NoItemAssumption
        <4>2. ranking' = "new" => n \notin resold'
          BY <1>1, <1>7, <3>1 DEF Putting
        <4> QED
          BY <4>1, <4>2 DEF Stands
      <3> QED
        BY <1>7, <3>1
    <2>5. ASSUME ~ Adding(T), NEW k \in 1 .. Len(T), T[k].do \in Puts
          PROVE  FALSE
      <3>1. T[1].do = "zrem"
        BY <2>2, <2>5 DEF Adding
      <3>2. T[k].do # "upsert"
        BY <1>7, <2>2, <2>5, <3>1 DEF Steady
      <3>3. T[k].do = "set" /\ k \in 2 .. Len(T)
        BY <2>2, <2>5, <3>1, <3>2 DEF Puts, Adding
      <3>4. T[k - 1].do = "zadd" /\ k - 1 \in 1 .. Len(T)
        BY <1>7, <3>3, <2>2 DEF WellFormed
      <3> QED
        BY <2>5, <3>4 DEF Adding
    <2>6. T[Len(T)].do = "remove" /\ ~ Dropped(n)' =>
            ~ Putting(T) /\ (Calm(n)' => zset'[n] = NoItem)
      BY <1>1, <1>4, <1>7, <1>10, <2>3 DEF Whole, Dropped
    <2>7. Coming(n, T)'
      BY <2>4, <2>5, <2>6, Zenon DEF Coming
    <2>8. Written(n)'
      BY <2>3 DEF Written
    <2> QED
      BY <1>3, <2>1, <2>7, <2>8 DEF Underway, Resting
  <1>11. \A q \in Workers : Steady(ranking, task[q].todo)'
    <2>1. ASSUME NEW q \in Workers
          PROVE  Steady(ranking, task'[q].todo)
      <3>1. CASE q = p
        BY <1>3, <1>7, <3>1
      <3>2. CASE q # p
        BY <1>3, <3>2 DEF TellInv
      <3> QED
        BY <3>1, <3>2
    <2>2. ranking' = ranking
      BY <1>1
    <2>3. \A q \in Workers : Steady(ranking', task'[q].todo)
      BY <2>1, <2>2
    <2> QED
      BY <2>3, Zenon DEF Steady
  <1>12. TellInv'
    BY <1>1, <1>4, <1>8, <1>9, <1>10, <1>11 DEF TellInv
  <1>13. ReaderTypes'
    BY <1>1 DEF ReaderInv, ReaderTypes, None
  <1>14. ASSUME ~ reader'.lagged, NEW m \in FeedNames, Exact(m)', Resting(m)'
         PROVE  Told(m)'
    BY <1>1, <1>8, <1>9, <1>10, <1>14 DEF ReaderInv
  <1> QED
    BY <1>12, <1>13, <1>14 DEF ReaderInv

\* What a command changes of what is shown: only a trim takes out an entry of
\* another name, or one that its own job does not remove.
SentTo(o) ==
  LET q == Append(reader.queue, o) IN
    reader' = IF ~ reader.heard THEN reader
              ELSE IF Len(q) <= Capacity THEN [reader EXCEPT !.queue = q]
              ELSE [reader EXCEPT !.queue = Tail(q), !.lagged = TRUE]

LEMMA RanShows ==
  ASSUME StoreInv, NEW p \in Workers, Ran(p), NEW o, o = task[p].todo[1]
  PROVE  /\ sloppy'.undone = sloppy.undone
         /\ sloppy.trimmed => sloppy'.trimmed
         /\ sloppy'.trimmed => sloppy.trimmed \/ o.do = "trim"
         /\ \A m \in FeedNames : m # task[p].name \/ o.do \notin Writes =>
              /\ meta'[m] = meta[m]
              /\ zset'[m] = zset[m] \/ (zset'[m] = NoItem /\ sloppy'.trimmed)
         /\ o.do \in Ops /\ o \in OpSet /\ o.name = task[p].name
         /\ o.do = "del" => meta'[task[p].name] = NoItem
         /\ o.do \notin Sends => UNCHANGED reader
         /\ o.do \in Sends => SentTo(o)
  <1> DEFINE S == [raced : SUBSET FeedNames, failed : SUBSET FeedNames,
                   undone : SUBSET FeedNames, late : SUBSET FeedNames, trimmed : BOOLEAN]
             E == [FeedNames -> Items \cup {NoItem}]
  <1> PICK n, T : n = task[p].name /\ T = task[p].todo
    OBVIOUS
  <1>1. task[p].todo # <<>>
    BY DEF Ran, ZAdd, SetMeta, ZCard, ZTrim, ZRem, DelMeta, Send, Next1
  <1>2. T \in Seq(OpSet) /\ n \in FeedNames /\ WellFormed(ranking, T, n) /\ StoreTypes
    BY <1>1 DEF StoreInv, StoreTypes, Scripted
  <1>3. 1 \in 1 .. Len(T) /\ o = Head(T) /\ o \in OpSet /\ o.do \in Ops /\ o = Head(task[p].todo)
    <2>1. T \in Seq(OpSet) /\ T # <<>>
      BY <1>1, <1>2
    <2>2. Len(T) \in Nat /\ Len(T) >= 1 /\ T[1] \in OpSet /\ T[1] = Head(T)
      BY <2>1
    <2>3. \A c \in OpSet : c.do \in Ops
      BY DEF OpSet
    <2> QED
      BY <2>2, <2>3
  <1>4. o.name = n
    BY <1>2, <1>3 DEF WellFormed
  <1>5. zset \in E /\ meta \in E /\ sloppy \in S
    BY <1>2 DEF StoreTypes
  <1>6. CASE ZAdd(p)
    <2>1. /\ zset' = [zset EXCEPT ![n] = o.item] /\ UNCHANGED <<meta, reader>> /\ o.do = "zadd"
          /\ sloppy' = [sloppy EXCEPT
               !.late = IF Outdated(o) THEN @ \cup {n} ELSE @ \ {n}]
      BY <1>3, <1>4, <1>6 DEF ZAdd, Next1
    <2> QED
      BY <1>3, <1>4, <1>5, <2>1 DEF Writes, Sends
  <1>7. CASE SetMeta(p)
    <2>1. meta' = [meta EXCEPT ![n] = o.item] /\ UNCHANGED <<zset, reader, sloppy>> /\ o.do = "set"
      BY <1>3, <1>4, <1>7 DEF SetMeta, Next1
    <2> QED
      BY <1>3, <1>4, <1>5, <2>1 DEF Writes, Sends
  <1>8. CASE ZCard(p)
    <2>1. UNCHANGED <<zset, meta, reader, sloppy>> /\ o.do = "zcard"
      BY <1>3, <1>8 DEF ZCard, Next1
    <2> QED
      BY <1>3, <1>4, <2>1 DEF Sends
  <1>9. CASE ZTrim(p)
    <2>1. PICK out : /\ zset' = Without(zset, out)
                     /\ sloppy' = [sloppy EXCEPT !.trimmed = @ \/ out # {}]
      BY <1>9 DEF ZTrim
    <2>2. UNCHANGED <<meta, reader>> /\ o.do = "trim"
      BY <1>3, <1>9 DEF ZTrim, Next1
    <2>3. sloppy'.undone = sloppy.undone /\ sloppy'.trimmed = (sloppy.trimmed \/ out # {})
      BY <1>5, <2>1
    <2>4. \A m \in FeedNames : zset'[m] = zset[m] \/ (zset'[m] = NoItem /\ out # {})
      BY <2>1 DEF Without
    <2> QED
      BY <1>3, <1>4, <2>2, <2>3, <2>4 DEF Sends
  <1>10. CASE ZRem(p)
    <2>1. zset' = [zset EXCEPT ![n] = NoItem] /\ UNCHANGED <<meta, reader, sloppy>> /\ o.do = "zrem"
      BY <1>3, <1>4, <1>10 DEF ZRem, Next1
    <2> QED
      BY <1>3, <1>4, <1>5, <2>1 DEF Writes, Sends
  <1>11. CASE DelMeta(p)
    <2>1. meta' = [meta EXCEPT ![n] = NoItem] /\ UNCHANGED <<zset, reader, sloppy>> /\ o.do = "del"
      BY <1>3, <1>4, <1>11 DEF DelMeta, Next1
    <2>2. meta'[n] = NoItem /\ \A m \in FeedNames \ {n} : meta'[m] = meta[m]
      BY <1>2, <1>5, <2>1
    <2>3. o.do \in Writes /\ o.do \notin Sends
      BY <2>1 DEF Writes, Sends
    <2> QED
      BY <1>3, <1>4, <2>1, <2>2, <2>3
  <1>12. CASE Send(p)
    <2>1. UNCHANGED <<zset, meta, sloppy>> /\ o.do \in Sends /\ SentTo(o)
      BY <1>3, <1>12 DEF Send, SentTo
    <2> QED
      BY <1>3, <1>4, <2>1 DEF Sends
  <1> QED
    BY <1>6, <1>7, <1>8, <1>9, <1>10, <1>11, <1>12 DEF Ran

LEMMA SentIs ==
  ASSUME ReaderTypes, NEW o \in Broadcasts, SentTo(o)
  PROVE  /\ ReaderTypes'
         /\ reader'.at = reader.at /\ reader'.heard = reader.heard /\ reader'.inbox = reader.inbox
         /\ reader'.fetch = reader.fetch /\ reader'.list = reader.list
         /\ reader'.trimmed = reader.trimmed
         /\ reader.lagged => reader'.lagged
         /\ ~ reader'.lagged /\ reader.heard => reader'.queue = Append(reader.queue, o)
         /\ ~ reader.heard => reader' = reader
  <1> PICK q : q = Append(reader.queue, o)
    OBVIOUS
  <1>1. q \in Seq(Broadcasts) /\ q # <<>> /\ Len(q) \in Nat
    BY AppendProperties DEF ReaderTypes
  <1>2. Tail(q) \in Seq(Broadcasts)
    BY <1>1, HeadTailProperties
  <1>3. CASE ~ reader.heard
    <2>1. reader' = reader
      BY <1>3 DEF SentTo
    <2> QED
      BY <1>3, <2>1 DEF ReaderTypes, None
  <1>4. CASE reader.heard /\ Len(q) <= Capacity
    <2>1. reader' = [reader EXCEPT !.queue = q]
      BY <1>4 DEF SentTo
    <2>2. /\ DOMAIN reader' = DOMAIN reader /\ reader'.queue = q
          /\ reader'.at = reader.at /\ reader'.heard = reader.heard /\ reader'.inbox = reader.inbox
          /\ reader'.fetch = reader.fetch /\ reader'.list = reader.list
          /\ reader'.trimmed = reader.trimmed /\ reader'.lagged = reader.lagged
      BY <2>1 DEF ReaderTypes
    <2> QED
      BY <1>1, <1>4, <2>2 DEF ReaderTypes, None
  <1>5. CASE reader.heard /\ ~ (Len(q) <= Capacity)
    <2>1. reader' = [reader EXCEPT !.queue = Tail(q), !.lagged = TRUE]
      BY <1>5 DEF SentTo
    <2>2. /\ DOMAIN reader' = DOMAIN reader /\ reader'.queue = Tail(q)
          /\ reader'.at = reader.at /\ reader'.heard = reader.heard /\ reader'.inbox = reader.inbox
          /\ reader'.fetch = reader.fetch /\ reader'.list = reader.list
          /\ reader'.trimmed = reader.trimmed /\ reader'.lagged = TRUE
      BY <2>1 DEF ReaderTypes
    <2> QED
      BY <1>2, <1>5, <2>2 DEF ReaderTypes, None
  <1> QED
    BY <1>3, <1>4, <1>5

\* A broadcast: what was told of other names stands, and of its own name it is
\* the last one.
LEMMA SentTells ==
  ASSUME ReaderTypes, NEW o \in Broadcasts, SentTo(o), ~ reader'.lagged, NEW n \in FeedNames,
         \/ /\ o.name # n /\ Told(n)
            /\ \A i : Current(n, i) => Current(n, i)'
            /\ Owed(n)' => Owed(n)
         \/ o.name = n /\ Says(n, o)'
  PROVE  Told(n)'
  <1> PICK Q, U, I : Q = reader.queue /\ U = reader'.queue /\ I = reader.inbox
    OBVIOUS
  <1>1. /\ reader'.at = reader.at /\ reader'.inbox = reader.inbox
        /\ reader'.fetch = reader.fetch /\ reader'.list = reader.list
        /\ reader'.trimmed = reader.trimmed
        /\ reader.heard => U = Append(Q, o)
        /\ ~ reader.heard => reader' = reader
        /\ Q \in Seq(Broadcasts) /\ I \in Seq(Broadcasts)
    BY SentIs DEF ReaderTypes
  <1>2. CASE ~ reader.heard
    <2>1. /\ reader' = reader /\ Q = <<>> /\ I = <<>> /\ reader.at = "out"
          /\ reader.list[n] = NoItem
      BY <1>1, <1>2 DEF ReaderTypes, None
    <2>2. LastSays(<<>>, n)'
      BY DEF LastSays
    <2>3. /\ reader'.queue = <<>> /\ reader'.inbox = <<>> /\ reader'.at = "out"
          /\ reader'.list[n] = NoItem
      BY <2>1
    <2> QED
      BY <2>2, <2>3 DEF Told
  <1>3. CASE reader.heard /\ o.name = n
    <2>0. Q \in Seq(Broadcasts) /\ U = Append(Q, o)
      BY <1>1, <1>3
    <2>1. More(Q, o, U, n)
      BY <2>0, AppendLast
    <2>2. Says(n, o)'
      BY <1>3
    <2>3. ~ Silent(U, n) /\ \A k \in 1 .. Len(U) : IsLast(U, n, k) => U[k] = o
      BY <1>3, <2>1, Zenon DEF More
    <2>4. LastSays(U, n)'
      BY <2>2, <2>3 DEF LastSays
    <2> QED
      BY <2>3, <2>4 DEF Told
  <1>4. CASE reader.heard /\ o.name # n
    <2>0. Q \in Seq(Broadcasts) /\ U = Append(Q, o)
      BY <1>1, <1>4
    <2>a. More(Q, o, U, n)
      BY <2>0, AppendLast
    <2>1. /\ Silent(U, n) <=> Silent(Q, n)
          /\ \A k \in 1 .. Len(U) : IsLast(U, n, k) =>
               k \in 1 .. Len(Q) /\ IsLast(Q, n, k) /\ U[k] = Q[k]
      BY <1>4, <2>a, Zenon DEF More
    <2>2. \A c : Says(n, c) => Says(n, c)'
      BY <1>4 DEF Says
    <2>3. LastSays(Q, n) /\ (Silent(Q, n) => LastSays(I, n))
      BY <1>4 DEF Told
    <2>4. LastSays(U, n)' /\ (Silent(Q, n) => LastSays(I, n)')
      BY <2>1, <2>2, <2>3 DEF LastSays
    <2>5. Silent(Q, n) /\ Silent(I, n) =>
            /\ reader.list[n] # NoItem => Current(n, reader.list[n])
            /\ Owed(n) /\ reader.at # "out" => reader.list[n] # NoItem \/ reader.fetch[n] # NoItem
      BY <1>4 DEF Told
    <2>6. Silent(Q, n) /\ Silent(I, n) =>
            /\ (reader.list[n] # NoItem => Current(n, reader.list[n]))'
            /\ (Owed(n) /\ reader.at # "out" =>
                 reader.list[n] # NoItem \/ reader.fetch[n] # NoItem)'
      <3> PICK e : e = reader.list[n]
        OBVIOUS
      <3>1. Current(n, e) => Current(n, e)'
        BY <1>4
      <3>2. reader'.list[n] = e
        BY <1>1
      <3>3. Owed(n)' => Owed(n)
        BY <1>4
      <3> QED
        BY <1>1, <2>5, <3>1, <3>2, <3>3
    <2>7. reader'.inbox = I /\ reader'.queue = U
      BY <1>1
    <2> QED
      BY <2>1, <2>4, <2>6, <2>7 DEF Told
  <1> QED
    BY <1>2, <1>3, <1>4

\* A command, and what it says of its own name.
LEMMA OwnTells ==
  ASSUME StoreInv, TellInv, NEW p \in Workers, Ran(p), NEW n, n = task[p].name, Exact(n),
         reader'.trimmed = reader.trimmed, NEW o, o = task[p].todo[1]
  PROVE  Underway(n)' /\ (Resting(n)' => o.do \in Sends /\ Says(n, o)')
  <1> PICK T, U : T = task[p].todo /\ U = task'[p].todo
    OBVIOUS
  <1>1. /\ Goes(p, 1) /\ Effect(p) /\ sloppy'.raced = sloppy.raced
        /\ sloppy'.failed = sloppy.failed
    BY CommandEffect
  <1>2. /\ n \in FeedNames /\ p \in Busy(n) /\ Busy(n)' \subseteq Busy(n)
        /\ \A q \in Busy(n) : q = p
    BY <1>1, GoesOn DEF StoreInv, Alone, Exact
  <1>3. /\ T \in Seq(OpSet) /\ U \in Seq(OpSet) /\ Len(U) = Len(T) - 1 /\ T # <<>>
        /\ \A k \in 1 .. Len(U) : U[k] = T[k + 1]
        /\ WellFormed(ranking, T, n) /\ Steady(ranking, T)
    BY <1>1 DEF Goes, StoreInv, StoreTypes, Scripted, TellInv
  <1>4. Len(T) \in Nat /\ Len(U) \in Nat /\ Len(T) >= 1 /\ Len(U) = Len(T) - 1
    BY <1>3
  <1>5. \A k \in 1 .. Len(U) : U[k] = T[k + 1] /\ k + 1 \in 2 .. Len(T) /\ k + 1 \in 1 .. Len(T)
    <2>1. \A k \in 1 .. Len(U) : k + 1 \in 2 .. Len(T) /\ k + 1 \in 1 .. Len(T)
      BY <1>4
    <2> QED
      BY <1>3, <2>1
  <1>6. U # <<>> => U[Len(U)] = T[Len(T)]
    <2>1. U # <<>> => Len(U) \in 1 .. Len(U) /\ Len(U) + 1 = Len(T)
      BY <1>3, <1>4
    <2> QED
      BY <1>5, <2>1
  <1>7. UNCHANGED <<ranking, listing, resold>> /\ 1 \in 1 .. Len(T) /\ T[1] = o
    BY <1>1, <1>4 DEF Goes
  <1>8. /\ sloppy'.undone = sloppy.undone
        /\ sloppy.trimmed => sloppy'.trimmed
        /\ o.do \notin Writes =>
             /\ meta'[n] = meta[n]
             /\ zset'[n] = zset[n] \/ (zset'[n] = NoItem /\ sloppy'.trimmed)
        /\ o.do = "del" => meta'[n] = NoItem
        /\ o.do \in Ops
    BY <1>2, RanShows
  <1>9. /\ o.do = "zadd" => zset'[n] = o.item
        /\ o.do = "set" => zset'[n] = zset[n] /\ meta'[n] = o.item
        /\ o.do = "zrem" => zset'[n] = NoItem
        /\ o.do = "del" => zset'[n] = zset[n]
    BY <1>1 DEF Effect
  <1>10. Coming(n, T) /\ Written(n) /\ Entry(n)
    BY <1>2 DEF TellInv, Underway, StoreInv, Entries
  <1>11. (\A e : Stands(n, e)' <=> Stands(n, e)) /\ (Dropped(n)' <=> Dropped(n))
    BY <1>7, <1>8 DEF Stands, Dropped
  <1>12. o.do \notin {"zadd", "zrem"} => \A e : Current(n, e) => Current(n, e)'
    BY <1>8, <1>9, <1>11 DEF Current, Writes
  <1>13. /\ T[1].do = "set" => zset[n] \in {NoItem, T[1].item}
         /\ T[1].do = "del" => zset[n] = NoItem
    BY <1>2, <1>10 DEF Entry
  <1>14. Calm(n)' => \A k \in 1 .. Len(U) : U[k].do \notin Writes
    <2>1. U # <<>> => p \in Busy(n)'
      BY <1>1, <1>2 DEF Goes, Busy
    <2>2. U = <<>> => Len(U) = 0
      OBVIOUS
    <2>3. U # <<>> /\ Calm(n)' => \A k \in 1 .. Len(U) : U[k].do \notin Writes
      BY <2>1 DEF Calm
    <2>4. U = <<>> => \A k \in 1 .. Len(U) : U[k].do \notin Writes
      BY <2>2
    <2> QED
      BY <2>3, <2>4
  <1>15. Calm(n)' /\ o.do \notin Writes => Calm(n)
    <2>1. ASSUME \A k \in 1 .. Len(U) : U[k].do \notin Writes, o.do \notin Writes
          PROVE  Calm(n)
      <3>1. \A k \in 1 .. Len(T) : k = 1 \/ (k - 1 \in 1 .. Len(U) /\ (k - 1) + 1 = k)
        BY <1>4
      <3>2. \A k \in 1 .. Len(T) : T[k].do \notin Writes
        BY <1>5, <1>7, <2>1, <3>1
      <3> QED
        BY <1>2, <3>2 DEF Calm
    <2> QED
      BY <1>14, <2>1
  <1>16. /\ Calm(n)' => o.do # "zadd" /\ o.do # "zrem"
    <2>1. o.do = "zadd" => 1 < Len(T) /\ T[1 + 1].do = "set"
      BY <1>3, <1>7 DEF WellFormed
    <2>2. o.do = "zrem" => 1 < Len(T) /\ T[1 + 1].do = "del"
      BY <1>3, <1>7 DEF Steady
    <2>3. 1 < Len(T) => 1 \in 1 .. Len(U) /\ U[1] = T[1 + 1]
      BY <1>4, <1>5
    <2> QED
      BY <1>14, <2>1, <2>2, <2>3 DEF Writes
  <1>17. Adding(U) => Adding(T)
    BY <1>5 DEF Adding
  <1>18. U # <<>> => Coming(n, U)'
    <2>1. \A k \in 1 .. Len(U) : U[k].do \in Puts => Stands(n, U[k].item)'
      BY <1>5, <1>10, <1>11 DEF Coming
    <2>2. ASSUME ~ Adding(U), NEW k \in 1 .. Len(U), U[k].do \in Puts
          PROVE  Current(n, U[k].item)'
      <3>1. CASE o.do = "zadd"
        <4>1. U[k].item = o.item
          <5>1. T[1].do \in Puts /\ T[k + 1].do \in Puts /\ k + 1 \in 1 .. Len(T)
            BY <1>5, <1>7, <2>2, <3>1 DEF Puts
          <5>2. T[k + 1].item = T[1].item
            BY <1>3, <1>7, <5>1 DEF Steady
          <5> QED
            BY <1>5, <1>7, <5>2
        <4> QED
          BY <1>9, <2>1, <2>2, <3>1, <4>1 DEF Current
      <3>2. CASE o.do # "zadd"
        <4>1. ~ Adding(T)
          <5>1. \A l \in 1 .. Len(T) : l = 1 \/ (l - 1 \in 1 .. Len(U) /\ (l - 1) + 1 = l)
            BY <1>4
          <5>2. ASSUME NEW l \in 1 .. Len(T), T[l].do = "zadd"
                PROVE  FALSE
            <6>1. l - 1 \in 1 .. Len(U) /\ (l - 1) + 1 = l
              BY <1>7, <3>2, <5>1, <5>2
            <6>2. U[l - 1].do = "zadd"
              BY <1>5, <5>2, <6>1
            <6> QED
              BY <2>2, <6>1, <6>2 DEF Adding
          <5> QED
            BY <5>2 DEF Adding
        <4>2. Current(n, U[k].item)
          BY <1>5, <1>10, <2>2, <4>1 DEF Coming
        <4>3. o.do # "zrem"
          <5>1. k + 1 \in 2 .. Len(T) /\ U[k] = T[k + 1] /\ (k + 1) - 1 = k /\ k \in 1 .. Len(T)
                /\ k + 1 \in 1 .. Len(T)
            <6>1. (k + 1) - 1 = k /\ k \in 1 .. Len(T)
              BY <1>4
            <6> QED
              BY <1>5, <6>1
          <5>2. U[k].do # "set"
            <6>1. T[k + 1].do = "set" => T[(k + 1) - 1].do = "zadd"
              BY <1>3, <5>1 DEF WellFormed
            <6> QED
              BY <4>1, <5>1, <6>1 DEF Adding
          <5>3. U[k].do # "zadd"
            BY <2>2 DEF Adding
          <5>4. U[k].do = "upsert"
            BY <2>2, <5>2, <5>3 DEF Puts
          <5>5. T[k + 1].do = "upsert"
            BY <5>1, <5>4
          <5>6. T[1].do = "zrem" => Adding(T)
            BY <1>3, <1>7, <5>1, <5>5 DEF Steady
          <5> QED
            BY <1>7, <4>1, <5>6
        <4> QED
          BY <1>12, <3>2, <4>2, <4>3
      <3> QED
        BY <3>1, <3>2
    <2>3. ASSUME U # <<>>, U[Len(U)].do = "remove", ~ Dropped(n)'
          PROVE  ~ Putting(U) /\ (Calm(n)' => zset'[n] = NoItem)
      <3>1. ~ Putting(T) /\ (Calm(n) => zset[n] = NoItem)
        BY <1>6, <1>10, <1>11, <2>3 DEF Coming
      <3>2. ~ Putting(U) /\ o.do \notin Puts
        BY <1>5, <1>7, <3>1 DEF Putting
      <3>3. ASSUME Calm(n)'
            PROVE  zset'[n] = NoItem
        <4>1. CASE o.do = "zrem"
          BY <1>9, <4>1
        <4>2. CASE o.do = "del"
          BY <1>7, <1>9, <1>13, <4>2
        <4>3. CASE o.do \notin Writes
          BY <1>8, <1>15, <3>1, <3>3, <4>3
        <4> QED
          BY <3>2, <4>1, <4>2, <4>3 DEF Writes, Puts
      <3> QED
        BY <3>2, <3>3
    <2>4. ~ Adding(U) => \A k \in 1 .. Len(U) : U[k].do \in Puts => Current(n, U[k].item)'
      BY <2>2
    <2>5. U # <<>> => Coming(n, U)'
      BY <2>1, <2>3, <2>4, Zenon DEF Coming
    <2> QED
      BY <2>5
  <1>19. Written(n)'
    <2>1. ASSUME Calm(n)'
          PROVE  /\ (meta[n] # NoItem => Current(n, meta[n]))'
                 /\ (zset[n] # NoItem => Current(n, zset[n]))'
      <3> PICK e, f : e = meta[n] /\ f = zset[n]
        OBVIOUS
      <3>1. CASE o.do = "set"
        <4>1. ~ Adding(T)
          <5>1. ASSUME NEW l \in 1 .. Len(T), T[l].do = "zadd"
                PROVE  FALSE
            <6>1. l # 1
              BY <1>7, <3>1, <5>1
            <6>2. l \in 1 + 1 .. Len(T)
              BY <1>4, <6>1
            <6>3. T[l].do \notin Writes
              BY <1>3, <1>7, <3>1, <6>2 DEF WellFormed
            <6> QED
              BY <5>1, <6>3 DEF Writes
          <5> QED
            BY <5>1 DEF Adding
        <4>2. Current(n, o.item)
          BY <1>7, <1>10, <3>1, <4>1 DEF Coming, Puts
        <4>3. Current(n, o.item)'
          BY <1>12, <3>1, <4>2
        <4>4. meta'[n] = o.item /\ zset'[n] \in {NoItem, o.item}
          BY <1>7, <1>9, <1>13, <3>1
        <4> QED
          BY <4>3, <4>4
      <3>2. CASE o.do = "del"
        BY <1>7, <1>8, <1>9, <1>13, <3>2
      <3>3. CASE o.do \notin Writes
        <4>1. /\ e # NoItem => Current(n, e)
              /\ f # NoItem => Current(n, f)
          BY <1>10, <1>15, <2>1, <3>3 DEF Written
        <4>2. /\ e # NoItem => Current(n, e)'
              /\ f # NoItem => Current(n, f)'
          BY <1>12, <3>3, <4>1 DEF Writes
        <4>3. meta'[n] = e /\ zset'[n] \in {f, NoItem}
          BY <1>8, <3>3
        <4> QED
          BY <4>2, <4>3
      <3> QED
        BY <1>16, <2>1, <3>1, <3>2, <3>3 DEF Writes
    <2> QED
      BY <2>1 DEF Written
  <1>20. Underway(n)'
    <2>1. \A q \in Busy(n)' : q = p /\ U # <<>>
      BY <1>2 DEF Busy
    <2> QED
      BY <1>18, <1>19, <2>1 DEF Underway
  <1>21. ASSUME Resting(n)'
         PROVE  o.do \in Sends /\ Says(n, o)'
    <2>1. U = <<>> /\ Len(T) = 1
      <3>1. U # <<>> => p \in Busy(n)'
        BY <1>1, <1>2 DEF Goes, Busy
      <3> QED
        <4>1. Busy(n)' = {}
          BY <1>21 DEF Resting
        <4>2. U = <<>>
          BY <3>1, <4>1
        <4>3. Len(U) = 0
          BY <4>2
        <4> QED
          BY <1>4, <4>2, <4>3
    <2>2. o.do \in Sends /\ T[Len(T)] = o
      BY <1>3, <1>7, <2>1 DEF WellFormed
    <2>3. o.do = "upsert" => Current(n, o.item)'
      <3>1. ASSUME o.do = "upsert"
            PROVE  Current(n, o.item)
        <4>1. \A l \in 1 .. Len(T) : l = 1
          BY <2>1
        <4>2. ~ Adding(T)
          BY <1>7, <3>1, <4>1 DEF Adding
        <4> QED
          BY <1>7, <1>10, <3>1, <4>2 DEF Coming, Puts
      <3> QED
        BY <1>12, <3>1
    <2>4. o.do = "remove" => ~ Owed(n)'
      <3>1. ASSUME o.do = "remove", ~ Dropped(n)
            PROVE  zset'[n] = NoItem
        <4>1. Calm(n)
          <5>1. Len(U) = 0
            BY <2>1
          <5>2. \A l \in 1 .. Len(T) : l = 1
            BY <2>1
          <5>3. \A l \in 1 .. Len(T) : T[l].do \notin Writes
            BY <1>7, <3>1, <5>2 DEF Writes
          <5> QED
            BY <1>2, <5>3 DEF Calm
        <4>2. zset[n] = NoItem
          BY <1>10, <2>2, <3>1, <4>1 DEF Coming
        <4> QED
          BY <1>8, <3>1, <4>2 DEF Writes
      <3> QED
        BY <1>11, <3>1 DEF Owed
    <2> QED
      BY <2>2, <2>3, <2>4 DEF Says
  <1> QED
    BY <1>20, <1>21

LEMMA StepSteady ==
  ASSUME StoreTypes, Scripted, NEW p \in Workers, NEW d \in Nat, Goes(p, d),
         \A q \in Workers : Steady(ranking, task[q].todo)
  PROVE  (\A q \in Workers : Steady(ranking, task[q].todo))'
  <1>1. ranking' = ranking /\ \A q \in Workers \ {p} : task'[q] = task[q]
    BY DEF Goes
  <1>2. Steady(ranking, task'[p].todo)
    <2> PICK T, U : T = task[p].todo /\ U = task'[p].todo
      OBVIOUS
    <2>1. /\ U \in Seq(OpSet) /\ d \in 0 .. Len(T) /\ Len(U) = Len(T) - d
          /\ \A k \in 1 .. Len(U) : U[k] = T[k + d]
          /\ WellFormed(ranking, T, task[p].name) /\ Steady(ranking, T)
      BY DEF Goes, StoreTypes, Scripted
    <2> QED
      BY <2>1, SteadyLater
  <1>3. \A q \in Workers : Steady(ranking, task'[q].todo)
    BY <1>1, <1>2
  <1> QED
    BY <1>1, <1>3 DEF Steady

\* What a command leaves of both.
LEMMA RanTells ==
  ASSUME StoreInv, TellInv, ReaderInv, NEW p \in Workers, Ran(p)
  PROVE  TellInv' /\ ReaderInv'
  <1> PICK n, o : n = task[p].name /\ o = task[p].todo[1]
    OBVIOUS
  <1>1. /\ Goes(p, 1) /\ sloppy'.raced = sloppy.raced /\ sloppy'.failed = sloppy.failed
        /\ StoreTypes /\ Scripted /\ Alone
    BY CommandEffect DEF StoreInv
  <1>2. /\ n \in FeedNames /\ p \in Busy(n)
        /\ \A m \in FeedNames \ {n} : Busy(m)' = Busy(m) /\ p \notin Busy(m)
    BY <1>1, GoesOn
  <1>3. UNCHANGED <<ranking, listing, resold>> /\ \A q \in Workers \ {p} : task'[q] = task[q]
    BY <1>1 DEF Goes
  <1>4. /\ sloppy'.undone = sloppy.undone
        /\ sloppy.trimmed => sloppy'.trimmed
        /\ sloppy'.trimmed => sloppy.trimmed \/ o.do = "trim"
        /\ \A m \in FeedNames : m # n \/ o.do \notin Writes =>
             /\ meta'[m] = meta[m]
             /\ zset'[m] = zset[m] \/ (zset'[m] = NoItem /\ sloppy'.trimmed)
        /\ o \in OpSet /\ o.name = n
        /\ o.do \notin Sends => UNCHANGED reader
        /\ o.do \in Sends => SentTo(o)
    BY RanShows
  <1>5. o.do \in Sends => o \in Broadcasts
    BY <1>4 DEF Broadcasts
  <1>6. ReaderTypes' /\ reader'.trimmed = reader.trimmed /\ (reader.lagged => reader'.lagged)
    <2>1. ReaderTypes
      BY DEF ReaderInv
    <2>2. CASE o.do \in Sends
      BY <1>4, <1>5, <2>1, <2>2, SentIs
    <2>3. CASE o.do \notin Sends
      <3>1. reader' = reader
        BY <1>4, <2>3
      <3> QED
        BY <2>1, <3>1 DEF ReaderTypes, None
    <2> QED
      BY <2>2, <2>3
  <1>7. ASSUME NEW m \in FeedNames
        PROVE  /\ Exact(m)' <=> Exact(m)
               /\ Dropped(m)' <=> Dropped(m)
               /\ \A e : Stands(m, e)' <=> Stands(m, e)
    BY <1>1, <1>3, <1>4 DEF Exact, Dropped, Stands
  \* Another name.
  <1>8. ASSUME NEW m \in FeedNames \ {n}, Exact(m)
        PROVE  Underway(m)' /\ (Resting(m)' /\ ~ reader'.lagged => Told(m)')
    <2>1. \A e : Current(m, e) => Current(m, e)'
      BY <1>4, <1>7 DEF Current
    <2>2. Owed(m)' => Owed(m)
      BY <1>4, <1>6, <1>7 DEF Owed
    <2>3. Busy(m)' = Busy(m) /\ \A q \in Busy(m) : task'[q] = task[q]
      BY <1>2, <1>3 DEF Busy
    <2>4. zset'[m] \in {zset[m], NoItem} /\ meta'[m] = meta[m]
      BY <1>4
    <2>5. Underway(m)'
      <3>1. Underway(m)
        BY <1>8 DEF TellInv
      <3>2. (\A e : Stands(m, e) => Stands(m, e)') /\ (Dropped(m) => Dropped(m)')
        BY <1>7
      <3> QED
        BY <2>1, <2>3, <2>4, <3>1, <3>2, UnderwayKept
    <2>6. ASSUME Resting(m)', ~ reader'.lagged
          PROVE  Told(m)'
      <3>1. Told(m)
        BY <1>6, <1>8, <2>3, <2>6 DEF ReaderInv, Resting
      <3>2. CASE o.do \in Sends
        <4>1. ReaderTypes /\ o \in Broadcasts /\ SentTo(o) /\ o.name # m
          BY <1>4, <1>5, <3>2 DEF ReaderInv
        <4> QED
          BY <2>1, <2>2, <2>6, <3>1, <4>1, SentTells
      <3>3. CASE o.do \notin Sends
        <4>1. UNCHANGED reader
          BY <1>4, <3>3
        <4> QED
          BY <2>1, <2>2, <3>1, <4>1, ToldKept
      <3> QED
        BY <3>2, <3>3
    <2> QED
      BY <2>5, <2>6
  \* The command's own name.
  <1>9. ASSUME Exact(n)
        PROVE  Underway(n)' /\ (Resting(n)' /\ ~ reader'.lagged => Told(n)')
    <2>1. Underway(n)' /\ (Resting(n)' => o.do \in Sends /\ Says(n, o)')
      BY <1>6, <1>9, OwnTells
    <2>2. ASSUME Resting(n)', ~ reader'.lagged
          PROVE  Told(n)'
      <3>1. Says(n, o)' /\ o \in Broadcasts /\ SentTo(o) /\ o.name = n /\ ReaderTypes
        BY <1>4, <1>5, <2>1, <2>2 DEF ReaderInv
      <3> QED
        BY <1>2, <2>2, <3>1, SentTells
    <2> QED
      BY <2>1, <2>2
  <1>10. ASSUME NEW m \in FeedNames, Exact(m)'
         PROVE  Underway(m)' /\ (Resting(m)' /\ ~ reader'.lagged => Told(m)')
    BY <1>7, <1>8, <1>9, <1>10
  <1>11. (\A q \in Workers : Steady(ranking, task[q].todo))'
    BY <1>1, StepSteady DEF TellInv
  <1>12. sloppy'.trimmed => ranking' = "new"
    <2>1. ASSUME o.do = "trim"
          PROVE  ranking = "new"
      <3>1. Steady(ranking, task[p].todo) /\ 1 \in 1 .. Len(task[p].todo)
        BY <1>1 DEF TellInv, Goes, StoreTypes
      <3> QED
        BY <2>1, <3>1 DEF Steady
    <2> QED
      BY <1>3, <1>4, <2>1 DEF TellInv
  <1>13. TellInv'
    BY <1>10, <1>11, <1>12 DEF TellInv
  <1>14. ReaderInv'
    BY <1>6, <1>10 DEF ReaderInv
  <1> QED
    BY <1>13, <1>14

\* A command that fails: its name is no longer exact.
LEMMA FailTells ==
  ASSUME StoreInv, TellInv, ReaderInv, NEW p \in Workers, FailCommand(p)
  PROVE  TellInv' /\ ReaderInv'
  <1> PICK n : n = task[p].name
    OBVIOUS
  <1>1. PICK d \in Nat : Goes(p, d)
    BY FailEffect
  <1>2. /\ sloppy'.raced = sloppy.raced /\ sloppy'.failed = sloppy.failed \cup {n}
        /\ UNCHANGED <<zset, meta>> /\ StoreTypes /\ Scripted /\ Alone
    BY FailEffect DEF StoreInv
  <1>3. sloppy'.undone = sloppy.undone /\ sloppy'.trimmed = sloppy.trimmed /\ UNCHANGED reader
    <2>1. UNCHANGED reader /\ sloppy' = [sloppy EXCEPT !.failed = @ \cup {task[p].name}]
      BY DEF FailCommand
    <2> QED
      BY <1>2, <2>1 DEF StoreTypes
  <1>4. /\ n \in FeedNames
        /\ \A m \in FeedNames \ {n} : Busy(m)' = Busy(m) /\ p \notin Busy(m)
    BY <1>1, <1>2, GoesOn
  <1>5. UNCHANGED <<ranking, listing, resold>> /\ \A q \in Workers \ {p} : task'[q] = task[q]
    BY <1>1 DEF Goes
  <1>6. ASSUME NEW m \in FeedNames, Exact(m)'
        PROVE  Underway(m)' /\ (Resting(m)' /\ ~ reader'.lagged => Told(m)')
    <2>1. m # n /\ Exact(m)
      BY <1>2, <1>6 DEF Exact
    <2>2. /\ \A e : Stands(m, e)' <=> Stands(m, e)
          /\ Dropped(m)' <=> Dropped(m)
      BY <1>3, <1>5 DEF Stands, Dropped
    <2>3. \A e : Current(m, e) => Current(m, e)'
      BY <1>2, <1>3, <2>2 DEF Current
    <2>4. Owed(m)' => Owed(m)
      BY <1>2, <1>3, <2>2 DEF Owed
    <2>5. Busy(m)' = Busy(m) /\ \A q \in Busy(m) : task'[q] = task[q]
      BY <1>4, <1>5, <2>1 DEF Busy
    <2>6. Underway(m)'
      <3>1. Underway(m)
        BY <2>1 DEF TellInv
      <3>2. zset'[m] \in {zset[m], NoItem} /\ meta'[m] = meta[m]
        BY <1>2
      <3> QED
        BY <2>2, <2>3, <2>5, <3>1, <3>2, UnderwayKept
    <2>7. ASSUME Resting(m)', ~ reader'.lagged
          PROVE  Told(m)'
      <3>1. Told(m)
        BY <1>3, <2>1, <2>5, <2>7 DEF ReaderInv, Resting
      <3> QED
        BY <1>3, <2>3, <2>4, <3>1, ToldKept
    <2> QED
      BY <2>6, <2>7
  <1>7. (\A q \in Workers : Steady(ranking, task[q].todo))'
    BY <1>1, <1>2, StepSteady DEF TellInv
  <1>8. TellInv'
    BY <1>3, <1>5, <1>6, <1>7 DEF TellInv
  <1>9. ReaderTypes'
    BY <1>3 DEF ReaderInv, ReaderTypes, None
  <1> QED
    BY <1>6, <1>8, <1>9 DEF ReaderInv

\* What the reader's own steps leave: nothing of the store's changes.
LEMMA RestsKeep ==
  ASSUME Rests, NEW n, reader.trimmed => reader'.trimmed
  PROVE  /\ Exact(n)' <=> Exact(n)
         /\ Busy(n)' = Busy(n)
         /\ \A e : Current(n, e)' <=> Current(n, e)
         /\ Owed(n)' => Owed(n)
         /\ \A s : LastSays(s, n) => LastSays(s, n)'
  <1>1. /\ Exact(n)' <=> Exact(n)
        /\ Busy(n)' = Busy(n)
        /\ Dropped(n)' <=> Dropped(n)
    BY DEF Rests, Exact, Busy, Dropped
  <1>2. \A e : Current(n, e)' <=> Current(n, e)
    BY DEF Rests, Current, Stands
  <1>3. Owed(n)' => Owed(n)
    BY <1>1 DEF Owed, Rests
  <1>4. \A o : Says(n, o) => Says(n, o)'
    BY <1>2, <1>3 DEF Says
  <1>5. \A s : LastSays(s, n) => LastSays(s, n)'
    BY <1>4 DEF LastSays
  <1> QED
    BY <1>1, <1>2, <1>3, <1>5

\* The listener hands an event over.
LEMMA ForwardTells ==
  ASSUME ReaderTypes, Rests, Forward, NEW n
  PROVE  /\ ReaderTypes' /\ reader'.lagged = reader.lagged
         /\ n \in FeedNames /\ Told(n) => Told(n)'
  <1>p. PICK Q, I, U, V, o : /\ Q = reader.queue /\ I = reader.inbox /\ o = Head(Q)
                             /\ U = Tail(Q) /\ V = Append(I, o)
    OBVIOUS
  <1>1. Q \in Seq(Broadcasts) /\ I \in Seq(Broadcasts) /\ Q # <<>>
    BY <1>p DEF ReaderTypes, Forward
  <1>a. U = Tail(Q)
    BY <1>p
  <1>b. Less(Q, U, n)
    BY <1>1, <1>a, TailLast
  <1>2. /\ U \in Seq(Broadcasts) /\ o \in Broadcasts /\ Q[1] = o /\ 1 \in 1 .. Len(Q)
        /\ Silent(U, n) /\ ~ Silent(Q, n) => IsLast(Q, n, 1) /\ Q[1].name = n
        /\ \A k \in 1 .. Len(U) : IsLast(U, n, k) =>
             k + 1 \in 1 .. Len(Q) /\ IsLast(Q, n, k + 1) /\ U[k] = Q[k + 1] /\ ~ Silent(Q, n)
    BY <1>b, <1>p, Zenon DEF Less
  <1>c. I \in Seq(Broadcasts) /\ o \in Broadcasts /\ V = Append(I, o)
    BY <1>1, <1>2, <1>p
  <1>d. More(I, o, V, n)
    BY <1>c, AppendLast
  <1>3. /\ V \in Seq(Broadcasts)
        /\ Silent(V, n) <=> Silent(I, n) /\ o.name # n
        /\ \A k \in 1 .. Len(V) : IsLast(V, n, k) =>
             \/ o.name = n /\ V[k] = o
             \/ o.name # n /\ k \in 1 .. Len(I) /\ IsLast(I, n, k) /\ V[k] = I[k]
    BY <1>d, Zenon DEF More
  <1>4. reader' = [reader EXCEPT !.queue = U, !.inbox = V]
    BY <1>p DEF Forward
  <1>5. /\ DOMAIN reader' = DOMAIN reader /\ reader'.queue = U /\ reader'.inbox = V
        /\ reader'.at = reader.at /\ reader'.heard = reader.heard /\ reader'.lagged = reader.lagged
        /\ reader'.fetch = reader.fetch /\ reader'.list = reader.list
        /\ reader'.trimmed = reader.trimmed
    BY <1>4 DEF ReaderTypes
  <1>6. ReaderTypes'
    <2>1. V \in Seq(Broadcasts) /\ U \in Seq(Broadcasts)
      BY <1>2, <1>3
    <2>2. reader.heard
      BY <1>1, <1>p DEF ReaderTypes
    <2> QED
      BY <1>5, <2>1, <2>2 DEF ReaderTypes, None
  <1>7. /\ \A e : Current(n, e)' <=> Current(n, e)
        /\ Owed(n)' => Owed(n)
        /\ \A s : LastSays(s, n) => LastSays(s, n)'
    BY <1>5, RestsKeep
  <1>8. ASSUME n \in FeedNames, Told(n)
        PROVE  Told(n)'
    <2>1. LastSays(Q, n) /\ (Silent(Q, n) => LastSays(I, n))
      BY <1>8, <1>p DEF Told
    <2>2. LastSays(U, n)
      BY <1>2, <2>1 DEF LastSays
    <2>3. Silent(U, n) => LastSays(V, n)
      <3>1. CASE Silent(Q, n)
        <4>1. o.name # n
          BY <1>2, <3>1 DEF Silent
        <4> QED
          BY <1>3, <2>1, <3>1, <4>1 DEF LastSays
      <3>2. CASE Silent(U, n) /\ ~ Silent(Q, n)
        <4>1. Says(n, o) /\ o.name = n
          BY <1>2, <2>1, <3>2 DEF LastSays
        <4> QED
          BY <1>3, <4>1 DEF LastSays
      <3> QED
        BY <3>1, <3>2
    <2>4. Silent(U, n) /\ Silent(V, n) => Silent(Q, n) /\ Silent(I, n)
      BY <1>2, <1>3
    <2>5. Silent(Q, n) /\ Silent(I, n) =>
            /\ reader.list[n] # NoItem => Current(n, reader.list[n])
            /\ Owed(n) /\ reader.at # "out" => reader.list[n] # NoItem \/ reader.fetch[n] # NoItem
      BY <1>8, <1>p DEF Told
    <2> PICK e : e = reader.list[n]
      OBVIOUS
    <2>6. Silent(U, n) /\ Silent(V, n) =>
            /\ e # NoItem => Current(n, e)'
            /\ Owed(n)' /\ reader'.at # "out" => e # NoItem \/ reader'.fetch[n] # NoItem
      BY <1>5, <1>7, <2>4, <2>5
    <2>7. LastSays(U, n)' /\ (Silent(U, n) => LastSays(V, n)')
      BY <1>7, <2>2, <2>3
    <2>8. reader'.list[n] = e
      BY <1>5
    <2>9. (reader.list[n] # NoItem => Current(n, reader.list[n]))'
            <=> (e # NoItem => Current(n, e)')
      BY <2>8
    <2> QED
      BY <1>5, <2>6, <2>7, <2>8, <2>9 DEF Told
  <1> QED
    BY <1>5, <1>6, <1>8

\* What the client makes of one change.
LEMMA Applied ==
  ASSUME ReaderTypes, Update, NEW o, o = Head(reader.inbox), o \in Broadcasts
  PROVE  /\ DOMAIN reader' = DOMAIN reader
         /\ reader'.at = reader.at /\ reader'.heard = reader.heard /\ reader'.lagged = reader.lagged
         /\ reader'.queue = reader.queue /\ reader'.fetch = reader.fetch
         /\ reader'.inbox = Tail(reader.inbox)
         /\ reader'.trimmed \in BOOLEAN /\ (reader.trimmed => reader'.trimmed)
         /\ reader'.list \in [FeedNames -> Items \cup {NoItem}]
         /\ \A n \in FeedNames \ {o.name} :
              \/ reader'.list[n] = reader.list[n]
              \/ reader'.list[n] = NoItem /\ reader'.trimmed
         /\ o.do = "remove" => reader'.list[o.name] = NoItem
         /\ o.do # "remove" => \/ reader'.list[o.name] = o.item
                               \/ reader'.list[o.name] = NoItem /\ reader'.trimmed
  <1> DEFINE E == [FeedNames -> Items \cup {NoItem}]
  <1> PICK I, L : I = Tail(reader.inbox) /\ L = reader.list
    OBVIOUS
  <1> DEFINE c == [reader EXCEPT !.inbox = I]
             up == [c.list EXCEPT ![o.name] = o.item]
             top == Top(up)
  <1>1. o.name \in FeedNames /\ o.item \in Items \cup {NoItem} /\ L \in E
    BY DEF Broadcasts, OpSet, ReaderTypes
  <1>2. reader' = Apply(c, o)
    BY DEF Update
  <1>3. reader' = IF o.do = "remove" THEN [c EXCEPT !.list[o.name] = NoItem]
                  ELSE [c EXCEPT !.list = Without(up, FeedNames \ top),
                                 !.trimmed = @ \/ top # Members(up)]
    BY <1>2 DEF Apply
  <1>4. /\ DOMAIN c = DOMAIN reader /\ c.inbox = I /\ c.at = reader.at /\ c.heard = reader.heard
        /\ c.lagged = reader.lagged /\ c.queue = reader.queue /\ c.fetch = reader.fetch
        /\ c.list = L /\ c.trimmed = reader.trimmed
    BY DEF ReaderTypes
  <1> HIDE DEF c
  <1>5. up \in E /\ up[o.name] = o.item /\ \A n \in FeedNames \ {o.name} : up[n] = L[n]
    BY <1>1, <1>4
  <1> HIDE DEF up
  <1>6. top \subseteq Members(up)
    BY DEF Top
  <1> HIDE DEF top
  <1>d. DOMAIN reader = {"at", "heard", "queue", "lagged", "inbox", "fetch", "list", "trimmed"}
        /\ reader.trimmed \in BOOLEAN
    BY DEF ReaderTypes
  <1>7. CASE o.do = "remove"
    <2>1. reader' = [c EXCEPT !.list = [c.list EXCEPT ![o.name] = NoItem]]
      BY <1>3, <1>7
    <2>2. /\ DOMAIN reader' = DOMAIN reader
          /\ reader'.at = reader.at /\ reader'.heard = reader.heard
          /\ reader'.lagged = reader.lagged
          /\ reader'.queue = reader.queue /\ reader'.fetch = reader.fetch
          /\ reader'.inbox = I /\ reader'.trimmed = reader.trimmed
          /\ reader'.list = [L EXCEPT ![o.name] = NoItem]
      BY <1>4, <1>d, <2>1
    <2> QED
      BY <1>1, <1>7, <1>d, <2>2
  <1>8. CASE o.do # "remove"
    <2> PICK W, t : W = Without(up, FeedNames \ top) /\ t = (reader.trimmed \/ top # Members(up))
      OBVIOUS
    <2>1. reader' = [c EXCEPT !.list = W, !.trimmed = t]
      BY <1>3, <1>4, <1>8
    <2>2. /\ DOMAIN reader' = DOMAIN reader
          /\ reader'.at = reader.at /\ reader'.heard = reader.heard
          /\ reader'.lagged = reader.lagged
          /\ reader'.queue = reader.queue /\ reader'.fetch = reader.fetch
          /\ reader'.inbox = I /\ reader'.trimmed = t /\ reader'.list = W
      BY <1>4, <1>d, <2>1
    <2>3. W \in E /\ t \in BOOLEAN /\ (reader.trimmed => t)
      BY <1>5 DEF Without
    <2>4. \A n \in FeedNames : W[n] = up[n] \/ (W[n] = NoItem /\ t)
      <3>1. ASSUME NEW n \in FeedNames, W[n] # up[n]
            PROVE  W[n] = NoItem /\ t
        <4>1. n \notin top /\ W[n] = NoItem
          BY <3>1 DEF Without
        <4>2. n \in Members(up)
          BY <3>1, <4>1 DEF Members
        <4> QED
          BY <4>1, <4>2
      <3> QED
        BY <3>1
    <2> QED
      <3>1. \A n \in FeedNames \ {o.name} : W[n] = L[n] \/ (W[n] = NoItem /\ t)
        BY <1>5, <2>4
      <3>2. W[o.name] = o.item \/ (W[o.name] = NoItem /\ t)
        BY <1>1, <1>5, <2>4
      <3> HIDE DEF E
      <3>3. W \in [FeedNames -> Items \cup {NoItem}]
        BY <2>3 DEF E
      <3>4. reader'.list = W /\ reader'.trimmed = t /\ L = reader.list
        BY <2>2
      <3>5. \A n \in FeedNames \ {o.name} :
              \/ reader'.list[n] = reader.list[n]
              \/ reader'.list[n] = NoItem /\ reader'.trimmed
        BY <3>1, <3>4
      <3>6. \/ reader'.list[o.name] = o.item
            \/ reader'.list[o.name] = NoItem /\ reader'.trimmed
        BY <3>2, <3>4
      <3>7. /\ reader'.trimmed \in BOOLEAN /\ (reader.trimmed => reader'.trimmed)
            /\ reader'.list \in [FeedNames -> Items \cup {NoItem}]
        BY <2>3, <3>3, <3>4
      <3>8. /\ DOMAIN reader' = DOMAIN reader
            /\ reader'.at = reader.at /\ reader'.heard = reader.heard
            /\ reader'.lagged = reader.lagged
            /\ reader'.queue = reader.queue /\ reader'.fetch = reader.fetch
            /\ reader'.inbox = Tail(reader.inbox)
        BY <2>2
      <3> QED
        BY <1>8, <3>5, <3>6, <3>7, <3>8
  <1> QED
    BY <1>7, <1>8

LEMMA UpdateTells ==
  ASSUME ReaderTypes, Rests, Update, NEW n
  PROVE  /\ ReaderTypes' /\ reader'.lagged = reader.lagged
         /\ n \in FeedNames /\ Told(n) => Told(n)'
  <1>p. PICK Q, I, V, o : /\ Q = reader.queue /\ I = reader.inbox /\ o = Head(I) /\ V = Tail(I)
    OBVIOUS
  <1>1. Q \in Seq(Broadcasts) /\ I \in Seq(Broadcasts) /\ I # <<>> /\ reader.at = "live"
    BY <1>p DEF ReaderTypes, Update
  <1>a. V = Tail(I)
    BY <1>p
  <1>b. Less(I, V, n)
    BY <1>1, <1>a, TailLast
  <1>2. /\ V \in Seq(Broadcasts) /\ o \in Broadcasts /\ I[1] = o /\ 1 \in 1 .. Len(I)
        /\ Silent(V, n) /\ ~ Silent(I, n) => IsLast(I, n, 1) /\ I[1].name = n
        /\ \A k \in 1 .. Len(V) : IsLast(V, n, k) =>
             k + 1 \in 1 .. Len(I) /\ IsLast(I, n, k + 1) /\ V[k] = I[k + 1] /\ ~ Silent(I, n)
    BY <1>b, <1>p, Zenon DEF Less
  <1>3. /\ DOMAIN reader' = DOMAIN reader
        /\ reader'.at = reader.at /\ reader'.heard = reader.heard /\ reader'.lagged = reader.lagged
        /\ reader'.queue = Q /\ reader'.fetch = reader.fetch
        /\ reader'.inbox = V
        /\ reader'.trimmed \in BOOLEAN /\ (reader.trimmed => reader'.trimmed)
        /\ reader'.list \in [FeedNames -> Items \cup {NoItem}]
        /\ \A m \in FeedNames \ {o.name} :
             \/ reader'.list[m] = reader.list[m]
             \/ reader'.list[m] = NoItem /\ reader'.trimmed
        /\ o.do = "remove" => reader'.list[o.name] = NoItem
        /\ o.do # "remove" => \/ reader'.list[o.name] = o.item
                              \/ reader'.list[o.name] = NoItem /\ reader'.trimmed
    BY <1>2, <1>p, Applied
  <1>4. ReaderTypes'
    <2>1. reader.heard
      BY <1>1, <1>p DEF ReaderTypes
    <2> QED
      BY <1>1, <1>2, <1>3, <2>1 DEF ReaderTypes, None
  <1>5. /\ \A e : Current(n, e)' <=> Current(n, e)
        /\ Owed(n)' => Owed(n)
        /\ \A s : LastSays(s, n) => LastSays(s, n)'
    BY <1>3, RestsKeep
  <1>6. ASSUME n \in FeedNames, Told(n)
        PROVE  Told(n)'
    <2>1. LastSays(Q, n) /\ (Silent(Q, n) => LastSays(I, n))
      BY <1>6, <1>p DEF Told
    <2>2. Silent(Q, n) => LastSays(V, n)
      BY <1>2, <2>1 DEF LastSays
    <2>3. ASSUME Silent(Q, n), Silent(V, n)
          PROVE  /\ (reader.list[n] # NoItem => Current(n, reader.list[n]))'
                 /\ (Owed(n) => reader.list[n] # NoItem)'
      <3> PICK e, f : e = reader.list[n] /\ f = reader'.list[n]
        OBVIOUS
      <3>1. CASE Silent(I, n)
        <4>1. o.name # n
          BY <1>2, <3>1 DEF Silent
        <4>2. /\ e # NoItem => Current(n, e)
              /\ Owed(n) => e # NoItem \/ reader.fetch[n] # NoItem
          BY <1>1, <1>6, <1>p, <2>3, <3>1 DEF Told
        <4>3. reader.fetch[n] = NoItem
          BY <1>1, <1>6 DEF ReaderTypes, None
        <4>4. f = e \/ (f = NoItem /\ reader'.trimmed)
          BY <1>3, <1>6, <4>1
        <4>5. f # NoItem => Current(n, f)'
          BY <1>5, <4>2, <4>4
        <4>6. Owed(n)' => f # NoItem
          BY <1>5, <4>2, <4>3, <4>4 DEF Owed
        <4> QED
          BY <4>5, <4>6
      <3>2. CASE ~ Silent(I, n)
        <4>1. Says(n, o) /\ o.name = n
          BY <1>2, <2>1, <2>3, <3>2 DEF LastSays
        <4>2. CASE o.do = "remove"
          <5>1. f = NoItem /\ ~ Owed(n)'
            BY <1>3, <1>5, <4>1, <4>2 DEF Says
          <5> QED
            BY <5>1
        <4>3. CASE o.do # "remove"
          <5>1. o.do = "upsert"
            BY <1>2, <4>3 DEF Broadcasts, Sends
          <5>2. Current(n, o.item) /\ o.item # NoItem
            BY <4>1, <5>1, NoItemAssumption DEF Says, Current, Stands
          <5>3. f = o.item \/ (f = NoItem /\ reader'.trimmed)
            BY <1>3, <4>1, <4>3
          <5>4. f # NoItem => Current(n, f)'
            BY <1>5, <5>2, <5>3
          <5>5. Owed(n)' => f # NoItem
            BY <5>2, <5>3 DEF Owed
          <5> QED
            BY <5>4, <5>5
        <4> QED
          BY <4>2, <4>3
      <3> QED
        BY <3>1, <3>2
    <2>4. LastSays(Q, n)' /\ (Silent(Q, n) => LastSays(V, n)')
      BY <1>5, <2>1, <2>2
    <2> QED
      BY <1>3, <2>3, <2>4 DEF Told
  <1> QED
    BY <1>3, <1>4, <1>6

\* A step that reads no event.
LEMMA SameEvents ==
  ASSUME NEW n \in FeedNames, Rests, Told(n),
         reader'.queue = reader.queue, reader'.inbox = reader.inbox,
         reader.trimmed => reader'.trimmed,
         Silent(reader.queue, n) /\ Silent(reader.inbox, n) =>
           /\ (reader.list[n] # NoItem => Current(n, reader.list[n]))'
           /\ (Owed(n) /\ reader.at # "out" =>
                 reader.list[n] # NoItem \/ reader.fetch[n] # NoItem)'
  PROVE  Told(n)'
  <1> PICK Q, I : Q = reader.queue /\ I = reader.inbox
    OBVIOUS
  <1>1. LastSays(Q, n) /\ (Silent(Q, n) => LastSays(I, n))
    BY DEF Told
  <1>2. LastSays(Q, n)' /\ (Silent(Q, n) => LastSays(I, n)')
    BY <1>1, RestsKeep
  <1> QED
    BY <1>2 DEF Told

\* The reader's steps keep both.
LEMMA ReadsTells ==
  ASSUME StoreInv, TellInv, ReaderInv, Rests, Reads
  PROVE  TellInv' /\ ReaderInv'
  <1> DEFINE E == [FeedNames -> Items \cup {NoItem}]
             F == {"at", "heard", "queue", "lagged", "inbox", "fetch", "list", "trimmed"}
  <1>t. ReaderTypes
    BY DEF ReaderInv
  <1>d. DOMAIN reader = F /\ reader.list \in E /\ reader.fetch \in E
    BY <1>t DEF ReaderTypes
  <1>e. zset \in E /\ meta \in E
    BY DEF StoreInv, StoreTypes
  <1>1. TellInv'
    <2>1. \A n \in FeedNames :
            /\ Exact(n)' <=> Exact(n)
            /\ Busy(n)' = Busy(n) /\ \A q \in Busy(n) : task'[q] = task[q]
      BY DEF Rests, Exact, Busy
    <2>2. ASSUME NEW n \in FeedNames, Exact(n)'
          PROVE  Underway(n)'
      <3>1. /\ \A e : Stands(n, e)' <=> Stands(n, e)
            /\ \A e : Current(n, e)' <=> Current(n, e)
            /\ Dropped(n)' <=> Dropped(n)
        BY DEF Rests, Stands, Current, Dropped
      <3>2. Underway(n) /\ zset'[n] \in {zset[n], NoItem} /\ meta'[n] = meta[n]
        BY <2>1, <2>2 DEF TellInv, Rests
      <3> QED
        BY <2>1, <3>1, <3>2, UnderwayKept
    <2>3. (\A q \in Workers : Steady(ranking, task[q].todo))'
      BY DEF TellInv, Rests, Steady
    <2> QED
      BY <2>2, <2>3 DEF TellInv, Rests
  \* The steps that change no event.
  <1>2. ASSUME ReaderTypes', reader'.lagged = reader.lagged,
               \A n \in FeedNames : Exact(n) /\ Resting(n) /\ Told(n) => Told(n)'
        PROVE  ReaderInv'
    <2>1. ASSUME NEW n \in FeedNames, Exact(n)', Resting(n)', ~ reader'.lagged
          PROVE  Told(n)'
      <3>1. Exact(n) /\ Resting(n)
        BY <2>1 DEF Rests, Exact, Busy, Resting
      <3> QED
        BY <1>2, <2>1, <3>1 DEF ReaderInv
    <2> QED
      BY <1>2, <2>1 DEF ReaderInv
  <1>3. CASE Listen
    <2>1. reader' = [reader EXCEPT !.heard = TRUE]
      BY <1>3 DEF Listen
    <2>2. /\ DOMAIN reader' = F /\ reader'.heard = TRUE /\ reader'.at = reader.at
          /\ reader'.queue = reader.queue /\ reader'.inbox = reader.inbox
          /\ reader'.lagged = reader.lagged /\ reader'.trimmed = reader.trimmed
          /\ reader'.fetch = reader.fetch /\ reader'.list = reader.list
      BY <1>d, <2>1
    <2>3. ReaderTypes'
      BY <1>t, <2>2 DEF ReaderTypes, None
    <2>4. ASSUME NEW n \in FeedNames, Told(n)
          PROVE  Told(n)'
      <3> PICK e : e = reader.list[n]
        OBVIOUS
      <3>1. Silent(reader.queue, n) /\ Silent(reader.inbox, n) =>
              /\ e # NoItem => Current(n, e)
              /\ Owed(n) /\ reader.at # "out" => e # NoItem \/ reader.fetch[n] # NoItem
        BY <2>4 DEF Told
      <3>2. (Current(n, e)' <=> Current(n, e)) /\ (Owed(n)' => Owed(n))
        BY <2>2, RestsKeep
      <3> QED
        BY <2>2, <2>4, <3>1, <3>2, SameEvents
    <2> QED
      BY <1>1, <1>2, <2>2, <2>3, <2>4
  <1>4. CASE ReadNames
    <2> PICK t, f : /\ t = (Top(zset) # Members(zset))
                    /\ f = Without(zset, FeedNames \ Top(zset))
      OBVIOUS
    <2>1. reader.at = "out" /\ reader.heard
          /\ reader' = [reader EXCEPT !.at = "fetching", !.trimmed = t, !.fetch = f]
      BY <1>4 DEF ReadNames
    <2>2. /\ DOMAIN reader' = F /\ reader'.heard = reader.heard /\ reader'.at = "fetching"
          /\ reader'.queue = reader.queue /\ reader'.inbox = reader.inbox
          /\ reader'.lagged = reader.lagged /\ reader'.trimmed = t
          /\ reader'.fetch = f /\ reader'.list = reader.list
      BY <1>d, <2>1
    <2>3. f \in E /\ t \in BOOLEAN
      BY <1>e DEF Without
    <2>4. ReaderTypes'
      BY <1>t, <2>1, <2>2, <2>3 DEF ReaderTypes, None
    <2>5. ASSUME NEW n \in FeedNames, Told(n)
          PROVE  Told(n)'
      <3>1. reader'.list[n] = NoItem /\ ~ reader.trimmed
        BY <1>t, <2>1, <2>2 DEF ReaderTypes, None
      <3>2. ASSUME Owed(n)'
            PROVE  reader'.fetch[n] # NoItem
        <4>1. zset[n] # NoItem /\ ~ t
          BY <2>2, <3>2 DEF Owed, Rests
        <4>2. n \in Top(zset)
          BY <4>1 DEF Members
        <4> QED
          BY <2>2, <4>1, <4>2 DEF Without
      <3> QED
        BY <2>2, <2>5, <3>1, <3>2, SameEvents
    <2> QED
      BY <1>1, <1>2, <2>2, <2>4, <2>5
  <1>5. CASE ReadItem
    <2>1. PICK m \in Members(reader.fetch) :
            reader' = [reader EXCEPT !.list[m] = meta[m], !.fetch[m] = NoItem]
      BY <1>5 DEF ReadItem
    <2> PICK l, f : /\ l = [reader.list EXCEPT ![m] = meta[m]]
                    /\ f = [reader.fetch EXCEPT ![m] = NoItem]
      OBVIOUS
    <2>2. reader' = [reader EXCEPT !.list = l, !.fetch = f] /\ reader.at = "fetching"
          /\ m \in FeedNames
      BY <1>5, <1>d, <2>1 DEF ReadItem, Members
    <2>3. /\ DOMAIN reader' = F /\ reader'.heard = reader.heard /\ reader'.at = "fetching"
          /\ reader'.queue = reader.queue /\ reader'.inbox = reader.inbox
          /\ reader'.lagged = reader.lagged /\ reader'.trimmed = reader.trimmed
          /\ reader'.fetch = f /\ reader'.list = l
      BY <1>d, <2>2
    <2>4. /\ f \in E /\ l \in E /\ l[m] = meta[m]
          /\ \A n \in FeedNames \ {m} : l[n] = reader.list[n] /\ f[n] = reader.fetch[n]
      BY <1>d, <1>e, <2>2
    <2>5. ReaderTypes'
      BY <1>t, <2>2, <2>3, <2>4 DEF ReaderTypes, None
    <2>6. ASSUME NEW n \in FeedNames, Exact(n), Resting(n), Told(n)
          PROVE  Told(n)'
      <3>1. CASE n = m
        <4>1. Calm(n) /\ Written(n) /\ Entry(n)
          BY <2>6 DEF Resting, Calm, TellInv, Underway, StoreInv, Entries
        <4> PICK e : e = meta[n]
          OBVIOUS
        <4>2. e # NoItem => Current(n, e)
          BY <4>1 DEF Written
        <4>3. zset[n] # NoItem => e # NoItem
          BY <2>6, <4>1 DEF Entry, Resting
        <4>4. e # NoItem => Current(n, e)'
          BY <2>3, <4>2, RestsKeep
        <4>5. reader'.list[n] = e
          BY <2>3, <2>4, <3>1
        <4>6. Owed(n)' => e # NoItem
          BY <4>3 DEF Owed, Rests
        <4> QED
          BY <2>3, <2>6, <4>4, <4>5, <4>6, SameEvents
      <3>2. CASE n # m
        <4> PICK e : e = reader.list[n]
          OBVIOUS
        <4>1. Silent(reader.queue, n) /\ Silent(reader.inbox, n) =>
                /\ e # NoItem => Current(n, e)
                /\ Owed(n) => e # NoItem \/ reader.fetch[n] # NoItem
          BY <2>2, <2>6 DEF Told
        <4>2. reader'.list[n] = e /\ reader'.fetch[n] = reader.fetch[n]
          BY <2>3, <2>4, <3>2
        <4>3. (Current(n, e)' <=> Current(n, e)) /\ (Owed(n)' => Owed(n))
          BY <2>3, RestsKeep
        <4> QED
          BY <2>3, <2>6, <4>1, <4>2, <4>3, SameEvents
      <3> QED
        BY <3>1, <3>2
    <2> QED
      BY <1>1, <1>2, <2>3, <2>5, <2>6
  <1>6. CASE Snapshot
    <2>1. reader.at = "fetching" /\ Members(reader.fetch) = {}
          /\ reader' = [reader EXCEPT !.at = "live"]
      BY <1>6 DEF Snapshot
    <2>2. /\ DOMAIN reader' = F /\ reader'.heard = reader.heard /\ reader'.at = "live"
          /\ reader'.queue = reader.queue /\ reader'.inbox = reader.inbox
          /\ reader'.lagged = reader.lagged /\ reader'.trimmed = reader.trimmed
          /\ reader'.fetch = reader.fetch /\ reader'.list = reader.list
      BY <1>d, <2>1
    <2>3. reader.fetch = None
      <3>1. \A n \in FeedNames : reader.fetch[n] = NoItem
        BY <2>1 DEF Members
      <3> QED
        BY <1>d, <3>1 DEF None
    <2>4. ReaderTypes'
      BY <1>t, <2>1, <2>2, <2>3 DEF ReaderTypes, None
    <2>5. ASSUME NEW n \in FeedNames, Told(n)
          PROVE  Told(n)'
      <3> PICK e : e = reader.list[n]
        OBVIOUS
      <3>1. Silent(reader.queue, n) /\ Silent(reader.inbox, n) =>
              /\ e # NoItem => Current(n, e)
              /\ Owed(n) => e # NoItem \/ reader.fetch[n] # NoItem
        BY <2>1, <2>5 DEF Told
      <3>2. (Current(n, e)' <=> Current(n, e)) /\ (Owed(n)' => Owed(n))
        BY <2>2, RestsKeep
      <3> QED
        BY <2>2, <2>5, <3>1, <3>2, SameEvents
    <2> QED
      BY <1>1, <1>2, <2>2, <2>4, <2>5
  <1>7. CASE Forward
    BY <1>1, <1>2, <1>7, <1>t, ForwardTells
  <1>8. CASE Update
    BY <1>1, <1>2, <1>8, <1>t, UpdateTells
  <1>9. CASE UNCHANGED feedVars
    <2>1. reader' = reader
      BY <1>9 DEF feedVars
    <2>2. ReaderTypes'
      BY <1>t, <2>1 DEF ReaderTypes, None
    <2>3. ASSUME NEW n \in FeedNames, Told(n)
          PROVE  Told(n)'
      <3>1. (\A e : Current(n, e) => Current(n, e)') /\ (Owed(n)' => Owed(n))
        BY <2>1, RestsKeep
      <3> QED
        BY <2>1, <2>3, <3>1, ToldKept
    <2> QED
      BY <1>1, <1>2, <2>1, <2>2, <2>3
  <1> QED
    BY <1>3, <1>4, <1>5, <1>6, <1>7, <1>8, <1>9 DEF Reads

FeedInv == StoreInv /\ TellInv /\ ReaderInv

LEMMA FeedInvStarts ==
  ASSUME FeedInit
  PROVE  FeedInv
  <1>1. StoreInv
    BY FeedStarts
  <1>2. /\ zset = None /\ meta = None /\ task = [p \in Workers |-> Idle]
        /\ reader = [at |-> "out", heard |-> FALSE, queue |-> <<>>, lagged |-> FALSE,
                     inbox |-> <<>>, fetch |-> None, list |-> None, trimmed |-> FALSE]
        /\ sloppy = [raced |-> {}, failed |-> {}, undone |-> {}, late |-> {},
                     trimmed |-> FALSE]
    BY DEF FeedInit
  <1>3. /\ None \in [FeedNames -> Items \cup {NoItem}]
        /\ \A n \in FeedNames : None[n] = NoItem
    BY DEF None
  <1>4. \A p \in Workers : task[p].todo = <<>> /\ Len(task[p].todo) = 0
    BY <1>2 DEF Idle
  <1>5. TellInv
    <2>1. \A n \in FeedNames : Busy(n) = {} /\ Written(n)
      BY <1>2, <1>3, <1>4 DEF Busy, Written
    <2>2. \A n \in FeedNames : Underway(n)
      BY <2>1 DEF Underway
    <2>3. \A p \in Workers : Steady(ranking, task[p].todo)
      BY <1>4 DEF Steady
    <2> QED
      BY <1>2, <2>2, <2>3 DEF TellInv
  <1>6. ReaderTypes
    <2> HIDE DEF None
    <2>1. <<>> \in Seq(Broadcasts)
      OBVIOUS
    <2> QED
      BY <1>2, <1>3, <2>1 DEF ReaderTypes
  <1>7. ASSUME NEW n \in FeedNames
        PROVE  Told(n)
    <2>1. LastSays(<<>>, n)
      BY DEF LastSays
    <2> QED
      BY <1>2, <1>3, <2>1 DEF Told
  <1> QED
    BY <1>1, <1>5, <1>6, <1>7 DEF FeedInv, ReaderInv

LEMMA FeedInvKept ==
  ASSUME FeedInv, [FeedNext]_feedVars
  PROVE  FeedInv'
  <1>1. StoreInv'
    BY StoreKept DEF FeedInv
  <1>2. CASE Jobs
    <2>1. PICK p \in Workers, n \in FeedNames, T \in Seq(OpSet), u \in BOOLEAN,
               i \in Items \cup {NoItem} : Job(p, n, T, u, i)
      BY <1>2, JobIs DEF FeedInv, StoreInv
    <2> QED
      BY <1>1, <2>1, JobTells DEF FeedInv
  <1>3. CASE \E p \in Workers : Command(p)
    <2>1. PICK p \in Workers : Ran(p) \/ FailCommand(p)
      BY <1>3 DEF Command, Ran
    <2> QED
      BY <1>1, <2>1, RanTells, FailTells DEF FeedInv
  <1>4. CASE Rests /\ Reads
    BY <1>1, <1>4, ReadsTells DEF FeedInv
  <1> QED
    BY <1>2, <1>3, <1>4, FeedStepIs

\* What the invariant says of a client that has all that was broadcast.
LEMMA SettledShows ==
  ASSUME FeedInv, Settled, ~ reader.lagged, NEW n \in FeedNames, Exact(n)
  PROVE  /\ reader.list[n] # NoItem => Current(n, reader.list[n])
         /\ Owed(n) => reader.list[n] # NoItem
  <1>1. Told(n)
    BY DEF Settled, Resting, Busy, FeedInv, ReaderInv
  <1>2. Silent(<<>>, n)
    BY DEF Silent
  <1>3. reader.fetch[n] = NoItem
    BY DEF Settled, FeedInv, ReaderInv, ReaderTypes, None
  <1> QED
    BY <1>1, <1>2, <1>3 DEF Settled, Told

\* FeedIsTrue, for any names, requests, discounts and limits: a client that has
\* all that was broadcast, and was not too slow, shows the store's entries, or
\* those of standing listings which a trim took out.
THEOREM FeedTrue == FeedSpec => []FeedIsTrue
  <1>1. FeedInv => FeedIsTrue
    <2>1. ASSUME FeedInv, Settled, ~ reader.lagged, NEW n \in Members(reader.list), Exact(n)
          PROVE  \/ reader.list[n] = zset[n]
                 \/ /\ sloppy.trimmed /\ zset[n] = NoItem
                    /\ listing[n] # NoItem /\ n \notin resold
                    /\ reader.list[n].listed = listing[n].listed
      <3>1. n \in FeedNames /\ reader.list[n] # NoItem
        BY DEF Members
      <3>2. Current(n, reader.list[n])
        BY <2>1, <3>1, SettledShows
      <3>3. sloppy.trimmed => ranking = "new"
        BY <2>1 DEF FeedInv, TellInv
      <3> QED
        BY <3>2, <3>3 DEF Current, Stands
    <2> QED
      BY <2>1 DEF FeedIsTrue
  <1> QED
    BY <1>1, FeedInvStarts, FeedInvKept, PTL DEF FeedSpec

\* FeedIsWhole, for any names, requests, discounts and limits: as long as nothing
\* was trimmed, such a client shows all that the store has, but for the names
\* that a rejected resale told it to remove.
THEOREM FeedWhole == FeedSpec => []FeedIsWhole
  <1>1. FeedInv => FeedIsWhole
    <2>1. ASSUME FeedInv, Settled, ~ reader.lagged, ~ reader.trimmed, ~ sloppy.trimmed,
                 NEW n \in Members(zset), Exact(n), ranking = "new" => n \notin sloppy.undone
          PROVE  reader.list[n] = zset[n]
      <3>1. n \in FeedNames /\ Owed(n)
        BY <2>1 DEF Members, Owed, Dropped
      <3>2. Current(n, reader.list[n])
        BY <2>1, <3>1, SettledShows
      <3> QED
        BY <2>1, <3>2 DEF Current, Members
    <2> QED
      BY <2>1 DEF FeedIsWhole
  <1> QED
    BY <1>1, FeedInvStarts, FeedInvKept, PTL DEF FeedSpec

\* The channel holds no more than its capacity.
Held == Len(reader.queue) <= Capacity

LEMMA HeldKept ==
  ASSUME FeedInv, Held, [FeedNext]_feedVars
  PROVE  Held'
  <1>1. reader.queue \in Seq(Broadcasts) /\ Capacity \in Nat /\ ReaderTypes
    BY FeedAssumption DEF FeedInv, ReaderInv, ReaderTypes
  <1>2. CASE reader'.queue = reader.queue
    BY <1>2 DEF Held
  <1>3. CASE Forward
    <2>1. Len(Tail(reader.queue)) = Len(reader.queue) - 1 /\ Len(reader.queue) \in Nat
      BY <1>1, <1>3, HeadTailProperties DEF Forward
    <2>2. reader'.queue = Tail(reader.queue)
      <3> PICK U, V : U = Tail(reader.queue) /\ V = Append(reader.inbox, Head(reader.queue))
        OBVIOUS
      <3>1. reader' = [reader EXCEPT !.queue = U, !.inbox = V]
        BY <1>3 DEF Forward
      <3>2. reader'.queue = U
        BY <1>1, <3>1 DEF ReaderTypes
      <3> QED
        BY <3>2
    <2> QED
      BY <1>1, <2>1, <2>2 DEF Held
  <1>4. ASSUME NEW o \in Broadcasts, SentTo(o)
        PROVE  Held'
    <2>q. PICK q : q = Append(reader.queue, o)
      OBVIOUS
    <2>1. /\ q \in Seq(Broadcasts) /\ Len(q) = Len(reader.queue) + 1
          /\ Len(reader.queue) \in Nat /\ q # <<>>
      BY <1>1, <2>q, AppendProperties
    <2>t. PICK t : t = Tail(q)
      OBVIOUS
    <2>2. Len(t) = Len(q) - 1
      BY <2>1, <2>t, HeadTailProperties
    <2>3. \/ reader' = reader
          \/ Len(q) <= Capacity /\ reader' = [reader EXCEPT !.queue = q]
          \/ reader' = [reader EXCEPT !.queue = t, !.lagged = TRUE]
      BY <1>4, <2>q, <2>t DEF SentTo
    <2>4. \/ reader'.queue = reader.queue
          \/ Len(q) <= Capacity /\ reader'.queue = q
          \/ reader'.queue = t
      BY <1>1, <2>3 DEF ReaderTypes
    <2> QED
      BY <1>1, <2>1, <2>2, <2>4 DEF Held
  <1>5. CASE Jobs
    <2>1. PICK p \in Workers, n \in FeedNames, T \in Seq(OpSet), u \in BOOLEAN,
               i \in Items \cup {NoItem} : Job(p, n, T, u, i)
      BY <1>5, JobIs DEF FeedInv, StoreInv
    <2> QED
      BY <1>2, <2>1 DEF Job, Start
  <1>6. ASSUME NEW p \in Workers, Ran(p)
        PROVE  Held'
    <2> PICK o : o = task[p].todo[1]
      OBVIOUS
    <2>1. /\ o \in OpSet /\ (o.do \notin Sends => reader' = reader)
          /\ o.do \in Sends => SentTo(o)
      BY <1>6, RanShows DEF FeedInv
    <2> QED
      BY <1>2, <1>4, <2>1 DEF Broadcasts
  <1>7. CASE \E p \in Workers : Command(p)
    <2>1. PICK p \in Workers : Ran(p) \/ FailCommand(p)
      BY <1>7 DEF Command, Ran
    <2>2. FailCommand(p) => reader' = reader
      BY DEF FailCommand
    <2> QED
      BY <1>2, <1>6, <2>1, <2>2
  <1>8. CASE Rests /\ Reads
    <2>1. CASE Update
      <3>1. reader.inbox \in Seq(Broadcasts) /\ reader.inbox # <<>>
        BY <1>1, <2>1 DEF Update, ReaderTypes
      <3> PICK o : o = Head(reader.inbox)
        OBVIOUS
      <3>2. o \in Broadcasts
        BY <3>1, HeadTailProperties
      <3>3. reader'.queue = reader.queue
        BY <1>1, <2>1, <3>2, Applied
      <3> QED
        BY <1>2, <3>3
    <2>2. CASE Listen \/ ReadNames \/ ReadItem \/ Snapshot \/ UNCHANGED feedVars
      <3>1. reader'.queue = reader.queue
        <4>1. CASE Listen
          BY <1>1, <4>1 DEF Listen, ReaderTypes
        <4>2. CASE ReadNames
          <5>1. PICK t, f : reader' = [reader EXCEPT !.at = "fetching", !.trimmed = t, !.fetch = f]
            BY <4>2 DEF ReadNames
          <5> QED
            BY <1>1, <5>1 DEF ReaderTypes
        <4>3. CASE ReadItem
          <5>1. PICK m \in Members(reader.fetch) :
                  reader' = [reader EXCEPT !.list[m] = meta[m], !.fetch[m] = NoItem]
            BY <4>3 DEF ReadItem
          <5> PICK l, f : /\ l = [reader.list EXCEPT ![m] = meta[m]]
                          /\ f = [reader.fetch EXCEPT ![m] = NoItem]
            OBVIOUS
          <5>2. reader' = [reader EXCEPT !.list = l, !.fetch = f]
            BY <1>1, <5>1 DEF ReaderTypes
          <5> QED
            BY <1>1, <5>2 DEF ReaderTypes
        <4>4. CASE Snapshot
          BY <1>1, <4>4 DEF Snapshot, ReaderTypes
        <4>5. CASE UNCHANGED feedVars
          BY <4>5 DEF feedVars
        <4> QED
          BY <2>2, <4>1, <4>2, <4>3, <4>4, <4>5
      <3> QED
        BY <1>2, <3>1
    <2> QED
      BY <1>3, <1>8, <2>1, <2>2 DEF Reads
  <1> QED
    BY <1>5, <1>7, <1>8, FeedStepIs
LEMMA TypesStart == FeedInit => FeedInv /\ Held
  <1>1. ASSUME FeedInit
        PROVE  Held
    <2>1. reader.queue = <<>> /\ Len(<<>>) = 0
      BY <1>1 DEF FeedInit
    <2> QED
      BY <2>1, FeedAssumption DEF Held
  <1> QED
    BY <1>1, FeedInvStarts

LEMMA TypesOfFeed == FeedInv /\ Held => FeedTypeOK
  <1> SUFFICES ASSUME FeedInv, Held PROVE FeedTypeOK
    OBVIOUS
  <1>1. StoreTypes /\ ReaderTypes
    BY DEF FeedInv, StoreInv, ReaderInv
  <1>2. reader.queue \in Seq(OpSet) /\ reader.inbox \in Seq(OpSet)
    <2>1. Broadcasts \subseteq OpSet
      BY DEF Broadcasts
    <2>2. \A s \in Seq(Broadcasts) : s \in Seq(OpSet)
      BY <2>1
    <2> QED
      BY <1>1, <2>2 DEF ReaderTypes
  <1>3. /\ DOMAIN task = Workers
        /\ \A p \in Workers : /\ task[p].todo \in Seq(OpSet)
                              /\ task[p].name \in FeedNames \cup {0} /\ task[p].count \in Nat
    BY <1>1 DEF StoreTypes
  <1>4. /\ sloppy.raced \subseteq FeedNames /\ sloppy.failed \subseteq FeedNames
        /\ sloppy.undone \subseteq FeedNames /\ sloppy.late \subseteq FeedNames
    BY <1>1 DEF StoreTypes
  <1> QED
    BY <1>1, <1>2, <1>3, <1>4 DEF FeedTypeOK, StoreTypes, ReaderTypes, Held

\* The types of RankFeed, for any names, requests, discounts and limits: what is
\* stored, sent and shown is of the kinds the code gives it, and a channel never
\* holds more than its capacity.
THEOREM FeedTypes == FeedSpec => []FeedTypeOK
  <1>1. FeedInv /\ Held /\ [FeedNext]_feedVars => (FeedInv /\ Held)'
    BY FeedInvKept, HeldKept
  <1> QED
    BY <1>1, TypesStart, TypesOfFeed, PTL DEF FeedSpec

-----------------------------------------------------------------------------
(* The three parts side by side.                                            *)

\* What the invariants of the parts say of the one that is followed.
PartInv ==
  /\ part \in {"ladder", "feed", "sales"}
  /\ part = "ladder" => IInv
  /\ part = "feed" => FeedInv /\ Held
  /\ part = "sales" => RecentInv /\ SaleTypeOK

\* The types of prices, purchase records and points (trading.rs, event.rs), of the
\* listing rankings with their clients (redis.rs, ws.rs) and of the sale rankings
\* (event.rs, main.rs) hold whichever of the three is followed, for every value of
\* their constants; among them that the channel to a client is bounded and that the
\* sale shown of a name is one of its trades.
THEOREM RankingsTypes == RankingsSpec => []RankingsTypeOK
  <1>1. RankingsInit => PartInv
    BY InitIInv, TypesStart, RecentStarts, SaleTypesStart DEF RankingsInit, PartInv
  <1>2. ASSUME PartInv, [RankingsNext]_<<part, vars, feedVars, saleVars>>
        PROVE  PartInv'
    <2>1. CASE part = "ladder"
      <3>1. part' = part /\ [Next]_vars
        BY <1>2, <2>1 DEF RankingsNext, LadderStep, FeedStep, SalesStep
      <3>2. IInv'
        BY <1>2, <2>1, <3>1, StepIInv DEF PartInv
      <3> QED
        BY <2>1, <3>1, <3>2 DEF PartInv
    <2>2. CASE part = "feed"
      <3>1. part' = part /\ [FeedNext]_feedVars
        BY <1>2, <2>2 DEF RankingsNext, LadderStep, FeedStep, SalesStep
      <3>2. FeedInv' /\ Held'
        BY <1>2, <2>2, <3>1, FeedInvKept, HeldKept DEF PartInv
      <3> QED
        BY <2>2, <3>1, <3>2 DEF PartInv
    <2>3. CASE part = "sales"
      <3>1. part' = part /\ [SaleNext]_saleVars
        BY <1>2, <2>3 DEF RankingsNext, LadderStep, FeedStep, SalesStep
      <3>2. RecentInv /\ CountInv /\ SaleTypeOK
        BY <1>2, <2>3 DEF PartInv, RecentInv
      <3>3. RecentInv' /\ SaleTypeOK'
        BY <3>1, <3>2, CountStep, RecentStep, SaleTypesKept
      <3> QED
        BY <2>3, <3>1, <3>3 DEF PartInv
    <2> QED
      BY <1>2, <2>1, <2>2, <2>3 DEF PartInv
  <1>3. PartInv => RankingsTypeOK
    BY TypesOfFeed DEF PartInv, IInv, RankingsTypeOK
  <1> QED
    BY <1>1, <1>2, <1>3, PTL DEF RankingsSpec
=============================================================================
