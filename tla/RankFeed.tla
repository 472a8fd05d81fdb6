------------------------------ MODULE RankFeed ------------------------------
(***************************************************************************)
(* The listing rankings and what their readers see.  Trade requests, and   *)
(* the event poller for rejected trades, change "new-listings" and         *)
(* "best-deals" in Redis, one command at a time (infra/redis.rs,           *)
(* service/event.rs), and broadcast each change; a client reads a snapshot *)
(* (api/rankings.rs) and applies the changes its WebSocket listener        *)
(* forwards (api/ws.rs).  The two rankings share no key and no channel:    *)
(* one of them is followed, the commands and events of the other are left  *)
(* out.  The listings themselves, and restarts, are in Trading.tla.        *)
(***************************************************************************)
EXTENDS Integers, Sequences, FiniteSets

CONSTANTS
  FeedNames,            \* names, numbers for their order in Redis
  NoItem,               \* null
  Requests,             \* tasks of trade requests
  Deals,                \* the discount calculate_discount gives in each job
  Keep,                 \* 20, of redis.rs, MAX_RANKING_ITEMS and API.md
  Capacity,             \* 256, of broadcast::channel
  MaxJobs,              \* bound: events and relists
  MaxFailing            \* bound: one command fails, while at most so many started

ASSUME FeedAssumption ==
  /\ FeedNames \subseteq Nat /\ IsFiniteSet(FeedNames)
  /\ Keep \in Nat \ {0} /\ Capacity \in Nat \ {0} /\ MaxJobs \in Nat
  /\ Deals \in [1 .. MaxJobs -> Int]
  /\ MaxFailing \in Nat
  /\ "poller" \notin Requests

VARIABLES
  ranking,              \* the ranking followed
  listing,              \* the row of each name (Trading.tla), or NoItem
  resold,               \* names whose row a buy-and-relist wrote last
  zset, meta,           \* rank:{ranking} and rank:{ranking}:meta:{name}
  task,                 \* commands each task has still to run, and its locals
  reader,               \* a client of the ranking, and its listener
  jobs,                 \* jobs started so far
  sloppy                \* history: names raced, names of failed commands, names
                        \* whose last broadcast is of a rejected buy-and-relist,
                        \* names added when a newer listing stood; was there a
                        \* trim?

feedVars == <<ranking, listing, resold, zset, meta, task, reader, jobs, sloppy>>

Ranks == {"new", "best"}
Workers == {"poller"} \cup Requests

\* An item of either ranking; listed is its listed_at.
Items == [listed : 1 .. MaxJobs, discount : {Deals[j] : j \in 1 .. MaxJobs}]
ASSUME NoItemAssumption == NoItem \notin Items
Score(i) == IF ranking = "new" THEN i.listed ELSE i.discount

Members(entries) == {n \in FeedNames : entries[n] # NoItem}
\* The order of ZREVRANGE: by score, names of equal score by their bytes.
Ahead(entries, m, n) ==
  \/ Score(entries[m]) > Score(entries[n])
  \/ Score(entries[m]) = Score(entries[n]) /\ m > n
\* The first Keep entries.
Top(entries) ==
  {n \in Members(entries) :
    Cardinality({m \in Members(entries) : Ahead(entries, m, n)}) < Keep}
Without(entries, S) == [n \in FeedNames |-> IF n \in S THEN NoItem ELSE entries[n]]

Idle == [todo |-> <<>>, name |-> 0, count |-> 0]
Busy(n) == {p \in Workers : task[p].todo # <<>> /\ task[p].name = n}

Ops == {"zadd", "set", "zcard", "trim", "zrem", "del", "upsert", "remove"}
Sends == {"upsert", "remove"}
Op(do, n, i) == [do |-> do, name |-> n, item |-> i]
OpSet == [do : Ops, name : FeedNames, item : Items \cup {NoItem}]

\* add_new_listing, add_best_deal, and the broadcast.
Add(n, i) ==
  <<Op("zadd", n, i), Op("set", n, i)>>
  \o (IF ranking = "new" THEN <<Op("zcard", n, i), Op("trim", n, i)>> ELSE <<>>)
  \o <<Op("upsert", n, i)>>
\* rem_new_listing, rem_best_deal, and the broadcast.
Rem(n) == <<Op("zrem", n, NoItem), Op("del", n, NoItem), Op("remove", n, NoItem)>>
Only(r, todo) == IF ranking = r THEN todo ELSE <<>>

\* A reader is "out" until it asks for the snapshot, and "live" once it has it.
FeedTypeOK ==
  /\ listing \in [FeedNames -> Items \cup {NoItem}]
  /\ resold \subseteq Members(listing)
  /\ zset \in [FeedNames -> Items \cup {NoItem}]
  /\ meta \in [FeedNames -> Items \cup {NoItem}]
  /\ DOMAIN task = Workers
  /\ \A p \in Workers : /\ task[p].todo \in Seq(OpSet)
                      /\ task[p].name \in FeedNames \cup {0} /\ task[p].count \in Nat
  /\ reader.at \in {"out", "fetching", "live"} /\ ranking \in Ranks
  /\ reader.queue \in Seq(OpSet) /\ Len(reader.queue) <= Capacity
  /\ reader.inbox \in Seq(OpSet)
  /\ reader.fetch \in [FeedNames -> Items \cup {NoItem}]
  /\ reader.list \in [FeedNames -> Items \cup {NoItem}]
  /\ jobs \in 0 .. MaxJobs
  /\ sloppy.raced \subseteq FeedNames /\ sloppy.failed \subseteq FeedNames
  /\ sloppy.undone \subseteq FeedNames /\ sloppy.late \subseteq FeedNames

None == [n \in FeedNames |-> NoItem]

FeedInit ==
  /\ listing = None /\ resold = {}
  /\ zset = None /\ meta = None
  /\ task = [p \in Workers |-> Idle]
  /\ ranking \in Ranks
  /\ reader = [at |-> "out", heard |-> FALSE, queue |-> <<>>, lagged |-> FALSE,
               inbox |-> <<>>, fetch |-> None, list |-> None, trimmed |-> FALSE]
  /\ jobs = 0
  /\ sloppy = [raced |-> {}, failed |-> {}, undone |-> {}, late |-> {},
               trimmed |-> FALSE]

-----------------------------------------------------------------------------
(* The jobs: what an event or a relist does to the listing rankings. *)

\* The row of a name whose price changes: it keeps its listed_at.
Rediscounted(n) == [listing[n] EXCEPT !.discount = Deals[jobs + 1]]

Start(p, n, todo, undone) ==
  /\ task[p].todo = <<>>
  /\ jobs' = jobs + 1
  /\ task' = [task EXCEPT ![p] = [todo |-> todo, name |-> n, count |-> 0]]
  /\ sloppy' = [sloppy EXCEPT
       !.raced = IF Busy(n) = {} THEN @ ELSE @ \cup {n},
       !.undone = IF undone THEN @ \cup {n} ELSE IF todo = <<>> THEN @ ELSE @ \ {n}]
  /\ UNCHANGED <<ranking, zset, meta, reader>>

\* list pending, in its request's task; delist, and buy-and-delist, rejected, in
\* the poller's: the row is new.
ListName(p, n) ==
  /\ listing[n] = NoItem
  /\ jobs < MaxJobs
  /\ LET i == [listed |-> jobs + 1, discount |-> Deals[jobs + 1]] IN
       /\ listing' = [listing EXCEPT ![n] = i]
       /\ Start(p, n, Add(n, i), FALSE)
  /\ UNCHANGED resold

\* delist, and buy-and-delist, pending, in the request's task; list rejected.
DropName(p, n) ==
  /\ listing[n] # NoItem /\ jobs < MaxJobs
  /\ listing' = [listing EXCEPT ![n] = NoItem]
  /\ resold' = resold \ {n}
  /\ Start(p, n, Rem(n), FALSE)

\* buy-and-relist pending: the row keeps its listed_at.
Resell(p, n) ==
  /\ listing[n] # NoItem
  /\ jobs < MaxJobs
  /\ LET i == Rediscounted(n) IN
       /\ listing' = [listing EXCEPT ![n] = i]
       /\ resold' = resold \cup {n}
       /\ Start(p, n, Rem(n) \o Only("best", Add(n, i)), FALSE)

\* buy-and-relist rejected: the rankings are restored, and the clients then
\* told to remove the name from the new listings.
UndoResale(n) ==
  /\ n \in resold
  /\ jobs < MaxJobs
  /\ LET i == Rediscounted(n) IN
       /\ listing' = [listing EXCEPT ![n] = i]
       /\ resold' = resold \ {n}
       /\ Start("poller", n, Rem(n) \o Add(n, i)
                             \o Only("new", <<Op("remove", n, NoItem)>>), TRUE)

\* relist.
RelistName(p, n) ==
  /\ listing[n] # NoItem
  /\ jobs < MaxJobs
  /\ LET i == Rediscounted(n) IN
       /\ listing' = [listing EXCEPT ![n] = i]
       /\ Start(p, n, Only("best", Add(n, i)), FALSE)
  /\ UNCHANGED resold

-----------------------------------------------------------------------------
(* The commands of a job, one step each. *)

Next1(p, do) == task[p].todo # <<>> /\ Head(task[p].todo).do = do
Done(p) ==
  LET rest == [task[p] EXCEPT !.todo = Tail(@)] IN
    task' = [task EXCEPT ![p] = IF rest.todo = <<>> THEN Idle ELSE rest]

\* A newer listing stands than the one a command of the new listings is about.
Outdated(o) ==
  ranking = "new" /\ \E n \in Members(listing) : listing[n].listed > o.item.listed

ZAdd(p) ==
  LET o == Head(task[p].todo) IN
    /\ Next1(p, "zadd")
    /\ zset' = [zset EXCEPT ![o.name] = o.item]
    /\ sloppy' = [sloppy EXCEPT
         !.late = IF Outdated(o) THEN @ \cup {o.name} ELSE @ \ {o.name}]
    /\ Done(p)
    /\ UNCHANGED <<ranking, listing, resold, meta, reader, jobs>>

\* Mutant of SetMeta: the metadata of an entry that has one is kept.
SetMetaOnce(p) ==
  /\ Next1(p, "set")
  /\ LET o == Head(task[p].todo) IN
       meta' = [meta EXCEPT ![o.name] = IF @ = NoItem THEN o.item ELSE @]
  /\ Done(p)
  /\ UNCHANGED <<ranking, listing, resold, zset, reader, jobs, sloppy>>

SetMeta(p) ==
  /\ Next1(p, "set")
  /\ LET o == Head(task[p].todo) IN meta' = [meta EXCEPT ![o.name] = o.item]
  /\ Done(p)
  /\ UNCHANGED <<ranking, listing, resold, zset, reader, jobs, sloppy>>

ZCard(p) ==
  /\ Next1(p, "zcard")
  /\ task' = [task EXCEPT ![p].todo = Tail(@),
                          ![p].count = Cardinality(Members(zset))]
  /\ UNCHANGED <<ranking, listing, resold, zset, meta, reader, jobs, sloppy>>

\* Mutant of ZTrim: ZREMRANGEBYRANK 0 (count - 22).
ZTrimLess(p) ==
  LET out == {n \in Members(zset) :
                Cardinality({m \in Members(zset) : Ahead(zset, n, m)})
                 < task[p].count - Keep - 1} IN
    /\ Next1(p, "trim")
    /\ zset' = Without(zset, out)
    /\ sloppy' = [sloppy EXCEPT !.trimmed = @ \/ out # {}]
    /\ Done(p)
    /\ UNCHANGED <<ranking, listing, resold, meta, reader, jobs>>

\* ZREMRANGEBYRANK 0 (count - 21), if count > 20: the entries with fewer than
\* count - 20 behind them; their metadata stays.
ZTrim(p) ==
  LET out == {n \in Members(zset) :
                Cardinality({m \in Members(zset) : Ahead(zset, n, m)})
                 < task[p].count - Keep} IN
    /\ Next1(p, "trim")
    /\ zset' = Without(zset, out)
    /\ sloppy' = [sloppy EXCEPT !.trimmed = @ \/ out # {}]
    /\ Done(p)
    /\ UNCHANGED <<ranking, listing, resold, meta, reader, jobs>>

ZRem(p) ==
  /\ Next1(p, "zrem")
  /\ LET o == Head(task[p].todo) IN zset' = [zset EXCEPT ![o.name] = NoItem]
  /\ Done(p)
  /\ UNCHANGED <<ranking, listing, resold, meta, reader, jobs, sloppy>>

DelMeta(p) ==
  /\ Next1(p, "del")
  /\ LET o == Head(task[p].todo) IN meta' = [meta EXCEPT ![o.name] = NoItem]
  /\ Done(p)
  /\ UNCHANGED <<ranking, listing, resold, zset, reader, jobs, sloppy>>

\* Mutants of Send: a slow receiver loses nothing; a client that has not got its
\* snapshot is sent nothing.
SendUnbounded(p) ==
  /\ task[p].todo # <<>> /\ Head(task[p].todo).do \in Sends
  /\ reader' = IF ~ reader.heard THEN reader
               ELSE [reader EXCEPT !.queue = Append(@, Head(task[p].todo))]
  /\ Done(p)
  /\ UNCHANGED <<ranking, listing, resold, zset, meta, jobs, sloppy>>

SendToLive(p) ==
  /\ task[p].todo # <<>> /\ Head(task[p].todo).do \in Sends
  /\ LET q == Append(reader.queue, Head(task[p].todo)) IN
       reader' = IF reader.at # "live" THEN reader
                 ELSE IF Len(q) <= Capacity THEN [reader EXCEPT !.queue = q]
                 ELSE [reader EXCEPT !.queue = Tail(q), !.lagged = TRUE]
  /\ Done(p)
  /\ UNCHANGED <<ranking, listing, resold, zset, meta, jobs, sloppy>>

\* broadcast: each receiver gets the event; one that has not read the last 256
\* loses the oldest and goes on (RecvError::Lagged).
Send(p) ==
  /\ task[p].todo # <<>> /\ Head(task[p].todo).do \in Sends
  /\ LET q == Append(reader.queue, Head(task[p].todo)) IN
       reader' = IF ~ reader.heard THEN reader
                 ELSE IF Len(q) <= Capacity THEN [reader EXCEPT !.queue = q]
                 ELSE [reader EXCEPT !.queue = Tail(q), !.lagged = TRUE]
  /\ Done(p)
  /\ UNCHANGED <<ranking, listing, resold, zset, meta, jobs, sloppy>>

\* A command fails: the rest of its function is left out, not the broadcast.
FailCommand(p) ==
  /\ jobs <= MaxFailing /\ sloppy.failed = {}
  /\ task[p].todo # <<>> /\ Head(task[p].todo).do \notin Sends
  /\ \E next \in DOMAIN task[p].todo :
       /\ task[p].todo[next].do \in Sends
       /\ \A i \in 1 .. next - 1 : task[p].todo[i].do \notin Sends
       /\ task' = [task EXCEPT ![p].todo = SubSeq(@, next, Len(@))]
  /\ sloppy' = [sloppy EXCEPT !.failed = @ \cup {task[p].name}]
  /\ UNCHANGED <<ranking, listing, resold, zset, meta, reader, jobs>>

-----------------------------------------------------------------------------
(* A client.  Its own rules are those of API.md:1314-1320. *)

\* What a client makes of a change: an upsert and a trim, or a removal.
Apply(c, o) ==
  LET up == [c.list EXCEPT ![o.name] = o.item]
      top == Top(up)
  IN IF o.do = "remove" THEN [c EXCEPT !.list[o.name] = NoItem]
     ELSE [c EXCEPT !.list = Without(up, FeedNames \ top),
                    !.trimmed = @ \/ top # Members(up)]

\* subscribe (WsHub.tla): the channel's events from now on.
Listen ==
  /\ ~ reader.heard
  /\ reader' = [reader EXCEPT !.heard = TRUE]
  /\ UNCHANGED <<ranking, listing, resold, zset, meta, task, jobs, sloppy>>

\* Mutant of ReadNames: the snapshot may be asked for before the subscription, as
\* API.md:1316-1317 numbers the two.
ReadNamesFirst ==
  /\ reader.at = "out"
  /\ reader' = [reader EXCEPT !.at = "fetching",
       !.trimmed = Top(zset) # Members(zset),
       !.fetch = Without(zset, FeedNames \ Top(zset))]
  /\ UNCHANGED <<ranking, listing, resold, zset, meta, task, jobs, sloppy>>

\* get_new_listings, get_best_deals: ZREVRANGE of the first 20 names, with their
\* scores ...
\* The client has subscribed before: otherwise it misses what changes between.
ReadNames ==
  /\ reader.at = "out" /\ reader.heard
  /\ reader' = [reader EXCEPT !.at = "fetching",
       !.trimmed = Top(zset) # Members(zset),
       !.fetch = Without(zset, FeedNames \ Top(zset))]
  /\ UNCHANGED <<ranking, listing, resold, zset, meta, task, jobs, sloppy>>

\* ... and GET of the metadata of each, the first ones first; a name without is
\* left out.
ReadItem ==
  /\ reader.at = "fetching"
  /\ \E n \in Members(reader.fetch) :
       /\ \A m \in Members(reader.fetch) : ~ Ahead(reader.fetch, m, n)
       /\ reader' = [reader EXCEPT !.list[n] = meta[n], !.fetch[n] = NoItem]
  /\ UNCHANGED <<ranking, listing, resold, zset, meta, task, jobs, sloppy>>

\* The snapshot is there; the changes that came meanwhile are applied to it first.
Snapshot ==
  /\ reader.at = "fetching" /\ Members(reader.fetch) = {}
  /\ reader' = [reader EXCEPT !.at = "live"]
  /\ UNCHANGED <<ranking, listing, resold, zset, meta, task, jobs, sloppy>>

\* run_broadcast_listener: the next event goes to the client ...
Forward ==
  /\ reader.queue # <<>>
  /\ reader' = [reader EXCEPT !.queue = Tail(@), !.inbox = Append(@, Head(reader.queue))]
  /\ UNCHANGED <<ranking, listing, resold, zset, meta, task, jobs, sloppy>>

\* ... which keeps it until it has the snapshot, and applies one after the other.
Update ==
  /\ reader.at = "live" /\ reader.inbox # <<>>
  /\ reader' = Apply([reader EXCEPT !.inbox = Tail(@)], Head(reader.inbox))
  /\ UNCHANGED <<ranking, listing, resold, zset, meta, task, jobs, sloppy>>

Command(p) ==
  \/ ZAdd(p) \/ SetMeta(p) \/ ZCard(p) \/ ZTrim(p) \/ ZRem(p) \/ DelMeta(p)
  \/ Send(p) \/ FailCommand(p)

FeedNext ==
  \/ \E p \in Workers, n \in FeedNames : ListName(p, n) \/ DropName(p, n)
  \/ \E p \in Requests, n \in FeedNames : Resell(p, n) \/ RelistName(p, n)
  \/ \E n \in FeedNames : UndoResale(n)
  \/ \E p \in Workers : Command(p)
  \/ Listen \/ ReadNames \/ ReadItem \/ Snapshot \/ Forward \/ Update

FeedSpec == FeedInit /\ [][FeedNext]_feedVars

-----------------------------------------------------------------------------
Resting(n) == Busy(n) = {}
Exact(n) == n \notin sloppy.raced \cup sloppy.failed

\* An entry of a ranking has the metadata of its own listing, whichever jobs of
\* other names run meanwhile and whatever trims and re-listings went before
\* (redis.rs:575-604, 661-678: the ZADD and the SET, the ZREM and the DEL are
\* separate commands; a failed one, or a relist that overlaps an event of the
\* same name, breaks it).
EntriesMatchListings ==
  \A n \in FeedNames :
    Resting(n) /\ Exact(n) /\ zset[n] # NoItem
      => /\ meta[n] = zset[n]
         /\ listing[n] = IF ranking = "best" THEN zset[n]
                         ELSE [zset[n] EXCEPT !.discount = listing[n].discount]

\* "max 20 per ranking" (API.md:1142), however requests overlap (redis.rs:584-595
\* counts, and trims by that count, which may be stale by then: too many go, but
\* never the wrong ones): what is kept is newer than any listed name that is not,
\* unless it was added when that name was listed already.  (A restored resale
\* comes back with its old time; the request of a name may be slow.)
NewestAreKept ==
  ranking = "new" /\ sloppy.failed = {} /\ (\A p \in Workers : task[p].todo = <<>>) =>
    /\ Cardinality(Members(zset)) <= Keep
    /\ \A n \in Members(listing) \ (Members(zset) \cup resold \cup sloppy.raced) :
         \A m \in Members(zset) \ sloppy.late :
           zset[m].listed > listing[n].listed

\* The client has all that was broadcast.
Settled ==
  /\ reader.at = "live" /\ reader.heard /\ reader.queue = <<>> /\ reader.inbox = <<>>
  /\ \A p \in Workers : task[p].todo = <<>>

\* A client that subscribed before it read the snapshot, and was not too slow,
\* shows nothing removed and nothing old, whichever changes the snapshot and the
\* buffer both hold (ws.rs:157, 458; event.rs:707-765 writes the store before it
\* broadcasts).  A trim is not broadcast: an entry it took out is still shown,
\* as long as its listing stands.
FeedIsTrue ==
  Settled /\ ~ reader.lagged =>
    \A n \in Members(reader.list) :
      Exact(n) => \/ reader.list[n] = zset[n]
                  \/ /\ sloppy.trimmed /\ zset[n] = NoItem
                     /\ listing[n] # NoItem /\ n \notin resold
                     /\ reader.list[n].listed = listing[n].listed

\* And it shows all that the store has, as long as nothing was trimmed on
\* either side; a rejected resale's last broadcast (event.rs:561) removes a
\* name that the store keeps.
FeedIsWhole ==
  Settled /\ ~ reader.lagged /\ ~ reader.trimmed /\ ~ sloppy.trimmed =>
    \A n \in Members(zset) :
      Exact(n) /\ (ranking = "new" => n \notin sloppy.undone)
        => reader.list[n] = zset[n]
=============================================================================
