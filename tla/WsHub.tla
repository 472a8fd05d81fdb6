-------------------------------- MODULE WsHub --------------------------------
(***************************************************************************)
(* The WebSocket connections (api/ws.rs): each has a task that reads its   *)
(* client's messages one at a time, a set of subscribed channels, one       *)
(* listener task per subscription, and is counted as online while it is     *)
(* subscribed to "user-self".  All connections share the counter            *)
(* online_users and the broadcast channel on which its changes are told;    *)
(* the change and the telling are two steps.                                *)
(***************************************************************************)
EXTENDS Integers, FiniteSets

CONSTANTS
  Conns,                \* connections
  Public,               \* channels that need no authentication
  MaxChanges            \* bound: changes of the online counter

ASSUME HubAssumption ==
  /\ IsFiniteSet(Conns)
  /\ "user-self" \notin Public
  /\ MaxChanges \in Nat

Channels == Public \cup {"user-self"}       \* VALID_CHANNELS

VARIABLES
  online,               \* online_users
  lastTold,             \* total_online of the last MarketOnlineUpdated
  conn,                 \* the locals of each connection's task
  changes,              \* changes of the counter so far, for the bound
  crossed               \* history: did two changes await telling at once?

hubVars == <<online, lastTold, conn, changes, crossed>>

\* "reading" awaits a message; "told" has changed the counter and will send;
\* "loaded" has read the counter and will compare and exchange.
ConnSteps == {"closed", "reading", "validating", "joining", "leaving", "loaded", "telling"}

\* user: is user_address known?  then: what the task does after the telling.
Closed == [at |-> "closed", subs |-> {}, listening |-> {}, user |-> FALSE,
           counted |-> FALSE, seen |-> 0, then |-> "none", broken |-> FALSE]

\* Types of a connection's locals (ws.rs handle_ws).
HubTypeOK ==
  /\ online \in Nat /\ lastTold \in Nat /\ changes \in Nat
  /\ crossed \in BOOLEAN
  /\ conn \in [Conns -> [at : ConnSteps, subs : SUBSET Channels,
                         listening : SUBSET Channels, user : BOOLEAN,
                         counted : BOOLEAN, seen : Nat,
                         then : {"none", "join", "leave", "close"},
                         broken : BOOLEAN]]

HubInit ==
  /\ online = 0 /\ lastTold = 0
  /\ conn = [c \in Conns |-> Closed]
  /\ changes = 0
  /\ crossed = FALSE

Is(c, step) == conn[c].at = step
\* Connections that have changed the counter and not told it.
Telling == {c \in Conns : Is(c, "telling")}
\* Connections that have still to take themselves off the counter.
Leaving == {c \in Conns : conn[c].at \in {"leaving", "loaded"}}

\* The counter is changed, and its new value is to be told by c.
Changed(c, total, locals) ==
  /\ online' = total
  /\ changes' = changes + 1
  /\ crossed' = (crossed \/ Telling \ {c} # {})
  /\ conn' = [conn EXCEPT ![c] = [locals EXCEPT !.at = "telling", !.seen = total]]
  /\ UNCHANGED lastTold

\* Only the task of c takes a step of its own.
Local(c, locals) ==
  /\ conn' = [conn EXCEPT ![c] = locals]
  /\ UNCHANGED <<online, lastTold, changes, crossed>>

\* The subscription is entered and its listener started: no await in between
\* that another message of the same client could use.
Listening(locals, ch) ==
  [locals EXCEPT !.subs = @ \cup {ch}, !.listening = @ \cup {ch}]

-----------------------------------------------------------------------------
Open(c) ==
  /\ Is(c, "closed")
  /\ Local(c, [Closed EXCEPT !.at = "reading"])

\* subscribe to a public channel; to one already subscribed is refused.
Subscribe(c, ch) ==
  /\ Is(c, "reading")
  /\ ch \in Public \ conn[c].subs
  /\ Local(c, Listening(conn[c], ch))

\* subscribe to "user-self": a connection whose user is known needs no token,
\* also after it unsubscribed or the session ended.
SubscribeSelf(c) ==
  /\ Is(c, "reading")
  /\ "user-self" \notin conn[c].subs
  /\ changes < MaxChanges
  /\ Local(c, [conn[c] EXCEPT !.at = IF conn[c].user THEN "joining" ELSE "validating"])

\* validate_session answers; without a valid session the client is refused.
Validated(c) ==
  /\ Is(c, "validating")
  /\ \/ Local(c, [conn[c] EXCEPT !.at = "joining", !.user = TRUE])
     \/ Local(c, [conn[c] EXCEPT !.at = "reading"])

\* fetch_add, once per connection.
Join(c) ==
  /\ Is(c, "joining")
  /\ ~ conn[c].counted
  /\ Changed(c, online + 1, [conn[c] EXCEPT !.counted = TRUE, !.then = "join"])

\* Mutant of Unsubscribe: the listener of a public channel is not stopped.
UnsubscribeKeepsListener(c, ch) ==
  /\ Is(c, "reading")
  /\ IF ch = "user-self" /\ conn[c].counted
     THEN Local(c, [conn[c] EXCEPT !.subs = @ \ {ch}, !.counted = FALSE,
                                   !.at = "leaving", !.then = "leave"])
     ELSE Local(c, [conn[c] EXCEPT !.subs = @ \ {ch}])

\* unsubscribe, from any channel, subscribed or not: a connection that is
\* counted goes off the counter first.
Unsubscribe(c, ch) ==
  /\ Is(c, "reading")
  /\ IF ch = "user-self" /\ conn[c].counted
     THEN Local(c, [conn[c] EXCEPT !.subs = @ \ {ch}, !.counted = FALSE,
                                   !.at = "leaving", !.then = "leave"])
     ELSE Local(c, [conn[c] EXCEPT !.subs = @ \ {ch}, !.listening = @ \ {ch}])

\* decrement_online_users: load ...
LoadOnline(c) ==
  /\ Is(c, "leaving")
  /\ Local(c, [conn[c] EXCEPT !.at = "loaded", !.seen = online])

\* Mutant of SwapOnline: a store where the code compares and exchanges.
StoreOnline(c) ==
  /\ Is(c, "loaded")
  /\ Changed(c, IF conn[c].seen = 0 THEN 0 ELSE conn[c].seen - 1, conn[c])

\* ... and compare_exchange, again with the value it returned until it fits.
SwapOnline(c) ==
  /\ Is(c, "loaded")
  /\ IF online = conn[c].seen
     THEN Changed(c, IF online = 0 THEN 0 ELSE online - 1, conn[c])
     ELSE Local(c, [conn[c] EXCEPT !.seen = online])

\* Mutant of Tell: a connection that closes tells nobody.
TellUnlessClosing(c) ==
  LET k == [conn[c] EXCEPT !.at = "reading", !.then = "none"] IN
    /\ Is(c, "telling")
    /\ lastTold' = IF conn[c].then = "close" THEN lastTold ELSE conn[c].seen
    /\ conn' = [conn EXCEPT ![c] =
         CASE conn[c].then = "join"  -> Listening(k, "user-self")
           [] conn[c].then = "leave" -> [k EXCEPT !.listening = @ \ {"user-self"}]
           [] OTHER                  -> Closed]
    /\ UNCHANGED <<online, changes, crossed>>

\* MarketOnlineUpdated is sent with the total of c's own change, and the rest
\* of the message is handled: subscribe, unsubscribe, or the end of the task.
Tell(c) ==
  LET k == [conn[c] EXCEPT !.at = "reading", !.then = "none"] IN
    /\ Is(c, "telling")
    /\ lastTold' = conn[c].seen
    /\ conn' = [conn EXCEPT ![c] =
         CASE conn[c].then = "join"  -> Listening(k, "user-self")
           [] conn[c].then = "leave" -> [k EXCEPT !.listening = @ \ {"user-self"}]
           [] OTHER                  -> Closed]
    /\ UNCHANGED <<online, changes, crossed>>

\* The socket breaks; a listener whose send fails ends, its subscription stays.
Break(c) ==
  /\ ~ Is(c, "closed")
  /\ ~ conn[c].broken
  /\ Local(c, [conn[c] EXCEPT !.broken = TRUE])

ListenerEnds(c, ch) ==
  /\ conn[c].broken
  /\ ch \in conn[c].listening
  /\ Local(c, [conn[c] EXCEPT !.listening = @ \ {ch}])

\* The client closes, or the read fails: the listeners are stopped, and a
\* connection that is counted goes off the counter.
Close(c) ==
  /\ Is(c, "reading")
  /\ IF conn[c].counted
     THEN Local(c, [conn[c] EXCEPT !.listening = {}, !.counted = FALSE,
                                   !.at = "leaving", !.then = "close"])
     ELSE Local(c, Closed)

ConnStep(c) ==
  \/ Validated(c) \/ Join(c) \/ LoadOnline(c) \/ SwapOnline(c) \/ Tell(c)
  \/ Break(c) \/ Close(c)

HubNext ==
  \/ \E c \in Conns : Open(c) \/ SubscribeSelf(c) \/ ConnStep(c)
  \/ \E c \in Conns, ch \in Public : Subscribe(c, ch)
  \/ \E c \in Conns, ch \in Channels : Unsubscribe(c, ch) \/ ListenerEnds(c, ch)

HubSpec == HubInit /\ [][HubNext]_hubVars

-----------------------------------------------------------------------------
\* online_users is the number of connections subscribed to "user-self", up to
\* those on their way out: no close, break or repeated unsubscribe loses or
\* repeats a decrement, concurrent ones do not overwrite each other, and the
\* saturating subtraction never has to saturate (ws.rs:135, 190, 239, 470).
OnlineIsExact ==
  online = Cardinality({c \in Conns : conn[c].counted} \cup Leaving)

\* A connection that awaits its next message is counted exactly if it is
\* subscribed to "user-self", and listens to what it is subscribed to unless
\* its socket is broken (ws.rs:135-172, 184-207, 233-244).
SubscribedListens ==
  \A c \in Conns : Is(c, "reading") =>
    /\ conn[c].counted <=> "user-self" \in conn[c].subs
    /\ conn[c].listening \subseteq conn[c].subs
    /\ ~ conn[c].broken => conn[c].listening = conn[c].subs

\* The total last sent to the "market-stats" subscribers is the counter, once
\* it was told and unless two changes were under way at the same time, whose
\* totals may be sent in the wrong order (ws.rs:137-141, 192-195, 240-243).
LastTotalIsCurrent == ~ crossed /\ Telling = {} => lastTold = online
=============================================================================
