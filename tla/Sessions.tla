------------------------------ MODULE Sessions ------------------------------
(***************************************************************************)
(* Logins and sessions (service/auth.rs and the session operations of      *)
(* infra/redis.rs).  A login looks the user up in PostgreSQL, deletes the  *)
(* sessions it finds in the user's set, then stores its own session and    *)
(* adds it to the set: one statement or Redis command per step, nothing    *)
(* holding them together.  A login stands for the session it creates, whose *)
(* id is fresh.  Signatures, secrets and cookies are left out: a client     *)
(* that has a token presents the right one.                                *)
(***************************************************************************)
EXTENDS Integers, FiniteSets

CONSTANTS
  Users,                \* Bitcoin addresses
  NoUser,               \* null
  Logins,               \* login requests, and the sessions they create
  Ttl,                  \* session_ttl_secs, in ticks
  LoginMayFail,         \* may a command fail, or the server stop, in between?
  MaxNow                \* bound: ticks of the clock

ASSUME SessAssumption ==
  /\ Ttl \in Nat \ {0} /\ MaxNow \in Nat
  /\ LoginMayFail \in BOOLEAN
  /\ NoUser \notin Users

VARIABLES
  now,                  \* the clock
  userRows,             \* addresses with a row in users
  keys,                 \* the keys session:{id}
  index,                \* the sets user_sessions:{address}
  indexUntil,           \* when such a set expires
  login,                \* where each login stands, and its locals
  granted,              \* history: sessions whose token was handed out
  firsts,               \* history: logins told that the user is new
  loggedOut,            \* history: sessions whose logout succeeded
  raced,                \* history: logins that overlapped one of the same user
  spared                \* history: sessions a failed DEL left alive

sessStore == <<keys, index, indexUntil>>
sessHistory == <<granted, firsts, loggedOut, raced, spared>>
sessVars == <<now, userRows, sessStore, login, sessHistory>>

NoKey == [user |-> NoUser, expires |-> 0, until |-> 0]
\* A set to which SADD was applied and EXPIRE not yet; no clock reaches it.
Forever == MaxNow + Ttl + 1
Times == 0 .. Forever

\* SessionData, with the end of the key's own TTL.
SessionData == [user : Users, expires : Times, until : Times]

LoginSteps == {"idle", "insert", "find", "delete", "store", "index",
               "expire", "granted", "failed"}
InFlight == LoginSteps \ {"idle", "granted", "failed"}

IdleLogin == [at |-> "idle", user |-> NoUser, doomed |-> {}, born |-> 0]

\* Types, and that a key names the user whose login stored it (auth.rs).
SessTypeOK ==
  /\ now \in 0 .. MaxNow
  /\ userRows \subseteq Users
  /\ keys \in [Logins -> SessionData \cup {NoKey}]
  /\ index \in [Users -> SUBSET Logins]
  /\ indexUntil \in [Users -> Times]
  /\ login \in [Logins -> [at : LoginSteps, user : Users \cup {NoUser},
                           doomed : SUBSET Logins, born : 0 .. MaxNow]]
  /\ \A l \in Logins : login[l].at # "idle" => login[l].user \in Users
  /\ \A l \in Logins : keys[l] # NoKey => keys[l].user = login[l].user
  /\ granted \subseteq Logins
  /\ firsts \subseteq Logins /\ loggedOut \subseteq Logins
  /\ raced \subseteq Logins /\ spared \subseteq Logins

SessInit ==
  /\ now = 0
  /\ userRows = {}
  /\ keys = [s \in Logins |-> NoKey]
  /\ index = [u \in Users |-> {}]
  /\ indexUntil = [u \in Users |-> 0]
  /\ login = [l \in Logins |-> IdleLogin]
  /\ granted = {} /\ firsts = {} /\ loggedOut = {} /\ raced = {} /\ spared = {}

\* validate_session, of a client with the right secret.
Valid(s) == keys[s] # NoKey /\ keys[s].expires >= now

At(l, step) == login[l].at = step
Goto(l, step) == login' = [login EXCEPT ![l].at = step]
Rivals(l, u) == {m \in Logins : login[m].at \in InFlight /\ login[m].user = u} \ {l}

-----------------------------------------------------------------------------
(* authenticate, from the verified signature on. *)

\* find_or_create_user: SELECT, and for a known user UPDATE last_seen_at, which
\* nothing here depends on.
StartLogin(l, u) ==
  /\ At(l, "idle")
  /\ login' = [login EXCEPT ![l].user = u,
                            ![l].at = IF u \in userRows THEN "find" ELSE "insert"]
  /\ raced' = IF Rivals(l, u) = {} THEN raced ELSE raced \cup Rivals(l, u) \cup {l}
  /\ UNCHANGED <<now, userRows, sessStore, granted, firsts, loggedOut, spared>>

\* Mutant of InsertUser: the row may exist already (ON CONFLICT DO NOTHING).
InsertUserAgain(l) ==
  /\ At(l, "insert")
  /\ userRows' = userRows \cup {login[l].user}
  /\ firsts' = firsts \cup {l}
  /\ Goto(l, "find")
  /\ UNCHANGED <<now, sessStore, granted, loggedOut, raced, spared>>

\* INSERT: the primary key refuses a row that another login inserted meanwhile,
\* and the login fails.
InsertUser(l) ==
  LET u == login[l].user IN
    /\ At(l, "insert")
    /\ IF u \in userRows
       THEN UNCHANGED <<userRows, firsts>> /\ Goto(l, "failed")
       ELSE /\ userRows' = userRows \cup {u}
            /\ firsts' = firsts \cup {l}
            /\ Goto(l, "find")
    /\ UNCHANGED <<now, sessStore, granted, loggedOut, raced, spared>>

\* delete_user_sessions: SMEMBERS.
FindSessions(l) ==
  /\ At(l, "find")
  /\ login' = [login EXCEPT ![l] = [@ EXCEPT !.at = "delete",
                                             !.doomed = index[login[l].user]]]
  /\ UNCHANGED <<now, userRows, sessStore, sessHistory>>

\* DEL of one session; a failure is ignored.
DeleteSession(l) ==
  /\ At(l, "delete")
  /\ \E s \in login[l].doomed :
       /\ login' = [login EXCEPT ![l].doomed = @ \ {s}]
       /\ \/ keys' = [keys EXCEPT ![s] = NoKey] /\ UNCHANGED spared
          \/ LoginMayFail /\ UNCHANGED keys /\ spared' = spared \cup {s}
  /\ UNCHANGED <<now, userRows, index, indexUntil, granted, firsts,
                 loggedOut, raced>>

\* Mutant of DeleteIndex: the sessions found are not waited for.
DeleteIndexEarly(l) ==
  /\ At(l, "delete")
  /\ index' = [index EXCEPT ![login[l].user] = {}]
  /\ indexUntil' = [indexUntil EXCEPT ![login[l].user] = 0]
  /\ login' = [login EXCEPT ![l] = [@ EXCEPT !.at = "store", !.born = now]]
  /\ UNCHANGED <<now, userRows, keys, sessHistory>>

\* DEL of the set, after which create_session takes the time.
DeleteIndex(l) ==
  /\ At(l, "delete")
  /\ login[l].doomed = {}
  /\ index' = [index EXCEPT ![login[l].user] = {}]
  /\ indexUntil' = [indexUntil EXCEPT ![login[l].user] = 0]
  /\ login' = [login EXCEPT ![l] = [@ EXCEPT !.at = "store", !.born = now]]
  /\ UNCHANGED <<now, userRows, keys, sessHistory>>

\* Mutant of StoreSession: the lifetime is taken for the end of the lifetime.
StoreSessionExpired(l) ==
  /\ At(l, "store")
  /\ keys' = [keys EXCEPT ![l] = [user |-> login[l].user, expires |-> Ttl,
                                  until |-> Ttl]]
  /\ Goto(l, "index")
  /\ UNCHANGED <<now, userRows, index, indexUntil, sessHistory>>

\* create_session: set_session, SET EX.
StoreSession(l) ==
  /\ At(l, "store")
  /\ keys' = [keys EXCEPT ![l] = [user |-> login[l].user,
                                  expires |-> login[l].born + Ttl,
                                  until |-> now + Ttl]]
  /\ Goto(l, "index")
  /\ UNCHANGED <<now, userRows, index, indexUntil, sessHistory>>

\* add_user_session: SADD, which makes a new set without expiry if there is none.
AddToIndex(l) ==
  LET u == login[l].user IN
    /\ At(l, "index")
    /\ index' = [index EXCEPT ![u] = @ \cup {l}]
    /\ indexUntil' = [indexUntil EXCEPT ![u] = IF index[u] = {} THEN Forever ELSE @]
    /\ Goto(l, "expire")
    /\ UNCHANGED <<now, userRows, keys, sessHistory>>

\* Mutant of ExpireIndex: EXPIREAT, at the time the session itself names.
ExpireIndexAt(l) ==
  LET u == login[l].user IN
    /\ At(l, "expire")
    /\ indexUntil' = [indexUntil EXCEPT ![u] = IF index[u] = {} THEN @
                                              ELSE login[l].born + Ttl]
    /\ granted' = granted \cup {l}
    /\ Goto(l, "granted")
    /\ UNCHANGED <<now, userRows, keys, index, firsts, loggedOut, raced, spared>>

\* EXPIRE on the set, if it still exists, and the token is handed out.
ExpireIndex(l) ==
  LET u == login[l].user IN
    /\ At(l, "expire")
    /\ indexUntil' = [indexUntil EXCEPT ![u] = IF index[u] = {} THEN @ ELSE now + Ttl]
    /\ granted' = granted \cup {l}
    /\ Goto(l, "granted")
    /\ UNCHANGED <<now, userRows, keys, index, firsts, loggedOut, raced, spared>>

\* A statement or command fails, or the server stops: the login ends where it
\* stands.  (One that fails after its effect is the step followed by this.)
AbandonLogin(l) ==
  /\ LoginMayFail
  /\ login[l].at \in InFlight
  /\ Goto(l, "failed")
  /\ UNCHANGED <<now, userRows, sessStore, sessHistory>>

-----------------------------------------------------------------------------
(* logout, by a client that was given the token. *)

\* Mutant of Logout: the id is taken out of the user's set instead.
LogoutUnlist(s) ==
  /\ s \in granted \ loggedOut
  /\ index' = [index EXCEPT ![login[s].user] = @ \ {s}]
  /\ loggedOut' = loggedOut \cup {s}
  /\ UNCHANGED <<now, userRows, keys, indexUntil, login, granted, firsts, raced, spared>>

\* GET, which changes nothing, and DEL of the session if it is there; its id
\* stays in the user's set.  A logout that fails does so before the DEL.
Logout(s) ==
  /\ s \in granted \ loggedOut
  /\ keys' = [keys EXCEPT ![s] = NoKey]
  /\ loggedOut' = loggedOut \cup {s}
  /\ UNCHANGED <<now, userRows, index, indexUntil, login, granted, firsts, raced, spared>>

\* Time passes, and Redis drops the keys whose TTL has ended.
Tick ==
  /\ now < MaxNow
  /\ now' = now + 1
  /\ keys' = [s \in Logins |-> IF keys[s].until <= now' THEN NoKey ELSE keys[s]]
  /\ index' = [u \in Users |-> IF indexUntil[u] <= now' THEN {} ELSE index[u]]
  /\ indexUntil' = [u \in Users |-> IF indexUntil[u] <= now' THEN 0 ELSE indexUntil[u]]
  /\ UNCHANGED <<userRows, login, sessHistory>>

LoginStep(l) ==
  \/ InsertUser(l) \/ FindSessions(l) \/ DeleteSession(l)
  \/ DeleteIndex(l) \/ StoreSession(l) \/ AddToIndex(l) \/ ExpireIndex(l)
  \/ AbandonLogin(l)

SessNext ==
  \/ \E l \in Logins, u \in Users : StartLogin(l, u)
  \/ \E l \in Logins : LoginStep(l)
  \/ \E s \in Logins : Logout(s)
  \/ Tick

SessSpec == SessInit /\ [][SessNext]_sessVars

-----------------------------------------------------------------------------
\* "Re-login invalidates all previous sessions for the same address"
\* (API.md:256): of two tokens of one address at most one is valid.  It takes
\* that the two logins overlapped no other (auth.rs:115: each deletes only what
\* it finds, and deletes the set with what was added since) and that no DEL
\* failed (redis.rs:844 ignores it and forgets the session's id).
ReloginInvalidates ==
  \A s, t \in granted \ (raced \cup spared) :
    login[s].user = login[t].user /\ Valid(s) /\ Valid(t) => s = t

\* What makes the next login find it: a valid session is in the user's set, and
\* the set does not expire before it, also when a login that failed half-way
\* added to the set or deleted from it (auth.rs:219-227, redis.rs:812-828).
ValidAreIndexed ==
  \A s \in granted \ (raced \cup spared) :
    Valid(s) => /\ s \in index[login[s].user]
                /\ indexUntil[login[s].user] >= keys[s].until

\* The only login of an address stays valid for its whole lifetime, whatever
\* other users' logins and failures do (auth.rs:189-229, redis.rs:836-855).
OnlyLoginStays ==
  \A s \in granted \ loggedOut :
    (\A l \in Logins \ {s} : login[l].user # login[s].user)
      => (now >= login[s].born + Ttl \/ Valid(s))

\* A session whose logout was confirmed is never valid again (auth.rs:282-304).
LogoutIsFinal == \A s \in loggedOut : ~ Valid(s)

\* Of the concurrent first logins of an address one is told that the user is
\* new (auth.rs:129-186: the SELECT and the INSERT are two statements).
OneFirstLogin ==
  \A l, m \in firsts : login[l].user = login[m].user => l = m
=============================================================================
