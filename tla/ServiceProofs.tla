--------------------------- MODULE ServiceProofs ---------------------------
(***************************************************************************)
(* Theorems about the services around the market: logins and sessions, for  *)
(* any users, any number of logins and logouts at once, any lifetime,       *)
(* whether or not commands fail; WebSocket connections, for any number of   *)
(* them, any public channels and any number of changes of the counter; the  *)
(* token cache, the pool addresses and the shout outs.                      *)
(***************************************************************************)
EXTENDS MCServices, FiniteSetTheorems, SequenceTheorems, TLAPS

-----------------------------------------------------------------------------
(* Sessions. *)

\* Two requests of one user.
SameUser(l, m) == login[l].user = login[m].user
Stored == {"expire", "granted", "failed"}
\* The sessions that the properties are about, and that are still there.
Clean == granted \ (raced \cup spared)
Alive(s) == keys[s] # NoKey
Solo(s) == \A l \in Logins \ {s} : ~ SameUser(l, s)

LoginType == [at : LoginSteps, user : Users \cup {NoUser}, doomed : SUBSET Logins,
              born : 0 .. MaxNow]

GrantedRest ==
  /\ \A s \in granted : At(s, "granted")
  /\ loggedOut \subseteq granted
  /\ \A s \in loggedOut : ~ Alive(s)
FirstsInserted ==
  /\ \A l \in Logins : At(l, "idle") => login[l].user = NoUser
  /\ \A l \in firsts : login[l].at # "idle" /\ login[l].user \in userRows
\* Logins of one user that are under way together are known as such.
OverlapsKnown ==
  \A l, m \in Logins :
    l # m /\ login[l].at \in InFlight /\ login[m].at \in InFlight /\ SameUser(l, m)
      => l \in raced
TimesBounded ==
  \A s \in Logins : /\ keys[s].until <= now + Ttl
                    /\ login[s].born <= now
\* What a set and a deletion name are sessions of their user.
IndexNamesOwn ==
  /\ \A u \in Users : \A s \in index[u] : login[s].user = u /\ login[s].at \in Stored
  /\ \A l \in Logins : \A s \in login[l].doomed :
       SameUser(l, s) /\ login[s].at \in Stored
  /\ \A l \in Logins : login[l].at \in {"idle", "insert", "find"} => login[l].doomed = {}
\* A login that no other overlaps has the set for itself until it is done.
SetIsOwn ==
  \A s \in Logins \ raced :
    /\ login[s].at \in {"store", "index"} => index[login[s].user] = {}
    /\ At(s, "expire") => /\ s \in index[login[s].user]
                          /\ indexUntil[login[s].user] = Forever
Indexed ==
  \A s \in Clean : Alive(s) =>
    s \in index[login[s].user] /\ indexUntil[login[s].user] >= keys[s].until
\* A login that deletes has found what is there, and one past that has deleted it.
FoundAll ==
  \A l \in Logins, s \in Clean :
    At(l, "delete") /\ SameUser(l, s) /\ Alive(s) => s \in login[l].doomed
ClearedAll ==
  \A l \in Logins \ raced, s \in Clean :
    login[l].at \in {"store", "index", "expire"} /\ SameUser(l, s) => ~ Alive(s)
AtMostOne ==
  \A s, t \in Clean : SameUser(s, t) /\ Alive(s) /\ Alive(t) => s = t
\* The session of a user without other logins lives as long as it says.
SoloLives ==
  \A s \in Logins \ loggedOut :
    login[s].at \in {"index", "expire", "granted"} /\ Solo(s) =>
      \/ now >= login[s].born + Ttl
      \/ /\ Alive(s) /\ keys[s].expires = login[s].born + Ttl
         /\ keys[s].until >= login[s].born + Ttl

SessIInv ==
  /\ SessTypeOK
  /\ GrantedRest
  /\ FirstsInserted
  /\ OneFirstLogin
  /\ OverlapsKnown
  /\ TimesBounded
  /\ IndexNamesOwn
  /\ SetIsOwn
  /\ Indexed
  /\ FoundAll
  /\ ClearedAll
  /\ AtMostOne
  /\ SoloLives

-----------------------------------------------------------------------------
LEMMA SessInitInv == SessInit => SessIInv
  <1> SUFFICES ASSUME SessInit
               PROVE  SessIInv
    OBVIOUS
  <1> USE SessAssumption DEF SessInit, IdleLogin
  <1>1. SessTypeOK
    BY DEF SessTypeOK, LoginSteps, Times, Forever
  <1>2. GrantedRest /\ FirstsInserted /\ OneFirstLogin /\ OverlapsKnown
    BY DEF GrantedRest, FirstsInserted, OneFirstLogin, OverlapsKnown, InFlight, LoginSteps
  <1>3. TimesBounded
    BY DEF TimesBounded, NoKey
  <1>4. IndexNamesOwn /\ SetIsOwn
    BY DEF IndexNamesOwn, SetIsOwn, At
  <1>5. Indexed /\ FoundAll /\ ClearedAll /\ AtMostOne
    BY DEF Indexed, FoundAll, ClearedAll, AtMostOne, Clean
  <1>6. SoloLives
    BY DEF SoloLives
  <1> QED
    BY <1>1, <1>2, <1>3, <1>4, <1>5, <1>6 DEF SessIInv

LEMMA StartLoginInv ==
  ASSUME SessIInv, NEW l \in Logins, NEW u \in Users, StartLogin(l, u)
  PROVE  SessIInv'
  <1> USE SessAssumption DEF SessIInv
  <1>1. /\ login[l].at = "idle" /\ login'[l].at \in {"insert", "find"}
        /\ login'[l].user = u /\ login'[l].doomed = login[l].doomed
        /\ login'[l].born = login[l].born
        /\ \A m \in Logins \ {l} : login'[m] = login[m]
        /\ UNCHANGED <<now, userRows, keys, index, indexUntil, granted, firsts,
                       loggedOut, spared>>
        /\ raced \subseteq raced'
    BY DEF StartLogin, At, SessTypeOK, sessStore
  <1>2. SessTypeOK'
    BY DEF StartLogin, At, SessTypeOK, sessStore, LoginSteps, Rivals
  <1>3. GrantedRest' /\ FirstsInserted'
    BY <1>1 DEF GrantedRest, FirstsInserted, At, Alive, SessTypeOK
  <1>4. OneFirstLogin'
    BY <1>1 DEF OneFirstLogin, FirstsInserted, SessTypeOK
  <1>5. OverlapsKnown'
    BY <1>1 DEF OverlapsKnown, StartLogin, Rivals, SameUser, InFlight, LoginSteps, SessTypeOK
  <1>6. TimesBounded'
    BY <1>1 DEF TimesBounded
  <1>7. IndexNamesOwn'
    <2>1. \A s \in Logins : login[s].at \in Stored => login'[s] = login[s]
      BY <1>1 DEF Stored
    <2> QED
      BY <1>1, <2>1 DEF IndexNamesOwn, SameUser, SessTypeOK
  <1>8. SetIsOwn'
    BY <1>1 DEF SetIsOwn, At
  <1>9. Clean' \subseteq Clean /\ l \notin Clean
    BY <1>1 DEF Clean, GrantedRest, At
  <1>10. Indexed' /\ FoundAll' /\ ClearedAll' /\ AtMostOne'
    <2>1. \A s \in Clean' : login'[s] = login[s] /\ s \in Logins
      BY <1>1, <1>9 DEF Clean, SessTypeOK
    <2>2. Indexed' /\ AtMostOne'
      BY <1>1, <1>9, <2>1 DEF Indexed, AtMostOne, SameUser, Alive
    <2>3. FoundAll'
      BY <1>1, <1>9, <2>1 DEF FoundAll, SameUser, Alive, At
    <2>4. ClearedAll'
      BY <1>1, <1>9, <2>1 DEF ClearedAll, SameUser, Alive
    <2> QED
      BY <2>2, <2>3, <2>4
  <1>11. SoloLives'
    <2> SUFFICES ASSUME NEW s \in Logins \ loggedOut, Solo(s)',
                        login'[s].at \in {"index", "expire", "granted"}
                 PROVE  Solo(s) /\ login[s].at \in {"index", "expire", "granted"} /\ s # l
      BY <1>1 DEF SoloLives, Alive
    <2>1. s # l /\ login'[s] = login[s]
      BY <1>1
    <2>2. login[s].user # NoUser
      BY <2>1 DEF SessTypeOK
    <2>3. login[l].user = NoUser
      BY <1>1 DEF FirstsInserted, At
    <2> QED
      BY <1>1, <2>1, <2>2, <2>3 DEF Solo, SameUser
  <1> QED
    BY <1>2, <1>3, <1>4, <1>5, <1>6, <1>7, <1>8, <1>10, <1>11

\* A step of a login that leaves keys, sets and histories alone, and stays
\* before the deletion.
LEMMA InsertUserInv ==
  ASSUME SessIInv, NEW l \in Logins, InsertUser(l)
  PROVE  SessIInv'
  <1> USE SessAssumption DEF SessIInv
  <1>1. /\ login[l].at = "insert" /\ login'[l].at \in {"find", "failed"}
        /\ login'[l].user = login[l].user /\ login'[l].doomed = login[l].doomed
        /\ login'[l].born = login[l].born
        /\ \A m \in Logins \ {l} : login'[m] = login[m]
        /\ UNCHANGED <<now, keys, index, indexUntil, granted, loggedOut, raced, spared>>
        /\ \/ UNCHANGED <<userRows, firsts>>
           \/ /\ login[l].user \notin userRows
              /\ userRows' = userRows \cup {login[l].user}
              /\ firsts' = firsts \cup {l}
    BY DEF InsertUser, At, Goto, SessTypeOK, sessStore
  <1>2. SessTypeOK'
    <2>1. login' \in [Logins -> LoginType]
      BY DEF InsertUser, Goto, SessTypeOK, LoginType, LoginSteps
    <2>2. userRows' \subseteq Users /\ firsts' \subseteq Logins
      BY <1>1 DEF SessTypeOK
    <2> QED
      BY <1>1, <2>1, <2>2 DEF SessTypeOK, LoginType
  <1>3. GrantedRest' /\ FirstsInserted'
    BY <1>1 DEF GrantedRest, FirstsInserted, At, Alive, SessTypeOK
  <1>4. OneFirstLogin'
    BY <1>1 DEF OneFirstLogin, FirstsInserted, SessTypeOK
  <1>5. OverlapsKnown'
    BY <1>1 DEF OverlapsKnown, SameUser, InFlight, LoginSteps
  <1>6. TimesBounded'
    BY <1>1 DEF TimesBounded
  <1>7. IndexNamesOwn'
    <2>1. \A s \in Logins : login[s].at \in Stored => login'[s] = login[s]
      BY <1>1 DEF Stored
    <2> QED
      BY <1>1, <2>1 DEF IndexNamesOwn, SameUser, SessTypeOK
  <1>8. SetIsOwn'
    BY <1>1 DEF SetIsOwn, At
  <1>9. Clean' = Clean /\ l \notin Clean
    BY <1>1 DEF Clean, GrantedRest, At
  <1>10. Indexed' /\ FoundAll' /\ ClearedAll' /\ AtMostOne'
    <2>1. \A s \in Clean' : login'[s] = login[s] /\ s \in Logins
      BY <1>1, <1>9 DEF Clean, SessTypeOK
    <2>2. Indexed' /\ AtMostOne'
      BY <1>1, <1>9, <2>1 DEF Indexed, AtMostOne, SameUser, Alive
    <2>3. FoundAll'
      BY <1>1, <1>9, <2>1 DEF FoundAll, SameUser, Alive, At
    <2>4. ClearedAll'
      BY <1>1, <1>9, <2>1 DEF ClearedAll, SameUser, Alive
    <2> QED
      BY <2>2, <2>3, <2>4
  <1>11. SoloLives'
    BY <1>1 DEF SoloLives, Solo, SameUser, Alive
  <1> QED
    BY <1>2, <1>3, <1>4, <1>5, <1>6, <1>7, <1>8, <1>10, <1>11

LEMMA TypedFind ==
  ASSUME login \in [Logins -> LoginType], NEW l \in Logins, NEW d \in SUBSET Logins
  PROVE  [login EXCEPT ![l] = [@ EXCEPT !.at = "delete", !.doomed = d]] \in [Logins -> LoginType]
  <1>0. login[l] \in LoginType /\ "delete" \in LoginSteps
    BY DEF LoginSteps
  <1>1. [login[l] EXCEPT !.at = "delete", !.doomed = d] \in LoginType
    BY <1>0 DEF LoginType
  <1> QED
    BY <1>1

LEMMA TypedStore ==
  ASSUME login \in [Logins -> LoginType], NEW l \in Logins, NEW b \in 0 .. MaxNow
  PROVE  [login EXCEPT ![l] = [@ EXCEPT !.at = "store", !.born = b]] \in [Logins -> LoginType]
  <1>0. login[l] \in LoginType /\ "store" \in LoginSteps
    BY DEF LoginSteps
  <1>1. [login[l] EXCEPT !.at = "store", !.born = b] \in LoginType
    BY <1>0 DEF LoginType
  <1> QED
    BY <1>1

LEMMA FindSessionsInv ==
  ASSUME SessIInv, NEW l \in Logins, FindSessions(l)
  PROVE  SessIInv'
  <1> USE SessAssumption DEF SessIInv
  <1>1. /\ login[l].at = "find" /\ login'[l].at = "delete"
        /\ login'[l].user = login[l].user /\ login'[l].doomed = index[login[l].user]
        /\ login'[l].born = login[l].born /\ login[l].user \in Users
        /\ \A m \in Logins \ {l} : login'[m] = login[m]
        /\ UNCHANGED <<now, userRows, keys, index, indexUntil, granted, firsts,
                       loggedOut, raced, spared>>
    BY DEF FindSessions, At, SessTypeOK, sessStore, sessHistory
  <1>2. SessTypeOK'
    <2>1. login' \in [Logins -> LoginType]
      <3>1. login \in [Logins -> LoginType] /\ index[login[l].user] \in SUBSET Logins
        BY <1>1 DEF SessTypeOK, LoginType
      <3> QED
        BY <3>1, TypedFind DEF FindSessions
    <2> QED
      BY <1>1, <2>1 DEF SessTypeOK, LoginType
  <1>3. GrantedRest' /\ FirstsInserted' /\ OneFirstLogin'
    BY <1>1 DEF GrantedRest, FirstsInserted, OneFirstLogin, At, Alive, SessTypeOK
  <1>5. OverlapsKnown'
    BY <1>1 DEF OverlapsKnown, SameUser, InFlight, LoginSteps
  <1>6. TimesBounded'
    BY <1>1 DEF TimesBounded
  <1>7. IndexNamesOwn'
    <2>1. \A s \in Logins : login[s].at \in Stored => login'[s] = login[s]
      BY <1>1 DEF Stored
    <2> QED
      BY <1>1, <2>1 DEF IndexNamesOwn, SameUser, SessTypeOK
  <1>8. SetIsOwn'
    BY <1>1 DEF SetIsOwn, At
  <1>9. Clean' = Clean /\ l \notin Clean
    BY <1>1 DEF Clean, GrantedRest, At
  <1>10. Indexed' /\ FoundAll' /\ ClearedAll' /\ AtMostOne'
    <2>1. \A s \in Clean' : login'[s] = login[s] /\ s \in Logins
      BY <1>1, <1>9 DEF Clean, SessTypeOK
    <2>2. Indexed' /\ AtMostOne'
      BY <1>1, <1>9, <2>1 DEF Indexed, AtMostOne, SameUser, Alive
    <2>3. FoundAll'
      BY <1>1, <1>9, <2>1 DEF FoundAll, Indexed, SameUser, Alive, At
    <2>4. ClearedAll'
      BY <1>1, <1>9, <2>1 DEF ClearedAll, SameUser, Alive
    <2> QED
      BY <2>2, <2>3, <2>4
  <1>11. SoloLives'
    BY <1>1 DEF SoloLives, Solo, SameUser, Alive
  <1> QED
    BY <1>2, <1>3, <1>5, <1>6, <1>7, <1>8, <1>10, <1>11

LEMMA DeleteSessionInv ==
  ASSUME SessIInv, NEW l \in Logins, DeleteSession(l)
  PROVE  SessIInv'
  <1> USE SessAssumption DEF SessIInv
  <1>0. PICK x \in login[l].doomed :
          /\ login' = [login EXCEPT ![l].doomed = @ \ {x}]
          /\ \/ keys' = [keys EXCEPT ![x] = NoKey] /\ UNCHANGED spared
             \/ UNCHANGED keys /\ spared' = spared \cup {x}
    BY DEF DeleteSession
  <1>1. /\ login[l].at = "delete" /\ login'[l].at = "delete"
        /\ login'[l].user = login[l].user /\ login'[l].doomed = login[l].doomed \ {x}
        /\ login'[l].born = login[l].born
        /\ x \in Logins /\ SameUser(l, x) /\ x # l
        /\ \A m \in Logins \ {l} : login'[m] = login[m]
        /\ UNCHANGED <<now, userRows, index, indexUntil, granted, firsts,
                       loggedOut, raced>>
    BY <1>0 DEF DeleteSession, At, SessTypeOK, IndexNamesOwn, Stored
  <1>2. /\ \A s \in Logins \ {x} : keys'[s] = keys[s]
        /\ \/ keys'[x] = keys[x] /\ x \in spared'
           \/ keys'[x] = NoKey
        /\ spared \subseteq spared'
        /\ \A s \in Logins : Alive(s)' => keys'[s] = keys[s]
    BY <1>0, <1>1 DEF SessTypeOK, Alive
  <1>3. SessTypeOK'
    <2>1. login' \in [Logins -> LoginType]
      BY <1>0 DEF SessTypeOK, LoginType
    <2>2. keys' \in [Logins -> SessionData \cup {NoKey}] /\ spared' \subseteq Logins
      BY <1>0, <1>1 DEF SessTypeOK
    <2>3. \A m \in Logins : /\ keys'[m] # NoKey => keys'[m].user = login'[m].user
                            /\ login'[m].at # "idle" => login'[m].user \in Users
      BY <1>1, <1>2 DEF SessTypeOK, Alive
    <2> QED
      BY <1>1, <2>1, <2>2, <2>3 DEF SessTypeOK, LoginType
  <1>4. GrantedRest' /\ FirstsInserted' /\ OneFirstLogin'
    <2>1. GrantedRest'
      BY <1>1, <1>2 DEF GrantedRest, At, Alive, SessTypeOK
    <2>2. FirstsInserted' /\ OneFirstLogin'
      BY <1>1 DEF FirstsInserted, OneFirstLogin, At, SessTypeOK
    <2> QED
      BY <2>1, <2>2
  <1>5. OverlapsKnown'
    BY <1>1 DEF OverlapsKnown, SameUser
  <1>6. TimesBounded'
    <2>1. now \in Nat /\ NoKey.until = 0
      BY DEF SessTypeOK, NoKey
    <2> QED
      BY <1>1, <1>2, <2>1 DEF TimesBounded
  <1>7. IndexNamesOwn'
    <2>1. \A m \in Logins : /\ login'[m].user = login[m].user /\ login'[m].at = login[m].at
                            /\ login'[m].doomed \subseteq login[m].doomed
      BY <1>1
    <2> QED
      BY <1>1, <2>1 DEF IndexNamesOwn, SameUser, SessTypeOK
  <1>8. SetIsOwn'
    BY <1>1 DEF SetIsOwn, At
  <1>9. /\ Clean' \subseteq Clean
        /\ \A s \in Clean' : s \in Logins /\ s # l /\ login'[s] = login[s]
                             /\ (Alive(s)' => Alive(s) /\ keys'[s] = keys[s] /\ s # x)
    BY <1>1, <1>2 DEF Clean, GrantedRest, At, Alive, SessTypeOK
  <1>10. Indexed' /\ FoundAll' /\ ClearedAll' /\ AtMostOne'
    <2>2. Indexed' /\ AtMostOne'
      BY <1>1, <1>9 DEF Indexed, AtMostOne, SameUser
    <2>3. FoundAll'
      BY <1>1, <1>9 DEF FoundAll, SameUser, At
    <2>4. ClearedAll'
      BY <1>1, <1>9 DEF ClearedAll, SameUser
    <2> QED
      BY <2>2, <2>3, <2>4
  <1>11. SoloLives'
    <2>1. \A s \in Logins : Solo(s)' => Solo(s) /\ s # x
      BY <1>1 DEF Solo, SameUser
    <2> QED
      BY <1>1, <1>2, <2>1 DEF SoloLives, Alive
  <1> QED
    BY <1>3, <1>4, <1>5, <1>6, <1>7, <1>8, <1>10, <1>11

LEMMA DeleteIndexInv ==
  ASSUME SessIInv, NEW l \in Logins, DeleteIndex(l)
  PROVE  SessIInv'
  <1> USE SessAssumption DEF SessIInv
  <1> DEFINE u == login[l].user
  <1>1. /\ login[l].at = "delete" /\ login'[l].at = "store" /\ login[l].doomed = {}
        /\ login'[l].user = u /\ login'[l].doomed = {}
        /\ login'[l].born = now /\ u \in Users
        /\ \A m \in Logins \ {l} : login'[m] = login[m]
        /\ index'[u] = {} /\ indexUntil'[u] = 0
        /\ \A v \in Users \ {u} : index'[v] = index[v] /\ indexUntil'[v] = indexUntil[v]
        /\ UNCHANGED <<now, userRows, keys, granted, firsts, loggedOut, raced, spared>>
    BY DEF DeleteIndex, At, SessTypeOK, sessHistory
  <1>2. SessTypeOK'
    <2>1. login' \in [Logins -> LoginType]
      <3>1. login \in [Logins -> LoginType] /\ now \in 0 .. MaxNow
        BY DEF SessTypeOK, LoginType
      <3> QED
        BY <3>1, TypedStore DEF DeleteIndex
    <2>2. /\ index' \in [Users -> SUBSET Logins]
          /\ indexUntil' \in [Users -> Times]
      <3>1. 0 \in Times
        BY DEF Times, Forever
      <3> QED
        BY <3>1 DEF DeleteIndex, SessTypeOK
    <2> QED
      BY <1>1, <2>1, <2>2 DEF SessTypeOK, LoginType
  <1>3. GrantedRest' /\ FirstsInserted' /\ OneFirstLogin'
    BY <1>1 DEF GrantedRest, FirstsInserted, OneFirstLogin, At, Alive, SessTypeOK
  <1>5. OverlapsKnown'
    BY <1>1 DEF OverlapsKnown, SameUser, InFlight, LoginSteps
  <1>6. TimesBounded'
    BY <1>1 DEF TimesBounded, SessTypeOK
  <1>7. IndexNamesOwn'
    <2>1. \A s \in Logins : login[s].at \in Stored => login'[s] = login[s]
      BY <1>1 DEF Stored
    <2> QED
      BY <1>1, <2>1 DEF IndexNamesOwn, SameUser, SessTypeOK
  <1>8. SetIsOwn'
    <2> SUFFICES ASSUME NEW s \in Logins \ raced
                 PROVE  /\ login'[s].at \in {"store", "index"} => index'[login'[s].user] = {}
                        /\ At(s, "expire")' => /\ s \in index'[login'[s].user]
                                               /\ indexUntil'[login'[s].user] = Forever
      BY <1>1 DEF SetIsOwn
    <2>1. CASE s = l
      BY <1>1, <2>1 DEF At
    <2>2. CASE s # l /\ login[s].user = u
      BY <1>1, <2>2 DEF OverlapsKnown, InFlight, LoginSteps, SameUser, At
    <2>3. CASE s # l /\ login[s].user # u
      BY <1>1, <2>3 DEF SetIsOwn, At, SessTypeOK
    <2> QED
      BY <2>1, <2>2, <2>3
  <1>9. /\ Clean' = Clean
        /\ \A s \in Clean : s \in Logins /\ s # l /\ login'[s] = login[s] /\ login[s].user \in Users
        /\ \A s \in Clean : Alive(s) => login[s].user # u
    BY <1>1 DEF Clean, GrantedRest, At, SessTypeOK, FoundAll, SameUser
  <1>10. Indexed' /\ FoundAll' /\ ClearedAll' /\ AtMostOne'
    <2>2. Indexed' /\ AtMostOne'
      BY <1>1, <1>9 DEF Indexed, AtMostOne, SameUser, Alive
    <2>3. FoundAll'
      BY <1>1, <1>9 DEF FoundAll, SameUser, At, Alive
    <2>4. ClearedAll'
      BY <1>1, <1>9 DEF ClearedAll, SameUser, Alive
    <2> QED
      BY <2>2, <2>3, <2>4
  <1>11. SoloLives'
    BY <1>1 DEF SoloLives, Solo, SameUser, Alive
  <1> QED
    BY <1>2, <1>3, <1>5, <1>6, <1>7, <1>8, <1>10, <1>11

LEMMA TypedGoto ==
  ASSUME login \in [Logins -> LoginType], NEW l \in Logins, NEW step \in LoginSteps
  PROVE  [login EXCEPT ![l].at = step] \in [Logins -> LoginType]
  <1>0. login[l] \in LoginType
    OBVIOUS
  <1>1. [login[l] EXCEPT !.at = step] \in LoginType
    BY <1>0 DEF LoginType
  <1> QED
    BY <1>1

LEMMA StoreSessionInv ==
  ASSUME SessIInv, NEW l \in Logins, StoreSession(l)
  PROVE  SessIInv'
  <1> USE SessAssumption DEF SessIInv
  <1>1. /\ login[l].at = "store" /\ login'[l].at = "index"
        /\ login'[l].user = login[l].user /\ login'[l].doomed = login[l].doomed
        /\ login'[l].born = login[l].born /\ login[l].user \in Users
        /\ login[l].born \in 0 .. MaxNow /\ now \in 0 .. MaxNow
        /\ \A m \in Logins \ {l} : login'[m] = login[m]
        /\ UNCHANGED <<now, userRows, index, indexUntil, granted, firsts,
                       loggedOut, raced, spared>>
    BY DEF StoreSession, At, Goto, SessTypeOK, sessHistory
  <1> DEFINE k == [user |-> login[l].user, expires |-> login[l].born + Ttl,
                   until |-> now + Ttl]
  <1>2. /\ keys'[l] = k /\ keys' = [keys EXCEPT ![l] = k]
        /\ \A s \in Logins \ {l} : keys'[s] = keys[s]
    BY DEF StoreSession, SessTypeOK
  <1>k. /\ k \in SessionData /\ k.user = login[l].user
        /\ k.expires = login[l].born + Ttl /\ k.until = now + Ttl /\ k # NoKey
    <2>1. login[l].born + Ttl \in Times /\ now + Ttl \in Times
      BY <1>1 DEF Times, Forever
    <2>2. k.user # NoKey.user
      BY <1>1 DEF NoKey
    <2> QED
      BY <1>1, <2>1, <2>2 DEF SessionData
  <1> HIDE DEF k
  <1>3. SessTypeOK'
    <2>1. login' \in [Logins -> LoginType]
      <3>1. login \in [Logins -> LoginType] /\ "index" \in LoginSteps
        BY DEF SessTypeOK, LoginType, LoginSteps
      <3> QED
        BY <3>1, TypedGoto DEF StoreSession, Goto
    <2>2. keys' \in [Logins -> SessionData \cup {NoKey}]
      BY <1>2, <1>k DEF SessTypeOK
    <2>3. \A m \in Logins : keys'[m] # NoKey => keys'[m].user = login'[m].user
      BY <1>1, <1>2, <1>k DEF SessTypeOK
    <2> QED
      BY <1>1, <2>1, <2>2, <2>3 DEF SessTypeOK, LoginType
  <1>4. GrantedRest' /\ FirstsInserted' /\ OneFirstLogin'
    <2>1. GrantedRest'
      <3>1. l \notin granted /\ granted \subseteq Logins
        BY <1>1 DEF GrantedRest, At, SessTypeOK
      <3>2. \A s \in granted : login'[s] = login[s] /\ keys'[s] = keys[s]
        BY <1>1, <1>2, <3>1
      <3> QED
        BY <1>1, <3>2 DEF GrantedRest, At, Alive
    <2>2. FirstsInserted' /\ OneFirstLogin'
      BY <1>1 DEF FirstsInserted, OneFirstLogin, At, SessTypeOK
    <2> QED
      BY <2>1, <2>2
  <1>5. OverlapsKnown'
    BY <1>1 DEF OverlapsKnown, SameUser, InFlight, LoginSteps
  <1>6. TimesBounded'
    BY <1>1, <1>2, <1>k DEF TimesBounded
  <1>7. IndexNamesOwn'
    <2>1. \A s \in Logins : login[s].at \in Stored => login'[s] = login[s]
      BY <1>1 DEF Stored
    <2> QED
      BY <1>1, <2>1 DEF IndexNamesOwn, SameUser, SessTypeOK
  <1>8. SetIsOwn'
    BY <1>1 DEF SetIsOwn, At
  <1>9. /\ Clean' = Clean
        /\ \A s \in Clean : s \in Logins /\ s # l /\ login'[s] = login[s] /\ keys'[s] = keys[s]
    BY <1>1, <1>2 DEF Clean, GrantedRest, At, SessTypeOK
  <1>10. Indexed' /\ FoundAll' /\ ClearedAll' /\ AtMostOne'
    <2>2. Indexed' /\ AtMostOne'
      BY <1>1, <1>9 DEF Indexed, AtMostOne, SameUser, Alive
    <2>3. FoundAll'
      BY <1>1, <1>9 DEF FoundAll, SameUser, At, Alive
    <2>4. ClearedAll'
      BY <1>1, <1>9 DEF ClearedAll, SameUser, Alive
    <2> QED
      BY <2>2, <2>3, <2>4
  <1>11. SoloLives'
    <2>1. /\ Alive(l)' /\ keys'[l].expires = login'[l].born + Ttl
          /\ keys'[l].until >= login'[l].born + Ttl
      BY <1>1, <1>2, <1>k DEF TimesBounded, Alive
    <2> QED
      BY <1>1, <1>2, <2>1 DEF SoloLives, Solo, SameUser, Alive
  <1> QED
    BY <1>3, <1>4, <1>5, <1>6, <1>7, <1>8, <1>10, <1>11

LEMMA AddToIndexInv ==
  ASSUME SessIInv, NEW l \in Logins, AddToIndex(l)
  PROVE  SessIInv'
  <1> USE SessAssumption DEF SessIInv
  <1> DEFINE u == login[l].user
  <1>1. /\ login[l].at = "index" /\ login'[l].at = "expire"
        /\ login'[l].user = u /\ login'[l].doomed = login[l].doomed
        /\ login'[l].born = login[l].born /\ u \in Users
        /\ \A m \in Logins \ {l} : login'[m] = login[m]
        /\ UNCHANGED <<now, userRows, keys, granted, firsts, loggedOut, raced, spared>>
    BY DEF AddToIndex, At, Goto, SessTypeOK, sessHistory
  <1>2. /\ index'[u] = index[u] \cup {l}
        /\ index[u] = {} => indexUntil'[u] = Forever
        /\ index[u] # {} => indexUntil'[u] = indexUntil[u]
        /\ \A v \in Users \ {u} : index'[v] = index[v] /\ indexUntil'[v] = indexUntil[v]
    BY <1>1 DEF AddToIndex, SessTypeOK
  <1>3. SessTypeOK'
    <2>1. login' \in [Logins -> LoginType]
      <3>1. login \in [Logins -> LoginType] /\ "expire" \in LoginSteps
        BY DEF SessTypeOK, LoginType, LoginSteps
      <3> QED
        BY <3>1, TypedGoto DEF AddToIndex, Goto
    <2>2. /\ index' \in [Users -> SUBSET Logins]
          /\ indexUntil' \in [Users -> Times]
      <3>1. Forever \in Times
        BY DEF Times, Forever
      <3> QED
        BY <1>1, <3>1 DEF AddToIndex, SessTypeOK
    <2> QED
      BY <1>1, <2>1, <2>2 DEF SessTypeOK, LoginType
  <1>4. GrantedRest' /\ FirstsInserted' /\ OneFirstLogin'
    BY <1>1 DEF GrantedRest, FirstsInserted, OneFirstLogin, At, Alive, SessTypeOK
  <1>5. OverlapsKnown'
    BY <1>1 DEF OverlapsKnown, SameUser, InFlight, LoginSteps
  <1>6. TimesBounded'
    BY <1>1 DEF TimesBounded
  <1>7. IndexNamesOwn'
    <2>1. \A s \in Logins : login[s].at \in Stored => login'[s] = login[s]
      BY <1>1 DEF Stored
    <2>2. login'[l].at \in Stored
      BY <1>1 DEF Stored
    <2>3. \A v \in Users : \A s \in index'[v] :
            login'[s].user = v /\ login'[s].at \in Stored
      <3> SUFFICES ASSUME NEW v \in Users, NEW s \in index'[v]
                   PROVE  login'[s].user = v /\ login'[s].at \in Stored
        OBVIOUS
      <3>1. CASE s = l /\ v = u
        BY <1>1, <2>2, <3>1
      <3>2. CASE s \in index[v]
        <4>1. s \in Logins /\ login[s].user = v /\ login[s].at \in Stored
          BY <3>2 DEF IndexNamesOwn, SessTypeOK
        <4> QED
          BY <4>1, <2>1
      <3> QED
        BY <1>2, <3>1, <3>2
    <2>4. \A m \in Logins : \A s \in login'[m].doomed :
            SameUser(m, s)' /\ login'[s].at \in Stored
      <3>1. \A m \in Logins : /\ login'[m].user = login[m].user
                              /\ login'[m].doomed = login[m].doomed
                              /\ login[m].doomed \subseteq Logins
        BY <1>1 DEF SessTypeOK
      <3> QED
        BY <3>1, <2>1 DEF IndexNamesOwn, SameUser
    <2>5. \A m \in Logins : login'[m].at \in {"idle", "insert", "find"}
                            => login'[m].doomed = {}
      BY <1>1 DEF IndexNamesOwn
    <2> QED
      BY <2>3, <2>4, <2>5 DEF IndexNamesOwn
  <1>8. SetIsOwn'
    <2> SUFFICES ASSUME NEW s \in Logins \ raced
                 PROVE  /\ login'[s].at \in {"store", "index"} => index'[login'[s].user] = {}
                        /\ At(s, "expire")' => /\ s \in index'[login'[s].user]
                                               /\ indexUntil'[login'[s].user] = Forever
      BY <1>1 DEF SetIsOwn
    <2>1. CASE s = l
      BY <1>1, <1>2, <2>1 DEF At, SetIsOwn
    <2>2. CASE s # l /\ login[s].user = u
      BY <1>1, <2>2 DEF OverlapsKnown, InFlight, LoginSteps, SameUser, At
    <2>3. CASE s # l /\ login[s].user # u
      BY <1>1, <1>2, <2>3 DEF SetIsOwn, At, SessTypeOK
    <2> QED
      BY <2>1, <2>2, <2>3
  <1>9. /\ Clean' = Clean
        /\ \A s \in Clean : s \in Logins /\ s # l /\ login'[s] = login[s] /\ login[s].user \in Users
    BY <1>1 DEF Clean, GrantedRest, At, SessTypeOK
  <1>10. Indexed' /\ FoundAll' /\ ClearedAll' /\ AtMostOne'
    <2>2. Indexed' /\ AtMostOne'
      BY <1>1, <1>2, <1>9 DEF Indexed, AtMostOne, SameUser, Alive
    <2>3. FoundAll'
      BY <1>1, <1>9 DEF FoundAll, SameUser, At, Alive
    <2>4. ClearedAll'
      BY <1>1, <1>9 DEF ClearedAll, SameUser, Alive
    <2> QED
      BY <2>2, <2>3, <2>4
  <1>11. SoloLives'
    BY <1>1 DEF SoloLives, Solo, SameUser, Alive
  <1> QED
    BY <1>3, <1>4, <1>5, <1>6, <1>7, <1>8, <1>10, <1>11

LEMMA ExpireIndexInv ==
  ASSUME SessIInv, NEW l \in Logins, ExpireIndex(l)
  PROVE  SessIInv'
  <1> USE SessAssumption DEF SessIInv
  <1> DEFINE u == login[l].user
  <1>1. /\ login[l].at = "expire" /\ login'[l].at = "granted"
        /\ login'[l].user = u /\ login'[l].doomed = login[l].doomed
        /\ login'[l].born = login[l].born /\ u \in Users /\ now \in 0 .. MaxNow
        /\ \A m \in Logins \ {l} : login'[m] = login[m]
        /\ granted' = granted \cup {l}
        /\ UNCHANGED <<now, userRows, keys, index, firsts, loggedOut, raced, spared>>
    BY DEF ExpireIndex, At, Goto, SessTypeOK
  <1>2. /\ index[u] # {} => indexUntil'[u] = now + Ttl
        /\ \A v \in Users \ {u} : indexUntil'[v] = indexUntil[v]
    BY <1>1 DEF ExpireIndex, SessTypeOK
  <1>3. SessTypeOK'
    <2>1. login' \in [Logins -> LoginType]
      <3>1. login \in [Logins -> LoginType] /\ "granted" \in LoginSteps
        BY DEF SessTypeOK, LoginType, LoginSteps
      <3> QED
        BY <3>1, TypedGoto DEF ExpireIndex, Goto
    <2>2. indexUntil' \in [Users -> Times]
      <3>1. now + Ttl \in Times
        BY <1>1 DEF Times, Forever
      <3> QED
        BY <1>1, <3>1 DEF ExpireIndex, SessTypeOK
    <2> QED
      BY <1>1, <2>1, <2>2 DEF SessTypeOK, LoginType
  <1>4. GrantedRest' /\ FirstsInserted' /\ OneFirstLogin'
    BY <1>1 DEF GrantedRest, FirstsInserted, OneFirstLogin, At, Alive, SessTypeOK
  <1>5. OverlapsKnown'
    BY <1>1 DEF OverlapsKnown, SameUser, InFlight, LoginSteps
  <1>6. TimesBounded'
    BY <1>1 DEF TimesBounded
  <1>7. IndexNamesOwn'
    <2>1. \A s \in Logins : login[s].at \in Stored => login'[s].at \in Stored
      BY <1>1 DEF Stored
    <2>2. \A s \in Logins : login'[s].user = login[s].user /\ login'[s].doomed = login[s].doomed
      BY <1>1
    <2> QED
      BY <1>1, <2>1, <2>2 DEF IndexNamesOwn, SameUser, SessTypeOK
  <1>o. \A m \in Logins \ {l} : login[m].at \in InFlight /\ SameUser(m, l)
          => l \in raced /\ m \in raced
    BY <1>1 DEF OverlapsKnown, InFlight, LoginSteps, SameUser
  <1>8. SetIsOwn'
    <2> SUFFICES ASSUME NEW s \in Logins \ raced
                 PROVE  /\ login'[s].at \in {"store", "index"} => index'[login'[s].user] = {}
                        /\ At(s, "expire")' => /\ s \in index'[login'[s].user]
                                               /\ indexUntil'[login'[s].user] = Forever
      BY <1>1 DEF SetIsOwn
    <2>1. CASE s = l
      BY <1>1, <2>1 DEF At
    <2>2. CASE s # l /\ login[s].user = u
      BY <1>1, <1>o, <2>2 DEF InFlight, LoginSteps, SameUser, At
    <2>3. CASE s # l /\ login[s].user # u
      BY <1>1, <1>2, <2>3 DEF SetIsOwn, At, SessTypeOK
    <2> QED
      BY <2>1, <2>2, <2>3
  <1>9. /\ Clean' \subseteq Clean \cup {l} /\ l \notin Clean
        /\ l \in Clean' => l \notin raced
        /\ \A s \in Clean : s \in Logins /\ s # l /\ login'[s] = login[s] /\ login[s].user \in Users
    BY <1>1 DEF Clean, GrantedRest, At, SessTypeOK
  <1>10. Indexed'
    <2> SUFFICES ASSUME NEW s \in Clean', Alive(s)
                 PROVE  s \in index[login[s].user] /\ indexUntil'[login[s].user] >= keys[s].until
      BY <1>1, <1>9 DEF Indexed, Alive
    <2>1. CASE s = l
      <3>1. l \in index[u]
        BY <1>1, <1>9, <2>1 DEF SetIsOwn, At
      <3> QED
        BY <1>2, <2>1, <3>1 DEF TimesBounded
    <2>2. CASE s # l /\ login[s].user = u
      <3>1. s \in index[u] /\ s \in Logins
        BY <1>9, <2>2 DEF Indexed
      <3> QED
        BY <1>2, <2>2, <3>1 DEF TimesBounded
    <2>3. CASE s # l /\ login[s].user # u
      BY <1>2, <1>9, <2>3 DEF Indexed
    <2> QED
      BY <2>1, <2>2, <2>3
  <1>11. FoundAll'
    <2>1. \A m \in Logins \ {l} : At(m, "delete") /\ SameUser(m, l) => l \in raced
      BY <1>o DEF At, InFlight, LoginSteps
    <2> QED
      BY <1>1, <1>9, <2>1 DEF FoundAll, SameUser, At, Alive
  <1>12. ClearedAll'
    <2>1. \A m \in Logins \ {l} :
            login[m].at \in {"store", "index", "expire"} /\ SameUser(m, l) => l \in raced
      BY <1>o DEF InFlight, LoginSteps
    <2> QED
      BY <1>1, <1>9, <2>1 DEF ClearedAll, SameUser, Alive
  <1>13. AtMostOne'
    BY <1>1, <1>9 DEF AtMostOne, ClearedAll, SameUser, Alive
  <1>14. SoloLives'
    BY <1>1 DEF SoloLives, Solo, SameUser, Alive
  <1> QED
    BY <1>3, <1>4, <1>5, <1>6, <1>7, <1>8, <1>10, <1>11, <1>12, <1>13, <1>14

LEMMA AbandonLoginInv ==
  ASSUME SessIInv, NEW l \in Logins, AbandonLogin(l)
  PROVE  SessIInv'
  <1> USE SessAssumption DEF SessIInv
  <1>1. /\ login[l].at \in InFlight /\ login'[l].at = "failed"
        /\ login'[l].user = login[l].user /\ login'[l].doomed = login[l].doomed
        /\ login'[l].born = login[l].born
        /\ \A m \in Logins \ {l} : login'[m] = login[m]
        /\ UNCHANGED <<now, userRows, keys, index, indexUntil, granted, firsts,
                       loggedOut, raced, spared>>
    BY DEF AbandonLogin, Goto, SessTypeOK, sessStore, sessHistory
  <1>2. login[l].at # "granted" /\ login[l].at # "idle"
    BY <1>1 DEF InFlight
  <1>3. SessTypeOK'
    <2>1. login' \in [Logins -> LoginType]
      <3>1. login \in [Logins -> LoginType] /\ "failed" \in LoginSteps
        BY DEF SessTypeOK, LoginType, LoginSteps
      <3> QED
        BY <3>1, TypedGoto DEF AbandonLogin, Goto
    <2> QED
      BY <1>1, <1>2, <2>1 DEF SessTypeOK, LoginType
  <1>4. GrantedRest' /\ FirstsInserted' /\ OneFirstLogin'
    BY <1>1, <1>2 DEF GrantedRest, FirstsInserted, OneFirstLogin, At, Alive, SessTypeOK
  <1>5. OverlapsKnown'
    BY <1>1 DEF OverlapsKnown, SameUser, InFlight
  <1>6. TimesBounded'
    BY <1>1 DEF TimesBounded
  <1>7. IndexNamesOwn'
    <2>1. \A s \in Logins : login[s].at \in Stored => login'[s].at \in Stored
      BY <1>1 DEF Stored
    <2>2. \A s \in Logins : login'[s].user = login[s].user /\ login'[s].doomed = login[s].doomed
      BY <1>1
    <2> QED
      BY <1>1, <2>1, <2>2 DEF IndexNamesOwn, SameUser, SessTypeOK
  <1>8. SetIsOwn'
    BY <1>1 DEF SetIsOwn, At
  <1>9. /\ Clean' = Clean
        /\ \A s \in Clean : s \in Logins /\ s # l /\ login'[s] = login[s]
    BY <1>1, <1>2 DEF Clean, GrantedRest, At, SessTypeOK
  <1>10. Indexed' /\ FoundAll' /\ ClearedAll' /\ AtMostOne'
    <2>2. Indexed' /\ AtMostOne'
      BY <1>1, <1>9 DEF Indexed, AtMostOne, SameUser, Alive
    <2>3. FoundAll'
      BY <1>1, <1>9 DEF FoundAll, SameUser, At, Alive
    <2>4. ClearedAll'
      BY <1>1, <1>9 DEF ClearedAll, SameUser, Alive
    <2> QED
      BY <2>2, <2>3, <2>4
  <1>11. SoloLives'
    BY <1>1 DEF SoloLives, Solo, SameUser, Alive
  <1> QED
    BY <1>3, <1>4, <1>5, <1>6, <1>7, <1>8, <1>10, <1>11

LEMMA LogoutInv ==
  ASSUME SessIInv, NEW x \in Logins, Logout(x)
  PROVE  SessIInv'
  <1> USE SessAssumption DEF SessIInv
  <1>1. /\ x \in granted
        /\ keys'[x] = NoKey
        /\ \A s \in Logins \ {x} : keys'[s] = keys[s]
        /\ loggedOut' = loggedOut \cup {x}
        /\ UNCHANGED <<now, userRows, index, indexUntil, login, granted, firsts, raced,
                       spared>>
    BY DEF Logout, SessTypeOK
  <1>2. \A s \in Logins : Alive(s)' => Alive(s) /\ keys'[s] = keys[s]
    BY <1>1 DEF Alive
  <1>3. SessTypeOK'
    <2>1. keys' \in [Logins -> SessionData \cup {NoKey}]
      BY DEF Logout, SessTypeOK
    <2> QED
      BY <1>1, <1>2, <2>1 DEF SessTypeOK, Alive
  <1>4. GrantedRest' /\ FirstsInserted' /\ OneFirstLogin'
    <2>1. GrantedRest'
      BY <1>1, <1>2 DEF GrantedRest, At, Alive, SessTypeOK
    <2> QED
      BY <1>1, <2>1 DEF FirstsInserted, OneFirstLogin, At
  <1>5. OverlapsKnown'
    BY <1>1 DEF OverlapsKnown, SameUser
  <1>6. TimesBounded'
    <2>1. now \in Nat /\ NoKey.until = 0
      BY DEF SessTypeOK, NoKey
    <2> QED
      BY <1>1, <2>1 DEF TimesBounded
  <1>7. IndexNamesOwn' /\ SetIsOwn'
    BY <1>1 DEF IndexNamesOwn, SetIsOwn, SameUser, At
  <1>9. Clean' = Clean /\ Clean \subseteq Logins
    BY <1>1 DEF Clean, SessTypeOK
  <1>10. Indexed' /\ FoundAll' /\ ClearedAll' /\ AtMostOne'
    BY <1>1, <1>2, <1>9 DEF Indexed, FoundAll, ClearedAll, AtMostOne, SameUser, At
  <1>11. SoloLives'
    BY <1>1 DEF SoloLives, Solo, SameUser, Alive
  <1> QED
    BY <1>3, <1>4, <1>5, <1>6, <1>7, <1>10, <1>11

LEMMA TickInv ==
  ASSUME SessIInv, Tick
  PROVE  SessIInv'
  <1> USE SessAssumption DEF SessIInv
  <1>1. /\ now \in 0 .. MaxNow /\ now' = now + 1 /\ now' \in 0 .. MaxNow
        /\ \A s \in Logins : keys'[s] = IF keys[s].until <= now' THEN NoKey ELSE keys[s]
        /\ \A u \in Users : /\ index'[u] = IF indexUntil[u] <= now' THEN {} ELSE index[u]
                            /\ indexUntil'[u] = IF indexUntil[u] <= now' THEN 0
                                                ELSE indexUntil[u]
        /\ UNCHANGED <<userRows, login, granted, firsts, loggedOut, raced, spared>>
    BY DEF Tick, SessTypeOK, sessHistory
  <1>2. \A s \in Logins : Alive(s)' => /\ Alive(s) /\ keys'[s] = keys[s]
                                       /\ ~ (keys[s].until <= now')
    BY <1>1 DEF Alive
  <1>3. SessTypeOK'
    <2>1. keys' \in [Logins -> SessionData \cup {NoKey}]
      BY <1>1 DEF Tick, SessTypeOK
    <2>2. /\ index' \in [Users -> SUBSET Logins]
          /\ indexUntil' \in [Users -> Times]
      <3>1. 0 \in Times
        BY DEF Times, Forever
      <3> QED
        BY <3>1 DEF Tick, SessTypeOK
    <2> QED
      BY <1>1, <1>2, <2>1, <2>2 DEF SessTypeOK, Alive
  <1>4. GrantedRest' /\ FirstsInserted' /\ OneFirstLogin'
    <2>1. GrantedRest'
      BY <1>1, <1>2 DEF GrantedRest, At, SessTypeOK
    <2> QED
      BY <1>1, <2>1 DEF FirstsInserted, OneFirstLogin, At
  <1>5. OverlapsKnown'
    BY <1>1 DEF OverlapsKnown, SameUser
  <1>6. TimesBounded'
    <2>1. NoKey.until = 0
      BY DEF NoKey
    <2>2. \A s \in Logins : keys[s].until \in Nat /\ login[s].born \in Nat
      BY <2>1 DEF SessTypeOK, SessionData, Times, Forever
    <2> QED
      BY <1>1, <2>1, <2>2 DEF TimesBounded
  <1>7. IndexNamesOwn'
    BY <1>1 DEF IndexNamesOwn, SameUser
  <1>8. SetIsOwn'
    <2>1. ~ (Forever <= now')
      BY <1>1 DEF Forever
    <2>2. \A s \in Logins : login[s].at # "idle" => login[s].user \in Users
      BY DEF SessTypeOK
    <2> QED
      BY <1>1, <2>1, <2>2 DEF SetIsOwn, At
  <1>9. Clean' = Clean /\ \A s \in Clean : s \in Logins /\ login[s].user \in Users
    BY <1>1 DEF Clean, SessTypeOK, GrantedRest, At
  <1>10. Indexed'
    <2> SUFFICES ASSUME NEW s \in Clean, Alive(s)'
                 PROVE  s \in index'[login[s].user] /\ indexUntil'[login[s].user] >= keys'[s].until
      BY <1>1, <1>9 DEF Indexed
    <2> DEFINE u == login[s].user
    <2>1. /\ s \in Logins /\ u \in Users /\ keys'[s] = keys[s] /\ ~ (keys[s].until <= now')
          /\ s \in index[u] /\ indexUntil[u] >= keys[s].until
      BY <1>2, <1>9 DEF Indexed
    <2>2. keys[s].until \in Nat /\ indexUntil[u] \in Nat
      <3>1. keys[s] \in SessionData
        BY <1>2, <2>1 DEF SessTypeOK, Alive
      <3> QED
        BY <2>1, <3>1 DEF SessTypeOK, SessionData, Times, Forever
    <2>3. ~ (indexUntil[u] <= now')
      BY <1>1, <2>1, <2>2
    <2> QED
      BY <1>1, <2>1, <2>3
  <1>11. FoundAll' /\ ClearedAll' /\ AtMostOne'
    BY <1>1, <1>2, <1>9 DEF FoundAll, ClearedAll, AtMostOne, SameUser, At
  <1>12. SoloLives'
    <2> SUFFICES ASSUME NEW s \in Logins \ loggedOut, Solo(s),
                        login[s].at \in {"index", "expire", "granted"},
                        ~ (now' >= login[s].born + Ttl)
                 PROVE  /\ Alive(s)' /\ keys'[s].expires = login[s].born + Ttl
                        /\ keys'[s].until >= login[s].born + Ttl
      BY <1>1 DEF SoloLives, Solo, SameUser
    <2>1. login[s].born \in Nat
      BY DEF SessTypeOK
    <2>2. ~ (now >= login[s].born + Ttl)
      BY <1>1, <2>1
    <2>3. /\ Alive(s) /\ keys[s].expires = login[s].born + Ttl
          /\ keys[s].until >= login[s].born + Ttl
      BY <2>2 DEF SoloLives
    <2>4. keys[s].until \in Nat
      <3>1. keys[s] \in SessionData
        BY <2>3 DEF SessTypeOK, Alive
      <3> QED
        BY <3>1 DEF SessionData, Times, Forever
    <2>5. ~ (keys[s].until <= now')
      BY <1>1, <2>1, <2>3, <2>4
    <2> QED
      BY <1>1, <2>3, <2>5 DEF Alive
  <1> QED
    BY <1>3, <1>4, <1>5, <1>6, <1>7, <1>8, <1>10, <1>11, <1>12

LEMMA SessStepInv == SessIInv /\ [SessNext]_sessVars => SessIInv'
  <1> SUFFICES ASSUME SessIInv, [SessNext]_sessVars
               PROVE  SessIInv'
    OBVIOUS
  <1>1. CASE \E l \in Logins, u \in Users : StartLogin(l, u)
    BY <1>1, StartLoginInv
  <1>2. CASE \E l \in Logins : LoginStep(l)
    BY <1>2, InsertUserInv, FindSessionsInv, DeleteSessionInv, DeleteIndexInv,
       StoreSessionInv, AddToIndexInv, ExpireIndexInv, AbandonLoginInv DEF LoginStep
  <1>3. CASE \E s \in Logins : Logout(s)
    BY <1>3, LogoutInv
  <1>4. CASE Tick
    BY <1>4, TickInv
  <1>5. CASE UNCHANGED sessVars
    <2>1. UNCHANGED <<now, userRows, keys, index, indexUntil, login, granted, firsts,
                      loggedOut, raced, spared>>
      BY <1>5 DEF sessVars, sessStore, sessHistory
    <2> QED
      BY <2>1 DEF SessIInv, SessTypeOK, GrantedRest, FirstsInserted, OneFirstLogin,
         OverlapsKnown, TimesBounded, IndexNamesOwn, SetIsOwn, Indexed, FoundAll,
         ClearedAll, AtMostOne, SoloLives, Solo, SameUser, Alive, At, Clean
  <1> QED
    BY <1>1, <1>2, <1>3, <1>4, <1>5 DEF SessNext

LEMMA SessInvariant == SessSpec => []SessIInv
  BY SessInitInv, SessStepInv, PTL DEF SessSpec

-----------------------------------------------------------------------------
\* The types, and whose key a session is (auth.rs, redis.rs).
THEOREM SessTypes == SessSpec => []SessTypeOK
  <1>1. SessIInv => SessTypeOK
    BY DEF SessIInv
  <1> QED
    BY <1>1, SessInvariant, PTL

\* Re-login invalidates what came before, for logins that do not overlap and
\* deletions that do not fail (auth.rs authenticate, API.md:256).
THEOREM ReloginIsClean == SessSpec => []ReloginInvalidates
  <1>1. SessIInv => ReloginInvalidates
    BY DEF SessIInv, AtMostOne, Clean, SameUser, Alive, Valid, ReloginInvalidates
  <1> QED
    BY <1>1, SessInvariant, PTL

\* The next login will find a valid session (redis.rs add_user_session).
THEOREM SessionsIndexed == SessSpec => []ValidAreIndexed
  <1>1. SessIInv => ValidAreIndexed
    BY DEF SessIInv, Indexed, Clean, Alive, Valid, ValidAreIndexed
  <1> QED
    BY <1>1, SessInvariant, PTL

\* A user's only session lives as long as it says (auth.rs create_session).
THEOREM SoloStays == SessSpec => []OnlyLoginStays
  <1>1. SessIInv => OnlyLoginStays
    <2> SUFFICES ASSUME SessIInv, NEW s \in granted \ loggedOut,
                        \A l \in Logins \ {s} : login[l].user # login[s].user,
                        ~ (now >= login[s].born + Ttl)
                 PROVE  Valid(s)
      BY DEF OnlyLoginStays
    <2>1. s \in Logins /\ now \in Nat /\ login[s].born \in Nat
      BY DEF SessIInv, SessTypeOK
    <2>2. login[s].at = "granted" /\ Solo(s)
      BY DEF SessIInv, GrantedRest, At, Solo, SameUser
    <2>3. Alive(s) /\ keys[s].expires = login[s].born + Ttl
      BY <2>1, <2>2 DEF SessIInv, SoloLives
    <2> QED
      BY <2>1, <2>3, SessAssumption DEF Alive, Valid
  <1> QED
    BY <1>1, SessInvariant, PTL

\* Nothing brings back a session that was logged out (auth.rs logout).
THEOREM LogoutStays == SessSpec => []LogoutIsFinal
  <1>1. SessIInv => LogoutIsFinal
    BY DEF SessIInv, GrantedRest, Alive, Valid, LogoutIsFinal
  <1> QED
    BY <1>1, SessInvariant, PTL

\* One login is the first (auth.rs find_or_create_user).
THEOREM FirstIsOne == SessSpec => []OneFirstLogin
  <1>1. SessIInv => OneFirstLogin
    BY DEF SessIInv
  <1> QED
    BY <1>1, SessInvariant, PTL

-----------------------------------------------------------------------------
(* WsHub. *)

Self == "user-self"

LocalsType ==
  [at : ConnSteps, subs : SUBSET Channels, listening : SUBSET Channels,
   user : BOOLEAN, counted : BOOLEAN, seen : Nat,
   then : {"none", "join", "leave", "close"}, broken : BOOLEAN]

\* A task that listens to S, but for what broke.
Tuned(k, S) == k.listening \subseteq S /\ (~ k.broken => k.listening = S)

\* What a task's place says of its other locals.
Placed(k) ==
  /\ k.at = "closed" => ~ k.counted
  /\ k.at = "reading" => (k.counted <=> Self \in k.subs) /\ Tuned(k, k.subs)
  /\ k.at \in {"validating", "joining"} =>
       ~ k.counted /\ Self \notin k.subs /\ Tuned(k, k.subs)
  /\ k.at \in {"leaving", "loaded"} => ~ k.counted /\ k.then \in {"leave", "close"}
  /\ k.at = "telling" => k.then \in {"join", "leave", "close"} /\ (k.counted <=> k.then = "join")
  /\ k.at = "telling" /\ k.then = "join" => Self \notin k.subs /\ Tuned(k, k.subs)
  /\ k.at \in {"leaving", "loaded", "telling"} /\ k.then = "leave" =>
       Self \notin k.subs /\ Tuned(k, k.subs \cup {Self})

\* On the counter: counted, or still to be taken off.
IsOn(k) == k.counted \/ k.at \in {"leaving", "loaded"}
On == {c \in Conns : IsOn(conn[c])}

AllPlaced == \A c \in Conns : Placed(conn[c])
CounterExact == online = Cardinality(On)
\* As long as changes are told one by one, at most one is not told yet, and it is
\* the counter's last.
TellerIsLast ==
  ~ crossed =>
    \/ Telling = {} /\ lastTold = online
    \/ \E c \in Conns : Telling = {c} /\ conn[c].seen = online

HubIInv == HubTypeOK /\ AllPlaced /\ CounterExact /\ TellerIsLast

-----------------------------------------------------------------------------
LEMMA OnFinite == IsFiniteSet(On) /\ Cardinality(On) \in Nat
  <1>1. IsFiniteSet(On)
    BY HubAssumption, FS_Subset DEF On
  <1> QED
    BY <1>1, FS_CardinalityType

LEMMA OnFiniteNext == IsFiniteSet(On') /\ Cardinality(On') \in Nat
  <1>1. IsFiniteSet(On')
    BY HubAssumption, FS_Subset DEF On
  <1> QED
    BY <1>1, FS_CardinalityType

LEMMA HubInitInv == HubInit => HubIInv
  <1> SUFFICES ASSUME HubInit
               PROVE  HubIInv
    OBVIOUS
  <1> USE HubAssumption DEF HubInit, Closed
  <1>1. HubTypeOK
    BY DEF HubTypeOK, ConnSteps, Channels
  <1>2. AllPlaced
    BY DEF AllPlaced, Placed
  <1>3. CounterExact
    <2>1. On = {}
      BY DEF On, IsOn
    <2> QED
      BY <2>1, FS_EmptySet DEF CounterExact
  <1>4. TellerIsLast
    BY DEF TellerIsLast, Telling, Is
  <1> QED
    BY <1>1, <1>2, <1>3, <1>4 DEF HubIInv

\* One task's locals change.
LEMMA OneTask ==
  ASSUME HubIInv, NEW c \in Conns, NEW k \in LocalsType, Placed(k),
         conn' = [conn EXCEPT ![c] = k]
  PROVE  /\ conn' \in [Conns -> LocalsType]
         /\ AllPlaced'
         /\ conn'[c] = k
         /\ \A d \in Conns \ {c} : conn'[d] = conn[d]
         /\ On' = IF IsOn(k) THEN On \cup {c} ELSE On \ {c}
         /\ Telling' = IF k.at = "telling" THEN Telling \cup {c} ELSE Telling \ {c}
  <1>1. conn \in [Conns -> LocalsType]
    BY DEF HubIInv, HubTypeOK, LocalsType
  <1>2. /\ conn' \in [Conns -> LocalsType]
        /\ conn'[c] = k
        /\ \A d \in Conns \ {c} : conn'[d] = conn[d]
    BY <1>1
  <1>3. AllPlaced'
    BY <1>2 DEF HubIInv, AllPlaced
  <1>4. On' = IF IsOn(k) THEN On \cup {c} ELSE On \ {c}
    BY <1>2 DEF On
  <1>5. Telling' = IF k.at = "telling" THEN Telling \cup {c} ELSE Telling \ {c}
    BY <1>2 DEF Telling, Is
  <1> QED
    BY <1>2, <1>3, <1>4, <1>5

\* A step of one task that changes neither the counter nor what is to be told.
LEMMA LocalStep ==
  ASSUME HubIInv, NEW c \in Conns, NEW k \in LocalsType, Placed(k), Local(c, k),
         IsOn(k) <=> IsOn(conn[c]),
         k.at = "telling" <=> conn[c].at = "telling",
         k.at = "telling" => k.seen = conn[c].seen
  PROVE  HubIInv'
  <1>1. /\ conn' = [conn EXCEPT ![c] = k]
        /\ UNCHANGED <<online, lastTold, changes, crossed>>
    BY DEF Local
  <1>2. /\ conn' \in [Conns -> LocalsType]
        /\ AllPlaced'
        /\ \A d \in Conns \ {c} : conn'[d] = conn[d]
        /\ conn'[c] = k
        /\ On' = IF IsOn(k) THEN On \cup {c} ELSE On \ {c}
        /\ Telling' = IF k.at = "telling" THEN Telling \cup {c} ELSE Telling \ {c}
    BY <1>1, OneTask
  <1>3. On' = On /\ Telling' = Telling
    BY <1>2 DEF On, Telling, Is
  <1>4. HubTypeOK'
    BY <1>1, <1>2 DEF HubIInv, HubTypeOK, LocalsType
  <1>5. CounterExact'
    BY <1>1, <1>3 DEF HubIInv, CounterExact
  <1>6. TellerIsLast'
    <2> SUFFICES ASSUME ~ crossed, NEW d \in Conns, Telling = {d}, conn[d].seen = online
                 PROVE  conn'[d].seen = online'
      BY <1>1, <1>3 DEF HubIInv, TellerIsLast
    <2>1. conn[d].at = "telling"
      BY DEF Telling, Is
    <2> QED
      BY <1>1, <1>2, <2>1
  <1> QED
    BY <1>2, <1>4, <1>5, <1>6 DEF HubIInv

\* A change of the counter by one task.
LEMMA ChangeStep ==
  ASSUME HubIInv, NEW c \in Conns, NEW total \in Nat, NEW k \in LocalsType,
         Changed(c, total, k), ~ Is(c, "telling"),
         Placed([k EXCEPT !.at = "telling", !.seen = total]),
         total = Cardinality(IF k.counted THEN On \cup {c} ELSE On \ {c})
  PROVE  HubIInv'
  <1> DEFINE t == [k EXCEPT !.at = "telling", !.seen = total]
  <1>0. t \in LocalsType /\ t.at = "telling" /\ t.seen = total /\ (t.counted <=> k.counted)
    BY DEF LocalsType, ConnSteps
  <1>1. /\ conn' = [conn EXCEPT ![c] = t]
        /\ online' = total /\ lastTold' = lastTold /\ changes' = changes + 1
        /\ crossed' = (crossed \/ Telling \ {c} # {})
    BY DEF Changed
  <1> HIDE DEF t
  <1>2. /\ conn' \in [Conns -> LocalsType]
        /\ AllPlaced'
        /\ conn'[c] = t
        /\ On' = IF IsOn(t) THEN On \cup {c} ELSE On \ {c}
        /\ Telling' = IF t.at = "telling" THEN Telling \cup {c} ELSE Telling \ {c}
    <2>1. Placed(t)
      BY DEF t
    <2> QED
      BY <1>0, <1>1, <2>1, OneTask
  <1>3. HubTypeOK'
    BY <1>1, <1>2 DEF HubIInv, HubTypeOK, LocalsType
  <1>4. CounterExact'
    <2>1. IsOn(t) <=> k.counted
      BY <1>0 DEF IsOn
    <2> QED
      BY <1>1, <1>2, <2>1 DEF CounterExact
  <1>5. TellerIsLast'
    <2> SUFFICES ASSUME ~ crossed'
                 PROVE  Telling' = {c} /\ conn'[c].seen = online'
      BY DEF TellerIsLast
    <2> QED
      BY <1>0, <1>1, <1>2 DEF Telling
  <1> QED
    BY <1>2, <1>3, <1>4, <1>5 DEF HubIInv

LEMMA Locals == ASSUME HubIInv, NEW c \in Conns
                PROVE  conn[c] \in LocalsType /\ Placed(conn[c])
  BY DEF HubIInv, HubTypeOK, LocalsType, AllPlaced

LEMMA OpenInv == ASSUME HubIInv, NEW c \in Conns, Open(c) PROVE HubIInv'
  <1> DEFINE k == [Closed EXCEPT !.at = "reading"]
  <1>1. k \in LocalsType /\ Placed(k)
    BY HubAssumption DEF Closed, LocalsType, ConnSteps, Channels, Placed, Tuned, Self
  <1>2. k.at = "reading" /\ ~ IsOn(k)
    BY DEF Closed, IsOn
  <1>3. Local(c, k) /\ conn[c].at = "closed"
    BY DEF Open, Is
  <1>4. ~ IsOn(conn[c])
    BY <1>3, Locals DEF Placed, IsOn
  <1> HIDE DEF k
  <1> QED
    BY <1>1, <1>2, <1>3, <1>4, LocalStep

LEMMA SubscribeInv ==
  ASSUME HubIInv, NEW c \in Conns, NEW ch \in Public, Subscribe(c, ch) PROVE HubIInv'
  <1> DEFINE k == Listening(conn[c], ch)
  <1>1. conn[c] \in LocalsType /\ Placed(conn[c]) /\ conn[c].at = "reading"
    BY Locals DEF Subscribe, Is
  <1>2. k \in LocalsType
    BY <1>1 DEF Listening, LocalsType, Channels
  <1>3. /\ k.at = "reading" /\ k.counted = conn[c].counted /\ k.broken = conn[c].broken
        /\ k.subs = conn[c].subs \cup {ch} /\ k.listening = conn[c].listening \cup {ch}
    BY <1>1 DEF Listening, LocalsType
  <1>4. Local(c, k)
    BY DEF Subscribe
  <1> HIDE DEF k
  <1>5. Placed(k)
    BY <1>1, <1>3, HubAssumption DEF Placed, Tuned, Self
  <1>6. IsOn(k) <=> IsOn(conn[c])
    BY <1>1, <1>3 DEF IsOn
  <1> QED
    BY <1>1, <1>2, <1>3, <1>4, <1>5, <1>6, LocalStep

LEMMA SubscribeSelfInv ==
  ASSUME HubIInv, NEW c \in Conns, SubscribeSelf(c) PROVE HubIInv'
  <1> DEFINE k == [conn[c] EXCEPT !.at = IF conn[c].user THEN "joining" ELSE "validating"]
  <1>1. conn[c] \in LocalsType /\ Placed(conn[c]) /\ conn[c].at = "reading"
    BY Locals DEF SubscribeSelf, Is
  <1>2. k \in LocalsType /\ k.at \in {"joining", "validating"}
        /\ k.counted = conn[c].counted /\ k.broken = conn[c].broken
        /\ k.subs = conn[c].subs /\ k.listening = conn[c].listening
    BY <1>1 DEF LocalsType, ConnSteps
  <1>3. Local(c, k) /\ Self \notin conn[c].subs
    BY DEF SubscribeSelf, Self
  <1> HIDE DEF k
  <1>4. Placed(k)
    BY <1>1, <1>2, <1>3 DEF Placed, Tuned
  <1>5. IsOn(k) <=> IsOn(conn[c])
    BY <1>1, <1>2 DEF IsOn
  <1> QED
    BY <1>1, <1>2, <1>3, <1>4, <1>5, LocalStep

LEMMA ValidatedInv ==
  ASSUME HubIInv, NEW c \in Conns, Validated(c) PROVE HubIInv'
  <1>1. conn[c] \in LocalsType /\ Placed(conn[c]) /\ conn[c].at = "validating"
    BY Locals DEF Validated, Is
  <1>2. ASSUME NEW k \in LocalsType, Local(c, k), k.at \in {"joining", "reading"},
               k.counted = conn[c].counted, k.broken = conn[c].broken,
               k.subs = conn[c].subs, k.listening = conn[c].listening
        PROVE  HubIInv'
    <2>1. Placed(k)
      BY <1>1, <1>2 DEF Placed, Tuned
    <2>2. IsOn(k) <=> IsOn(conn[c])
      BY <1>1, <1>2 DEF IsOn
    <2> QED
      BY <1>1, <1>2, <2>1, <2>2, LocalStep
  <1>3. CASE Local(c, [conn[c] EXCEPT !.at = "joining", !.user = TRUE])
    <2> DEFINE k == [conn[c] EXCEPT !.at = "joining", !.user = TRUE]
    <2>1. k \in LocalsType /\ k.at = "joining" /\ k.counted = conn[c].counted
          /\ k.broken = conn[c].broken /\ k.subs = conn[c].subs
          /\ k.listening = conn[c].listening
      BY <1>1 DEF LocalsType, ConnSteps
    <2> QED
      BY <1>2, <1>3, <2>1
  <1>4. CASE Local(c, [conn[c] EXCEPT !.at = "reading"])
    <2> DEFINE k == [conn[c] EXCEPT !.at = "reading"]
    <2>1. k \in LocalsType /\ k.at = "reading" /\ k.counted = conn[c].counted
          /\ k.broken = conn[c].broken /\ k.subs = conn[c].subs
          /\ k.listening = conn[c].listening
      BY <1>1 DEF LocalsType, ConnSteps
    <2> QED
      BY <1>2, <1>4, <2>1
  <1> QED
    BY <1>3, <1>4 DEF Validated

\* The connection was not on the counter and now is.
LEMMA JoinInv == ASSUME HubIInv, NEW c \in Conns, Join(c) PROVE HubIInv'
  <1> DEFINE k == [conn[c] EXCEPT !.counted = TRUE, !.then = "join"]
  <1>1. conn[c] \in LocalsType /\ Placed(conn[c]) /\ conn[c].at = "joining"
    BY Locals DEF Join, Is
  <1>2. k \in LocalsType /\ k.counted /\ k.then = "join" /\ k.broken = conn[c].broken
        /\ k.subs = conn[c].subs /\ k.listening = conn[c].listening
    BY <1>1 DEF LocalsType
  <1>3. Changed(c, online + 1, k) /\ ~ conn[c].counted
    BY DEF Join
  <1> HIDE DEF k
  <1>4. online \in Nat /\ online + 1 \in Nat
    BY DEF HubIInv, HubTypeOK
  <1>5. Placed([k EXCEPT !.at = "telling", !.seen = online + 1])
    <2> DEFINE t == [k EXCEPT !.at = "telling", !.seen = online + 1]
    <2>1. t.at = "telling" /\ t.counted /\ t.then = "join" /\ t.broken = conn[c].broken
          /\ t.subs = conn[c].subs /\ t.listening = conn[c].listening
      BY <1>2 DEF LocalsType
    <2> HIDE DEF t
    <2>2. Placed(t)
      BY <1>1, <2>1 DEF Placed, Tuned
    <2> QED
      BY <2>2 DEF t
  <1>6. c \notin On
    BY <1>1, <1>3 DEF On, IsOn
  <1>7. online + 1 = Cardinality(On \cup {c})
    BY <1>6, OnFinite, FS_AddElement DEF HubIInv, CounterExact
  <1> QED
    BY <1>1, <1>2, <1>3, <1>4, <1>5, <1>7, ChangeStep DEF Is

\* What becomes of a connection that goes off the counter on its way out.
LEMMA GoesOff ==
  ASSUME HubIInv, NEW c \in Conns, conn[c].at = "reading", conn[c].counted,
         NEW k \in LocalsType, Local(c, k), k.at = "leaving", ~ k.counted,
         k.then = "close" \/ (k.then = "leave" /\ k.subs = conn[c].subs \ {Self}
                              /\ k.broken = conn[c].broken
                              /\ k.listening = conn[c].listening)
  PROVE  HubIInv'
  <1>1. conn[c] \in LocalsType /\ Placed(conn[c])
    BY Locals
  <1>2. Placed(k)
    BY <1>1 DEF Placed, Tuned
  <1>3. IsOn(k) <=> IsOn(conn[c])
    BY DEF IsOn
  <1> QED
    BY <1>2, <1>3, LocalStep

LEMMA UnsubscribeInv ==
  ASSUME HubIInv, NEW c \in Conns, NEW ch \in Channels, Unsubscribe(c, ch) PROVE HubIInv'
  <1>1. conn[c] \in LocalsType /\ Placed(conn[c]) /\ conn[c].at = "reading"
    BY Locals DEF Unsubscribe, Is
  <1>2. CASE ch = Self /\ conn[c].counted
    <2> DEFINE k == [conn[c] EXCEPT !.subs = @ \ {ch}, !.counted = FALSE,
                                    !.at = "leaving", !.then = "leave"]
    <2>1. /\ k \in LocalsType /\ k.at = "leaving" /\ ~ k.counted /\ k.then = "leave"
          /\ k.subs = conn[c].subs \ {Self} /\ k.broken = conn[c].broken
          /\ k.listening = conn[c].listening
      BY <1>1, <1>2 DEF LocalsType, ConnSteps
    <2>2. Local(c, k)
      BY <1>2 DEF Unsubscribe, Self
    <2> HIDE DEF k
    <2> QED
      BY <1>1, <1>2, <2>1, <2>2, GoesOff
  <1>3. CASE ~ (ch = Self /\ conn[c].counted)
    <2> DEFINE k == [conn[c] EXCEPT !.subs = @ \ {ch}, !.listening = @ \ {ch}]
    <2>1. /\ k \in LocalsType /\ k.at = "reading" /\ k.counted = conn[c].counted
          /\ k.subs = conn[c].subs \ {ch} /\ k.broken = conn[c].broken
          /\ k.listening = conn[c].listening \ {ch}
      BY <1>1 DEF LocalsType
    <2>2. Local(c, k)
      BY <1>3 DEF Unsubscribe, Self
    <2> HIDE DEF k
    <2>3. Placed(k)
      BY <1>1, <1>3, <2>1 DEF Placed, Tuned
    <2>4. IsOn(k) <=> IsOn(conn[c])
      BY <1>1, <2>1 DEF IsOn
    <2> QED
      BY <1>1, <2>1, <2>2, <2>3, <2>4, LocalStep
  <1> QED
    BY <1>2, <1>3

LEMMA CloseInv == ASSUME HubIInv, NEW c \in Conns, Close(c) PROVE HubIInv'
  <1>1. conn[c] \in LocalsType /\ Placed(conn[c]) /\ conn[c].at = "reading"
    BY Locals DEF Close, Is
  <1>2. CASE conn[c].counted
    <2> DEFINE k == [conn[c] EXCEPT !.listening = {}, !.counted = FALSE,
                                    !.at = "leaving", !.then = "close"]
    <2>1. k \in LocalsType /\ k.at = "leaving" /\ ~ k.counted /\ k.then = "close"
      BY <1>1 DEF LocalsType, ConnSteps
    <2>2. Local(c, k)
      BY <1>2 DEF Close
    <2> HIDE DEF k
    <2> QED
      BY <1>1, <1>2, <2>1, <2>2, GoesOff
  <1>3. CASE ~ conn[c].counted
    <2>1. Closed \in LocalsType /\ Closed.at = "closed" /\ ~ Closed.counted
      BY HubAssumption DEF Closed, LocalsType, ConnSteps, Channels
    <2>2. Local(c, Closed)
      BY <1>3 DEF Close
    <2>3. Placed(Closed)
      BY <2>1 DEF Placed
    <2>4. IsOn(Closed) <=> IsOn(conn[c])
      BY <1>1, <1>3, <2>1 DEF IsOn
    <2> QED
      BY <1>1, <2>1, <2>2, <2>3, <2>4, LocalStep
  <1> QED
    BY <1>2, <1>3

LEMMA LoadInv == ASSUME HubIInv, NEW c \in Conns, LoadOnline(c) PROVE HubIInv'
  <1> DEFINE k == [conn[c] EXCEPT !.at = "loaded", !.seen = online]
  <1>1. conn[c] \in LocalsType /\ Placed(conn[c]) /\ conn[c].at = "leaving"
    BY Locals DEF LoadOnline, Is
  <1>2. /\ k \in LocalsType /\ k.at = "loaded" /\ k.counted = conn[c].counted
        /\ k.subs = conn[c].subs /\ k.broken = conn[c].broken
        /\ k.listening = conn[c].listening /\ k.then = conn[c].then
    BY <1>1 DEF LocalsType, ConnSteps, HubIInv, HubTypeOK
  <1>3. Local(c, k)
    BY DEF LoadOnline
  <1> HIDE DEF k
  <1>4. Placed(k)
    BY <1>1, <1>2 DEF Placed, Tuned
  <1>5. IsOn(k) <=> IsOn(conn[c])
    BY <1>1, <1>2 DEF IsOn
  <1> QED
    BY <1>1, <1>2, <1>3, <1>4, <1>5, LocalStep

\* The connection is on the counter, so there is something to take off.
LEMMA SwapInv == ASSUME HubIInv, NEW c \in Conns, SwapOnline(c) PROVE HubIInv'
  <1>1. conn[c] \in LocalsType /\ Placed(conn[c]) /\ conn[c].at = "loaded"
    BY Locals DEF SwapOnline, Is
  <1>2. CASE online = conn[c].seen
    <2>1. c \in On /\ ~ conn[c].counted
      BY <1>1 DEF On, IsOn, Placed
    <2>2. Cardinality(On \ {c}) = online - 1 /\ online # 0 /\ online - 1 \in Nat
      <3>1. Cardinality(On \ {c}) = Cardinality(On) - 1
        BY <2>1, OnFinite, FS_RemoveElement
      <3>2. Cardinality(On \ {c}) \in Nat
        BY OnFinite, FS_Subset, FS_CardinalityType
      <3> QED
        BY <3>1, <3>2, OnFinite DEF HubIInv, CounterExact
    <2>3. Changed(c, online - 1, conn[c])
      BY <1>2, <2>2 DEF SwapOnline
    <2>4. Placed([conn[c] EXCEPT !.at = "telling", !.seen = online - 1])
      <3> DEFINE t == [conn[c] EXCEPT !.at = "telling", !.seen = online - 1]
      <3>1. /\ t.at = "telling" /\ t.counted = conn[c].counted
            /\ t.subs = conn[c].subs /\ t.broken = conn[c].broken
            /\ t.listening = conn[c].listening /\ t.then = conn[c].then
        BY <1>1 DEF LocalsType
      <3> HIDE DEF t
      <3>2. Placed(t)
        BY <1>1, <3>1 DEF Placed, Tuned
      <3> QED
        BY <3>2 DEF t
    <2> QED
      BY <1>1, <2>1, <2>2, <2>3, <2>4, ChangeStep DEF Is
  <1>3. CASE online # conn[c].seen
    <2> DEFINE k == [conn[c] EXCEPT !.seen = online]
    <2>1. /\ k \in LocalsType /\ k.at = "loaded" /\ k.counted = conn[c].counted
          /\ k.subs = conn[c].subs /\ k.broken = conn[c].broken
          /\ k.listening = conn[c].listening /\ k.then = conn[c].then
      BY <1>1 DEF LocalsType, HubIInv, HubTypeOK
    <2>2. Local(c, k)
      BY <1>3 DEF SwapOnline
    <2> HIDE DEF k
    <2>3. Placed(k)
      BY <1>1, <2>1 DEF Placed, Tuned
    <2>4. IsOn(k) <=> IsOn(conn[c])
      BY <1>1, <2>1 DEF IsOn
    <2> QED
      BY <1>1, <2>1, <2>2, <2>3, <2>4, LocalStep
  <1> QED
    BY <1>2, <1>3

\* The last total is told.
LEMMA TellInv == ASSUME HubIInv, NEW c \in Conns, Tell(c) PROVE HubIInv'
  <1>1. conn[c] \in LocalsType /\ Placed(conn[c]) /\ conn[c].at = "telling"
    BY Locals DEF Tell, Is
  <1> DEFINE b == [conn[c] EXCEPT !.at = "reading", !.then = "none"]
  <1>b. /\ b \in LocalsType /\ b.at = "reading" /\ b.counted = conn[c].counted
        /\ b.subs = conn[c].subs /\ b.broken = conn[c].broken
        /\ b.listening = conn[c].listening
    BY <1>1 DEF LocalsType, ConnSteps
  <1>2. /\ lastTold' = conn[c].seen /\ UNCHANGED <<online, changes, crossed>>
        /\ conn' = [conn EXCEPT ![c] =
             CASE conn[c].then = "join"  -> Listening(b, Self)
               [] conn[c].then = "leave" -> [b EXCEPT !.listening = @ \ {Self}]
               [] OTHER                  -> Closed]
    BY DEF Tell, Self
  <1> HIDE DEF b
  <1>3. PICK k \in LocalsType : /\ conn' = [conn EXCEPT ![c] = k]
                                /\ Placed(k) /\ k.at # "telling"
                                /\ IsOn(k) <=> IsOn(conn[c])
    <2>1. CASE conn[c].then = "join"
      <3> DEFINE k == Listening(b, Self)
      <3>1. /\ k \in LocalsType /\ k.at = "reading" /\ k.counted = b.counted
            /\ k.broken = b.broken /\ k.subs = b.subs \cup {Self}
            /\ k.listening = b.listening \cup {Self}
        BY <1>b DEF Listening, LocalsType, Channels, Self
      <3>2. conn' = [conn EXCEPT ![c] = k]
        BY <1>2, <2>1
      <3> HIDE DEF k
      <3>3. Placed(k)
        BY <1>1, <1>b, <2>1, <3>1 DEF Placed, Tuned
      <3>4. IsOn(k) <=> IsOn(conn[c])
        BY <1>1, <1>b, <3>1 DEF IsOn
      <3> QED
        BY <3>1, <3>2, <3>3, <3>4
    <2>2. CASE conn[c].then = "leave"
      <3> DEFINE k == [b EXCEPT !.listening = @ \ {Self}]
      <3>1. /\ k \in LocalsType /\ k.at = "reading" /\ k.counted = b.counted
            /\ k.broken = b.broken /\ k.subs = b.subs
            /\ k.listening = b.listening \ {Self}
        BY <1>b DEF LocalsType
      <3>2. conn' = [conn EXCEPT ![c] = k]
        BY <1>2, <2>2
      <3> HIDE DEF k
      <3>3. Placed(k)
        BY <1>1, <1>b, <2>2, <3>1 DEF Placed, Tuned
      <3>4. IsOn(k) <=> IsOn(conn[c])
        BY <1>1, <1>b, <3>1 DEF IsOn
      <3> QED
        BY <3>1, <3>2, <3>3, <3>4
    <2>3. CASE conn[c].then = "close"
      <3>1. Closed \in LocalsType /\ Closed.at = "closed" /\ ~ Closed.counted
        BY HubAssumption DEF Closed, LocalsType, ConnSteps, Channels
      <3>2. conn' = [conn EXCEPT ![c] = Closed]
        BY <1>2, <2>3
      <3>3. Placed(Closed)
        BY <3>1 DEF Placed
      <3>4. IsOn(Closed) <=> IsOn(conn[c])
        BY <1>1, <2>3, <3>1 DEF IsOn, Placed
      <3> QED
        BY <3>1, <3>2, <3>3, <3>4
    <2> QED
      BY <1>1, <2>1, <2>2, <2>3 DEF Placed
  <1>4. /\ conn' \in [Conns -> LocalsType] /\ AllPlaced'
        /\ On' = IF IsOn(k) THEN On \cup {c} ELSE On \ {c}
        /\ Telling' = Telling \ {c}
    BY <1>3, OneTask
  <1>5. On' = On
    BY <1>3, <1>4 DEF On
  <1>6. HubTypeOK'
    BY <1>1, <1>2, <1>4 DEF HubIInv, HubTypeOK, LocalsType
  <1>7. CounterExact'
    BY <1>2, <1>5 DEF HubIInv, CounterExact
  <1>8. TellerIsLast'
    <2> SUFFICES ASSUME ~ crossed
                 PROVE  Telling' = {} /\ lastTold' = online'
      BY <1>2 DEF TellerIsLast
    <2>1. c \in Telling
      BY <1>1 DEF Telling, Is
    <2>2. Telling = {c} /\ conn[c].seen = online
      BY <2>1 DEF HubIInv, TellerIsLast
    <2> QED
      BY <1>2, <1>4, <2>2
  <1> QED
    BY <1>4, <1>6, <1>7, <1>8 DEF HubIInv

LEMMA BreakInv == ASSUME HubIInv, NEW c \in Conns, Break(c) PROVE HubIInv'
  <1> DEFINE k == [conn[c] EXCEPT !.broken = TRUE]
  <1>1. conn[c] \in LocalsType /\ Placed(conn[c])
    BY Locals
  <1>2. /\ k \in LocalsType /\ k.at = conn[c].at /\ k.counted = conn[c].counted
        /\ k.subs = conn[c].subs /\ k.broken /\ k.seen = conn[c].seen
        /\ k.listening = conn[c].listening /\ k.then = conn[c].then
    BY <1>1 DEF LocalsType
  <1>3. Local(c, k)
    BY DEF Break
  <1> HIDE DEF k
  <1>4. Placed(k)
    BY <1>1, <1>2 DEF Placed, Tuned
  <1>5. IsOn(k) <=> IsOn(conn[c])
    BY <1>2 DEF IsOn
  <1> QED
    BY <1>2, <1>3, <1>4, <1>5, LocalStep

LEMMA ListenerEndsInv ==
  ASSUME HubIInv, NEW c \in Conns, NEW ch \in Channels, ListenerEnds(c, ch) PROVE HubIInv'
  <1> DEFINE k == [conn[c] EXCEPT !.listening = @ \ {ch}]
  <1>1. conn[c] \in LocalsType /\ Placed(conn[c])
    BY Locals
  <1>2. /\ k \in LocalsType /\ k.at = conn[c].at /\ k.counted = conn[c].counted
        /\ k.subs = conn[c].subs /\ k.broken = conn[c].broken /\ k.seen = conn[c].seen
        /\ k.listening = conn[c].listening \ {ch} /\ k.then = conn[c].then
    BY <1>1 DEF LocalsType
  <1>3. Local(c, k) /\ conn[c].broken
    BY DEF ListenerEnds
  <1> HIDE DEF k
  <1>4. Placed(k)
    BY <1>1, <1>2, <1>3 DEF Placed, Tuned
  <1>5. IsOn(k) <=> IsOn(conn[c])
    BY <1>2 DEF IsOn
  <1> QED
    BY <1>2, <1>3, <1>4, <1>5, LocalStep

LEMMA HubStepInv == HubIInv /\ [HubNext]_hubVars => HubIInv'
  <1> SUFFICES ASSUME HubIInv, [HubNext]_hubVars
               PROVE  HubIInv'
    OBVIOUS
  <1>1. CASE UNCHANGED hubVars
    BY <1>1 DEF hubVars, HubIInv, HubTypeOK, AllPlaced, CounterExact, On, TellerIsLast,
       Telling, Is
  <1>2. CASE \E c \in Conns : Open(c) \/ SubscribeSelf(c) \/ ConnStep(c)
    BY <1>2, OpenInv, SubscribeSelfInv, ValidatedInv, JoinInv, LoadInv, SwapInv, TellInv,
       BreakInv, CloseInv DEF ConnStep
  <1>3. CASE \E c \in Conns, ch \in Public : Subscribe(c, ch)
    BY <1>3, SubscribeInv
  <1>4. CASE \E c \in Conns, ch \in Channels : Unsubscribe(c, ch) \/ ListenerEnds(c, ch)
    BY <1>4, UnsubscribeInv, ListenerEndsInv
  <1> QED
    BY <1>1, <1>2, <1>3, <1>4 DEF HubNext

LEMMA HubInvariant == HubSpec => []HubIInv
  BY HubInitInv, HubStepInv, PTL DEF HubSpec

-----------------------------------------------------------------------------
\* The types of every connection's locals (ws.rs handle_ws).
THEOREM HubTypes == HubSpec => []HubTypeOK
  <1>1. HubIInv => HubTypeOK
    BY DEF HubIInv
  <1> QED
    BY <1>1, HubInvariant, PTL

\* The counter is exact, for any number of connections (ws.rs
\* decrement_online_users and its callers).
THEOREM CounterIsExact == HubSpec => []OnlineIsExact
  <1>1. HubIInv => OnlineIsExact
    <2>1. On = {c \in Conns : conn[c].counted} \cup Leaving
      BY DEF On, IsOn, Leaving
    <2> QED
      BY <2>1 DEF HubIInv, CounterExact, OnlineIsExact
  <1> QED
    BY <1>1, HubInvariant, PTL

\* What a connection is subscribed to it listens to, and "user-self" counts
\* (ws.rs, subscribe and unsubscribe).
THEOREM ListensToSubscriptions == HubSpec => []SubscribedListens
  <1>1. HubIInv => SubscribedListens
    BY DEF HubIInv, AllPlaced, Placed, Tuned, SubscribedListens, Is, Self
  <1> QED
    BY <1>1, HubInvariant, PTL

\* Changes that do not overlap are told in their order (ws.rs, the broadcasts of
\* MarketOnlineUpdated).
THEOREM TotalIsCurrent == HubSpec => []LastTotalIsCurrent
  <1>1. HubIInv => LastTotalIsCurrent
    BY DEF HubIInv, TellerIsLast, LastTotalIsCurrent
  <1> QED
    BY <1>1, HubInvariant, PTL

-----------------------------------------------------------------------------
(* TokenCache. *)

\* The longest time between two ends of a refresh that fail in a row.
Cycle == CheckInterval + Latency

\* The age never runs ahead of the refreshes that failed.
AgeBounded ==
  age < RefreshAge + failures * Cycle
        + (IF loop = "sleep" THEN waited ELSE CheckInterval + waited)

TokenIInv == TokenTypeOK /\ AgeBounded

\* A failure adds one cycle.
LEMMA OneCycleMore ==
  ASSUME NEW f \in Nat, NEW c \in Nat
  PROVE  /\ f * c \in Nat /\ (f + 1) * c \in Nat
         /\ (f + 1) * c = f * c + c
  OBVIOUS

LEMMA TokenInitInv == TokenInit => TokenIInv
  BY TokenAssumption, OneCycleMore DEF TokenInit, TokenIInv, TokenTypeOK, AgeBounded, Cycle

LEMMA TokenStepInv == TokenIInv /\ [TokenNext]_tokenVars => TokenIInv'
  <1> SUFFICES ASSUME TokenIInv, [TokenNext]_tokenVars
               PROVE  TokenIInv'
    OBVIOUS
  <1> USE TokenAssumption DEF TokenIInv, TokenTypeOK, AgeBounded
  <1>1. Cycle \in Nat /\ failures \in Nat
    BY DEF Cycle
  <1> DEFINE spent == failures * Cycle
  <1>2. /\ spent \in Nat
        /\ (failures + 1) * Cycle = spent + Cycle
    BY <1>1, OneCycleMore
  <1>3. CASE Elapse
    BY <1>2, <1>3 DEF Elapse
  <1>4. CASE WakeUp
    BY <1>2, <1>4 DEF WakeUp
  <1>5. CASE Refreshed
    <2>1. failures' * Cycle = 0
      BY <1>1, <1>5 DEF Refreshed
    <2> QED
      BY <2>1, <1>5 DEF Refreshed, Cycle
  <1>6. CASE RefreshFailed
    <2>1. failures' * Cycle = spent + Cycle
      BY <1>2, <1>6 DEF RefreshFailed
    <2> QED
      BY <2>1, <1>2, <1>6 DEF RefreshFailed, Cycle
  <1>7. CASE UNCHANGED tokenVars
    BY <1>2, <1>7 DEF tokenVars
  <1> QED
    BY <1>3, <1>4, <1>5, <1>6, <1>7 DEF TokenNext

LEMMA TokenIInvImplies == TokenIInv => CredentialsOutliveFailures
  <1> SUFFICES ASSUME TokenIInv, ~ CredentialsAvailable
               PROVE  RefreshAge + (failures + 1) * (CheckInterval + Latency) > Lifetime
    BY DEF CredentialsOutliveFailures
  <1>1. Cycle \in Nat /\ failures \in Nat
    BY TokenAssumption DEF Cycle, TokenIInv, TokenTypeOK
  <1>2. /\ failures * Cycle \in Nat
        /\ (failures + 1) * Cycle = failures * Cycle + Cycle
    BY <1>1, OneCycleMore
  <1>3. age < RefreshAge + failures * Cycle + Cycle
    BY <1>2, TokenAssumption DEF TokenIInv, TokenTypeOK, AgeBounded, Cycle
  <1>4. age >= Lifetime
    BY TokenAssumption DEF CredentialsAvailable, TokenIInv, TokenTypeOK
  <1> QED
    BY <1>2, <1>3, <1>4, TokenAssumption DEF Cycle, TokenIInv, TokenTypeOK

\* Whatever the intervals and the latency, connections find credentials until
\* so many refreshes failed in a row (redis.rs refresh_token_loop,
\* retrieve_credentials).
THEOREM Outlive == TokenSpec => []CredentialsOutliveFailures
  <1>1. TokenSpec => []TokenIInv
    BY TokenInitInv, TokenStepInv, PTL DEF TokenSpec
  <1> QED
    BY <1>1, TokenIInvImplies, PTL

-----------------------------------------------------------------------------
(* PoolCache. *)

\* The request a holds the address of the pool it created for n.
Saving(a, n) == ask[a] = [at |-> "save", name |-> n, address |-> pools[n]]

\* Only the request that created a pool saves one, and a name is refused only
\* when its pool exists.
CreatorSaves ==
  \A a \in Asking : ask[a].at = "save" =>
    Saving(a, ask[a].name) /\ pools[ask[a].name] # NoPool
RefusedExist == \A n \in refused : pools[n] # NoPool
KeptOrSaving ==
  \A n \in PoolNames \ orphaned : pools[n] # NoPool =>
    namePools[n] = pools[n] \/ \E a \in Asking : Saving(a, n)

PoolIInv == PoolTypeOK /\ CreatorSaves /\ RefusedExist /\ KeptOrSaving

LEMMA PoolInitInv == PoolInit => PoolIInv
  BY PoolAssumption DEF PoolInit, PoolIInv, PoolTypeOK, CreatorSaves, RefusedExist,
     KeptOrSaving, NotAsking, AskSteps

LEMMA PoolStepInv == PoolIInv /\ [PoolNext]_poolVars => PoolIInv'
  <1> SUFFICES ASSUME PoolIInv, [PoolNext]_poolVars
               PROVE  PoolIInv'
    OBVIOUS
  <1> USE PoolAssumption
      DEF PoolIInv, PoolTypeOK, CreatorSaves, RefusedExist, KeptOrSaving, Saving,
          NotAsking, AskSteps, Ends
  <1>1. ASSUME NEW a \in Asking, NEW n \in PoolNames, AskPool(a, n)
        PROVE  PoolIInv'
    <2>1. PoolTypeOK'
      <3>1. CASE namePools[n] = NoPool
        BY <1>1, <3>1 DEF AskPool
      <3>2. CASE namePools[n] # NoPool
        BY <1>1, <3>2 DEF AskPool
      <3> QED
        BY <3>1, <3>2
    <2>2. /\ UNCHANGED <<pools, namePools, refused, orphaned>>
          /\ ask[a].at = "idle"
          /\ \A b \in Asking : ask'[b] # ask[b] => b = a /\ ask'[b].at = "verify"
      BY <1>1 DEF AskPool
    <2> QED
      BY <2>1, <2>2
  <1>2. ASSUME NEW a \in Asking, VerifyOwner(a)
        PROVE  PoolIInv'
    <2>1. PoolTypeOK'
      BY <1>2 DEF VerifyOwner
    <2>2. /\ UNCHANGED <<pools, namePools, refused, orphaned>>
          /\ ask[a].at = "verify"
          /\ \A b \in Asking : ask'[b] # ask[b] => b = a /\ ask'[b].at \in {"create", "idle"}
      BY <1>2 DEF VerifyOwner
    <2> QED
      BY <2>1, <2>2
  <1>3. ASSUME NEW a \in Asking, CreatePool(a)
        PROVE  PoolIInv'
    <2> DEFINE n == ask[a].name
    <2>0. n \in PoolNames /\ ask[a].at = "create"
      BY <1>3 DEF CreatePool
    <2>1. PoolTypeOK'
      BY <1>3, <2>0 DEF CreatePool
    <2>2. CASE /\ pools' = pools
               /\ Ends(a)
               /\ refused' \in {refused, refused \cup {n}}
               /\ n \in refused' => n \in refused \/ pools[n] # NoPool
               /\ UNCHANGED <<namePools, orphaned>>
      BY <2>0, <2>1, <2>2
    <2>3. CASE /\ pools[n] = NoPool
               /\ \E address \in PoolAddresses :
                    /\ pools' = [pools EXCEPT ![n] = address]
                    /\ \/ /\ ask' = [ask EXCEPT ![a].at = "save", ![a].address = address]
                          /\ UNCHANGED orphaned
                       \/ Ends(a) /\ orphaned' = orphaned \cup {n}
               /\ UNCHANGED <<namePools, refused>>
      <3>1. PICK address \in PoolAddresses :
              /\ pools' = [pools EXCEPT ![n] = address]
              /\ \/ /\ ask' = [ask EXCEPT ![a].at = "save", ![a].address = address]
                    /\ UNCHANGED orphaned
                 \/ Ends(a) /\ orphaned' = orphaned \cup {n}
        BY <2>3
      <3>2. \A b \in Asking \ {a} : ask'[b] = ask[b] /\ (ask[b].at = "save" => ask[b].name # n)
        BY <2>3, <3>1
      <3>3. \A m \in PoolNames \ {n} : pools'[m] = pools[m]
        BY <3>1
      <3>4. pools'[n] = address
        BY <2>0, <3>1
      <3>5. \/ ask'[a] = NotAsking /\ n \in orphaned'
            \/ Saving(a, n)' /\ ask'[a].name = n
        BY <2>0, <3>1, <3>4
      <3>6. CreatorSaves'
        <4> SUFFICES ASSUME NEW b \in Asking, ask'[b].at = "save"
                     PROVE  Saving(b, ask[b].name)' /\ pools'[ask'[b].name] # NoPool
          OBVIOUS
        <4>1. CASE b = a
          BY <2>0, <3>4, <3>5, <4>1
        <4>2. CASE b # a
          BY <3>2, <3>3, <4>2
        <4> QED
          BY <4>1, <4>2
      <3>7. RefusedExist'
        BY <2>3, <3>3, <3>4
      <3>8. KeptOrSaving'
        <4> SUFFICES ASSUME NEW m \in PoolNames, m \notin orphaned', pools'[m] # NoPool,
                            namePools'[m] # pools'[m]
                     PROVE  \E b \in Asking : Saving(b, m)'
          OBVIOUS
        <4>1. CASE m = n
          BY <4>1, <3>5
        <4>2. CASE m # n
          <5>1. m \notin orphaned /\ pools[m] # NoPool /\ namePools[m] # pools[m]
            BY <4>2, <2>3, <3>1, <3>3
          <5>2. PICK b \in Asking : Saving(b, m)
            BY <5>1
          <5>3. b # a
            BY <5>2, <2>0
          <5> QED
            BY <5>2, <5>3, <3>2, <3>3, <4>2
        <4> QED
          BY <4>1, <4>2
      <3> QED
        BY <2>1, <3>6, <3>7, <3>8
    <2> QED
      BY <1>3, <2>2, <2>3 DEF CreatePool
  <1>4. ASSUME NEW a \in Asking, SavePool(a)
        PROVE  PoolIInv'
    <2> DEFINE n == ask[a].name
    <2>0. /\ n \in PoolNames /\ ask[a].at = "save" /\ Saving(a, n)
          /\ UNCHANGED <<pools, refused>> /\ ask'[a] = NotAsking
          /\ \A b \in Asking \ {a} : ask'[b] = ask[b]
      BY <1>4 DEF SavePool
    <2>1. PoolTypeOK'
      BY <1>4, <2>0 DEF SavePool
    <2>2. CreatorSaves' /\ RefusedExist'
      BY <2>0
    <2>3. /\ n \in orphaned' \/ namePools'[n] = pools[n]
          /\ \A m \in PoolNames \ {n} : /\ namePools'[m] = namePools[m]
                                        /\ m \in orphaned' <=> m \in orphaned
      BY <1>4, <2>0 DEF SavePool
    <2>4. KeptOrSaving'
      BY <2>0, <2>3
    <2> QED
      BY <2>1, <2>2, <2>4
  <1>5. CASE PoolCrash
    BY <1>5 DEF PoolCrash
  <1>6. CASE UNCHANGED poolVars
    BY <1>6 DEF poolVars
  <1> QED
    BY <1>1, <1>2, <1>3, <1>4, <1>5, <1>6 DEF PoolNext

LEMMA PoolIInvImplies == PoolIInv => PoolsAreReachable
  BY DEF PoolIInv, PoolTypeOK, PoolsAreReachable, RefusedExist, KeptOrSaving, Saving

\* However many requests ask for a name at once, and whatever fails elsewhere,
\* its pool gets into the table unless a fault kept it from there (trading.rs
\* get_pool).
THEOREM Reachable == PoolSpec => []PoolsAreReachable
  <1>1. PoolSpec => []PoolIInv
    BY PoolInitInv, PoolStepInv, PTL DEF PoolSpec
  <1> QED
    BY <1>1, PoolIInvImplies, PTL

-----------------------------------------------------------------------------
(* ShoutOuts. *)

\* What the first theorems need of the types; the poll's rows and the rows' order
\* are not part of it.
ShoutStates ==
  /\ network \in [AdTxs -> OnChain \cup {"unknown"}]
  /\ status \in [AdTxs -> {"none", "pending", "confirmed"}]
  /\ DOMAIN pay = Paying
  /\ \A p \in Paying : \/ pay[p] = NotPaying
                       \/ pay[p].at \in {"broadcast", "insert"} /\ pay[p].tx \in AdTxs
                          /\ pay[p] = [at |-> pay[p].at, tx |-> pay[p].tx]
\* The transaction that the loop is about to confirm is mined.
FoundMined ==
  poll.mined /\ Head(poll.todo) \in AdTxs => network[Head(poll.todo)] = "mined"

ShoutIInv == ShoutStates /\ FoundMined /\ PaidIsPublished /\ ConfirmedIsMined

LEMMA ShoutInitInv == ShoutInit => ShoutIInv
  BY DEF ShoutInit, ShoutIInv, ShoutStates, FoundMined, PaidIsPublished,
     ConfirmedIsMined, NotPolling, OnChain

LEMMA ShoutStepInv == ShoutIInv /\ [ShoutNext]_shoutVars => ShoutIInv'
  <1> SUFFICES ASSUME ShoutIInv, [ShoutNext]_shoutVars
               PROVE  ShoutIInv'
    OBVIOUS
  <1> USE DEF ShoutIInv, ShoutStates, FoundMined, PaidIsPublished, ConfirmedIsMined,
              OnChain, NotPaying, NotPolling
  <1>1. ASSUME NEW p \in Paying, NEW t \in AdTxs, Submit(p, t)
        PROVE  ShoutIInv'
    BY <1>1 DEF Submit
  <1>2. ASSUME NEW p \in Paying, Broadcast(p)
        PROVE  ShoutIInv'
    BY <1>2 DEF Broadcast, PayEnds
  <1>3. ASSUME NEW p \in Paying, InsertShout(p)
        PROVE  ShoutIInv'
    BY <1>3 DEF InsertShout, PayEnds
  <1>4. CASE ShoutCrash
    BY <1>4 DEF ShoutCrash
  <1>5. ASSUME NEW t \in AdTxs, Mine(t) \/ Evict(t)
        PROVE  ShoutIInv'
    BY <1>5 DEF Mine, Evict
  <1>6. CASE FetchPending
    BY <1>6 DEF FetchPending
  <1>7. CASE CheckConfirmations
    BY <1>7 DEF CheckConfirmations
  <1>8. CASE ConfirmShout
    BY <1>8 DEF ConfirmShout
  <1>9. CASE UNCHANGED shoutVars
    BY <1>9 DEF shoutVars
  <1> QED
    BY <1>1, <1>2, <1>3, <1>4, <1>5, <1>6, <1>7, <1>8, <1>9 DEF ShoutNext

LEMMA ShoutInvariant == ShoutSpec => []ShoutIInv
  BY ShoutInitInv, ShoutStepInv, PTL DEF ShoutSpec

\* A payment the network took is published, or about to be, unless a fault came
\* between the two (shout_out.rs shout_out).
THEOREM Published == ShoutSpec => []PaidIsPublished
  <1>1. ShoutIInv => PaidIsPublished
    BY DEF ShoutIInv
  <1> QED
    BY <1>1, ShoutInvariant, PTL

\* Only mined payments are confirmed (shout_out.rs polling_loop).
THEOREM Confirmed == ShoutSpec => []ConfirmedIsMined
  <1>1. ShoutIInv => ConfirmedIsMined
    BY DEF ShoutIInv
  <1> QED
    BY <1>1, ShoutInvariant, PTL

\* No step undoes a row or a confirmation (postgres.rs insert_shout_out,
\* confirm_shout_out).
THEOREM NeverBack == ShoutSpec => StatusNeverBack
  <1> DEFINE Forward ==
        \A t \in AdTxs : /\ status[t] # "none" => status'[t] # "none"
                         /\ status[t] = "confirmed" => status'[t] = "confirmed"
  <1>1. ShoutIInv /\ [ShoutNext]_shoutVars => [Forward]_shoutVars
    <2> SUFFICES ASSUME ShoutIInv, ShoutNext
                 PROVE  Forward
      OBVIOUS
    <2>1. status \in [AdTxs -> {"none", "pending", "confirmed"}]
      BY DEF ShoutIInv, ShoutStates
    <2>2. CASE \E p \in Paying : InsertShout(p)
      BY <2>1, <2>2 DEF InsertShout
    <2>3. CASE ConfirmShout
      BY <2>1, <2>3 DEF ConfirmShout
    <2>4. CASE UNCHANGED status
      BY <2>4
    <2> QED
      BY <2>2, <2>3, <2>4 DEF ShoutNext, Submit, Broadcast, ShoutCrash, Mine, Evict,
         FetchPending, CheckConfirmations
  <1> QED
    BY <1>1, ShoutInvariant, PTL DEF ShoutSpec, StatusNeverBack

LEMMA TailInRange ==
  ASSUME NEW s \in Seq(AdTxs), s # <<>>
  PROVE  /\ Head(s) \in AdTxs /\ Tail(s) \in Seq(AdTxs)
         /\ Head(s) \in Range(s) /\ Range(Tail(s)) \subseteq Range(s)
  <1>1. /\ Head(s) \in AdTxs /\ Tail(s) \in Seq(AdTxs)
        /\ Len(Tail(s)) = Len(s) - 1
        /\ \A i \in 1 .. Len(Tail(s)) : Tail(s)[i] = s[i + 1]
    BY HeadTailProperties
  <1>2. /\ DOMAIN s = 1 .. Len(s) /\ Len(s) \in Nat \ {0}
        /\ DOMAIN Tail(s) = 1 .. Len(s) - 1
    BY <1>1, LenProperties, EmptySeq
  <1>3. Head(s) = s[1]
    OBVIOUS
  <1>4. Head(s) \in Range(s)
    BY <1>2, <1>3 DEF Range
  <1>5. Range(Tail(s)) \subseteq Range(s)
    <2> SUFFICES ASSUME NEW i \in 1 .. Len(s) - 1
                 PROVE  s[i + 1] \in Range(s)
      BY <1>1, <1>2 DEF Range
    <2>1. i + 1 \in DOMAIN s
      BY <1>2
    <2> QED
      BY <2>1 DEF Range
  <1> QED
    BY <1>1, <1>4, <1>5

\* A row is entered at the front.
LEMMA RowInFront ==
  ASSUME NEW s \in Seq(AdTxs), NEW t \in AdTxs
  PROVE  <<t>> \o s \in Seq(AdTxs) /\ Range(<<t>> \o s) = {t} \cup Range(s)
  <1>0. <<t>> \in Seq(AdTxs)
    OBVIOUS
  <1>1. PICK one \in Seq(AdTxs) : one = <<t>>
    BY <1>0
  <1>2. Len(one) = 1 /\ one[1] = t
    BY <1>1
  <1>3. PICK r : r = one \o s
    OBVIOUS
  <1>4. /\ r \in Seq(AdTxs) /\ Len(r) = 1 + Len(s)
        /\ r[1] = t
        /\ \A i \in 1 .. Len(s) : r[i + 1] = s[i]
    <2>1. /\ r \in Seq(AdTxs) /\ Len(r) = Len(one) + Len(s)
          /\ \A i \in 1 .. Len(one) + Len(s) :
               r[i] = IF i <= Len(one) THEN one[i] ELSE s[i - Len(one)]
      BY <1>3, ConcatProperties
    <2> QED
      BY <1>2, <2>1, LenProperties
  <1>5. /\ DOMAIN s = 1 .. Len(s) /\ Len(s) \in Nat
        /\ DOMAIN r = 1 .. 1 + Len(s)
    BY <1>4, LenProperties
  <1>6. Range(r) \subseteq {t} \cup Range(s)
    <2> SUFFICES ASSUME NEW i \in 1 .. 1 + Len(s), i # 1
                 PROVE  r[i] \in Range(s)
      BY <1>4, <1>5 DEF Range
    <2>1. PICK k \in 1 .. Len(s) : i = k + 1
      BY <1>5
    <2> QED
      BY <1>4, <1>5, <2>1 DEF Range
  <1>7. {t} \cup Range(s) \subseteq Range(r)
    <2>1. t \in Range(r)
      BY <1>4, <1>5 DEF Range
    <2>2. ASSUME NEW k \in 1 .. Len(s)
          PROVE  s[k] \in Range(r)
      BY <1>4, <1>5, <2>2 DEF Range
    <2> QED
      BY <1>5, <2>1, <2>2 DEF Range
  <1> QED
    BY <1>1, <1>3, <1>4, <1>6, <1>7

\* What the types rest on: the loop confirms one of the rows it fetched, and rows are
\* never deleted.
FetchedAreRows ==
  Range(poll.todo) \subseteq Range(newest) /\ (poll.mined => poll.todo # <<>>)
RowsInv == ShoutTypeOK /\ FetchedAreRows

LEMMA RowsStart == ShoutInit => RowsInv
  <1>1. <<>> \in Seq(AdTxs) /\ Range(<<>>) = {}
    BY EmptySeq DEF Range
  <1> QED
    BY <1>1, ShoutAssumption DEF ShoutInit, RowsInv, ShoutTypeOK, FetchedAreRows,
       NotPolling, NotPaying, OnChain

LEMMA RowsKept == RowsInv /\ [ShoutNext]_shoutVars => RowsInv'
  <1> SUFFICES ASSUME RowsInv, [ShoutNext]_shoutVars
               PROVE  RowsInv'
    OBVIOUS
  <1> DEFINE AtWork == [at : {"broadcast", "insert"}, tx : AdTxs]
             RowsOf(st) == {u \in AdTxs : st[u] # "none"}
  <1>1. /\ network \in [AdTxs -> OnChain \cup {"unknown"}]
        /\ status \in [AdTxs -> {"none", "pending", "confirmed"}]
        /\ newest \in Seq(AdTxs) /\ Range(newest) = RowsOf(status)
        /\ pay \in [Paying -> {NotPaying} \cup AtWork]
        /\ poll \in [todo : Seq(AdTxs), mined : BOOLEAN]
        /\ paid \in 0 .. MaxPaid /\ unpublished \subseteq AdTxs
        /\ Range(poll.todo) \subseteq Range(newest)
        /\ poll.mined => poll.todo # <<>>
    BY DEF RowsInv, ShoutTypeOK, FetchedAreRows
  <1>2. ASSUME /\ network' \in [AdTxs -> OnChain \cup {"unknown"}]
               /\ status' \in [AdTxs -> {"none", "pending", "confirmed"}]
               /\ newest' \in Seq(AdTxs) /\ Range(newest') = RowsOf(status')
               /\ pay' \in [Paying -> {NotPaying} \cup AtWork]
               /\ poll' \in [todo : Seq(AdTxs), mined : BOOLEAN]
               /\ paid' \in 0 .. MaxPaid /\ unpublished' \subseteq AdTxs
               /\ Range(poll'.todo) \subseteq Range(newest')
               /\ poll'.mined => poll'.todo # <<>>
        PROVE  RowsInv'
    BY <1>2 DEF RowsInv, ShoutTypeOK, FetchedAreRows
  <1>3. ASSUME NEW p \in Paying, PayEnds(p)
        PROVE  pay' \in [Paying -> {NotPaying} \cup AtWork]
    BY <1>1, <1>3 DEF PayEnds
  <1>4. ASSUME NEW p \in Paying, pay[p].at \in {"broadcast", "insert"}
        PROVE  pay[p] \in AtWork
    BY <1>1, <1>4 DEF NotPaying
  <1>5. ASSUME NEW p \in Paying, NEW t \in AdTxs, Submit(p, t)
        PROVE  RowsInv'
    <2>1. pay' \in [Paying -> {NotPaying} \cup AtWork]
      BY <1>1, <1>5 DEF Submit
    <2>2. paid' \in 0 .. MaxPaid
      BY <1>1, <1>5, ShoutAssumption DEF Submit
    <2>3. UNCHANGED <<network, status, newest, poll, unpublished>>
      BY <1>5 DEF Submit
    <2> QED
      BY <1>1, <1>2, <2>1, <2>2, <2>3
  <1>6. ASSUME NEW p \in Paying, Broadcast(p)
        PROVE  RowsInv'
    <2>1. pay[p] \in AtWork
      BY <1>4, <1>6 DEF Broadcast
    <2>2. PICK t \in AdTxs : t = pay[p].tx
      BY <2>1
    <2>3. pay' \in [Paying -> {NotPaying} \cup AtWork]
      <3>1. [pay[p] EXCEPT !.at = "insert"] \in AtWork
        BY <2>1
      <3>2. CASE pay' = [pay EXCEPT ![p].at = "insert"]
        <4>1. PICK r \in AtWork : r = [pay[p] EXCEPT !.at = "insert"]
          BY <3>1
        <4>2. pay' = [pay EXCEPT ![p] = r]
          BY <3>2, <4>1
        <4> QED
          BY <1>1, <4>2
      <3> QED
        BY <1>3, <1>6, <3>2 DEF Broadcast
    <2>4. network' \in [AdTxs -> OnChain \cup {"unknown"}]
      <3>1. network' \in {network, [network EXCEPT ![t] = "mempool"]}
        BY <1>6, <2>2 DEF Broadcast
      <3> QED
        BY <1>1, <3>1 DEF OnChain
    <2>5. unpublished' \subseteq AdTxs
      BY <1>1, <1>6, <2>2 DEF Broadcast
    <2>6. UNCHANGED <<status, newest, poll, paid>>
      BY <1>6 DEF Broadcast
    <2> QED
      BY <1>1, <1>2, <2>3, <2>4, <2>5, <2>6
  <1>7. ASSUME NEW p \in Paying, InsertShout(p)
        PROVE  RowsInv'
    <2>1. pay[p] \in AtWork
      BY <1>4, <1>7 DEF InsertShout
    <2>2. PICK t \in AdTxs : t = pay[p].tx
      BY <2>1
    <2>3. \/ newest' = <<t>> \o newest /\ status' = [status EXCEPT ![t] = "pending"]
          \/ UNCHANGED <<newest, status>>
      BY <1>7, <2>2 DEF InsertShout
    <2>4. /\ newest' \in Seq(AdTxs) /\ Range(newest') = RowsOf(status')
          /\ status' \in [AdTxs -> {"none", "pending", "confirmed"}]
          /\ Range(newest) \subseteq Range(newest')
      <3>1. CASE newest' = <<t>> \o newest /\ status' = [status EXCEPT ![t] = "pending"]
        <4>1. newest' \in Seq(AdTxs) /\ Range(newest') = {t} \cup Range(newest)
          BY <1>1, <3>1, RowInFront
        <4>2. RowsOf(status') = {t} \cup RowsOf(status)
          BY <1>1, <3>1
        <4> QED
          BY <1>1, <3>1, <4>1, <4>2
      <3>2. CASE UNCHANGED <<newest, status>>
        BY <1>1, <3>2
      <3> QED
        BY <2>3, <3>1, <3>2
    <2>5. unpublished' \subseteq AdTxs
      BY <1>1, <1>7, <2>2 DEF InsertShout
    <2>6. PayEnds(p) /\ UNCHANGED <<network, poll, paid>>
      BY <1>7 DEF InsertShout
    <2> QED
      BY <1>1, <1>2, <1>3, <2>4, <2>5, <2>6
  <1>8. CASE ShoutCrash
    <2>1. <<>> \in Seq(AdTxs) /\ Range(<<>>) = {}
      BY EmptySeq DEF Range
    <2>2. poll' = [todo |-> <<>>, mined |-> FALSE]
      BY <1>8 DEF ShoutCrash, NotPolling
    <2>3. unpublished' \subseteq AdTxs
      <3>1. {pay[p].tx : p \in {q \in Paying : pay[q].at = "insert"}} \subseteq AdTxs
        BY <1>4
      <3> QED
        BY <1>1, <1>8, <3>1 DEF ShoutCrash
    <2>4. /\ pay' = [p \in Paying |-> NotPaying]
          /\ UNCHANGED <<network, status, newest, paid>>
      BY <1>8 DEF ShoutCrash
    <2> QED
      BY <1>1, <1>2, <2>1, <2>2, <2>3, <2>4
  <1>9. ASSUME NEW t \in AdTxs, Mine(t) \/ Evict(t)
        PROVE  RowsInv'
    <2>1. network' \in [AdTxs -> OnChain \cup {"unknown"}]
      BY <1>1, <1>9 DEF Mine, Evict, OnChain
    <2>2. UNCHANGED <<status, newest, pay, poll, paid, unpublished>>
      BY <1>9 DEF Mine, Evict
    <2> QED
      BY <1>1, <1>2, <2>1, <2>2
  <1>10. CASE FetchPending
    <2> DEFINE pending == {i \in DOMAIN newest : status[newest[i]] = "pending"}
               Fetched(at, k) ==
                 poll' = [NotPolling EXCEPT !.todo = [i \in 1 .. k |-> newest[at[i]]]]
    <2>1. PICK k \in 0 .. Batch : \E at \in [1 .. k -> pending] : Fetched(at, k)
      BY <1>10 DEF FetchPending
    <2>2. PICK at \in [1 .. k -> pending] : Fetched(at, k)
      BY <2>1
    <2>3. \A i \in 1 .. k : newest[at[i]] \in AdTxs /\ at[i] \in DOMAIN newest
      BY <1>1, LenProperties
    <2>4. PICK rows : rows = [i \in 1 .. k |-> newest[at[i]]]
      OBVIOUS
    <2>5. rows \in Seq(AdTxs)
      <3>1. rows \in [1 .. k -> AdTxs] /\ k \in Nat
        BY <2>3, <2>4, ShoutAssumption
      <3> QED
        BY <3>1, SeqDef
    <2>6. Range(rows) \subseteq Range(newest)
      BY <2>3, <2>4 DEF Range
    <2>7. poll' = [todo |-> rows, mined |-> FALSE]
      BY <2>2, <2>4 DEF NotPolling
    <2>8. UNCHANGED <<network, status, newest, pay, paid, unpublished>>
      BY <1>10 DEF FetchPending
    <2> QED
      BY <1>1, <1>2, <2>5, <2>6, <2>7, <2>8
  <1>11. CASE CheckConfirmations
    <2>1. /\ Tail(poll.todo) \in Seq(AdTxs)
          /\ Range(Tail(poll.todo)) \subseteq Range(poll.todo)
      BY <1>1, <1>11, TailInRange DEF CheckConfirmations
    <2>2. \/ poll' = [todo |-> poll.todo, mined |-> TRUE]
          \/ poll' = [todo |-> Tail(poll.todo), mined |-> poll.mined]
      BY <1>1, <1>11 DEF CheckConfirmations
    <2>3. ~ poll.mined /\ poll.todo # <<>>
      BY <1>11 DEF CheckConfirmations
    <2>4. UNCHANGED <<network, status, newest, pay, paid, unpublished>>
      BY <1>11 DEF CheckConfirmations
    <2>5. CASE poll' = [todo |-> poll.todo, mined |-> TRUE]
      BY <1>1, <1>2, <2>3, <2>4, <2>5
    <2>6. CASE poll' = [todo |-> Tail(poll.todo), mined |-> poll.mined]
      <3>1. /\ poll'.todo = Tail(poll.todo) /\ ~ poll'.mined
            /\ poll' \in [todo : Seq(AdTxs), mined : BOOLEAN]
        BY <1>1, <2>1, <2>3, <2>6
      <3> QED
        BY <1>1, <1>2, <2>1, <2>4, <3>1
    <2> QED
      BY <2>2, <2>5, <2>6
  <1>12. CASE ConfirmShout
    <2>1. /\ Head(poll.todo) \in AdTxs /\ Tail(poll.todo) \in Seq(AdTxs)
          /\ Head(poll.todo) \in Range(poll.todo)
          /\ Range(Tail(poll.todo)) \subseteq Range(poll.todo)
      BY <1>1, <1>12, TailInRange DEF ConfirmShout
    <2>2. PICK t \in AdTxs : t = Head(poll.todo)
      BY <2>1
    <2>3. status' \in {status, [status EXCEPT ![t] = "confirmed"]}
      BY <1>12, <2>2 DEF ConfirmShout
    <2>4. status[t] # "none"
      BY <1>1, <2>1, <2>2
    <2>5. /\ status' \in [AdTxs -> {"none", "pending", "confirmed"}]
          /\ RowsOf(status') = RowsOf(status)
      BY <1>1, <2>3, <2>4
    <2>6. /\ poll' = [todo |-> Tail(poll.todo), mined |-> FALSE]
          /\ UNCHANGED <<network, newest, pay, paid, unpublished>>
      BY <1>12 DEF ConfirmShout
    <2> QED
      BY <1>1, <1>2, <2>1, <2>5, <2>6
  <1>13. CASE UNCHANGED shoutVars
    BY <1>1, <1>2, <1>13 DEF shoutVars
  <1> QED
    BY <1>5, <1>6, <1>7, <1>8, <1>9, <1>10, <1>11, <1>12, <1>13 DEF ShoutNext

-----------------------------------------------------------------------------
(* The five parts side by side. *)

\* What the invariants of the parts say of the one that is followed.
PartInv ==
  /\ part \in Parts
  /\ part = "sessions" => SessIInv
  /\ part = "hub" => HubIInv
  /\ part = "token" => TokenIInv
  /\ part = "pool" => PoolIInv
  /\ part = "shouts" => RowsInv

LEMMA PartStep ==
  ASSUME PartInv,
         [ServicesNext]_<<part, sessVars, hubVars, tokenVars, poolVars, shoutVars>>
  PROVE  PartInv'
  <1>1. /\ part' = part
        /\ part = "sessions" => [SessNext]_sessVars
        /\ part = "hub" => [HubNext]_hubVars
        /\ part = "token" => [TokenNext]_tokenVars
        /\ part = "pool" => [PoolNext]_poolVars
        /\ part = "shouts" => [ShoutNext]_shoutVars
    BY DEF ServicesNext, SessionsStep, HubStep, TokenStep, PoolStep, ShoutsStep
  <1>2. CASE part = "sessions"
    BY <1>1, <1>2, SessStepInv DEF PartInv
  <1>3. CASE part = "hub"
    BY <1>1, <1>3, HubStepInv DEF PartInv
  <1>4. CASE part = "token"
    BY <1>1, <1>4, TokenStepInv DEF PartInv
  <1>5. CASE part = "pool"
    BY <1>1, <1>5, PoolStepInv DEF PartInv
  <1>6. CASE part = "shouts"
    BY <1>1, <1>6, RowsKept DEF PartInv
  <1> QED
    BY <1>2, <1>3, <1>4, <1>5, <1>6 DEF PartInv, Parts

\* The types of sessions and their indexes (session.rs), of connections (ws.rs), of
\* the token's age (redis.rs), of pools (trading.rs) and of shout outs (shout_out.rs)
\* hold whichever of the five is followed, for every value of their constants; among
\* them that the shout outs in the order of their creation are just the rows of the
\* table.
THEOREM ServicesTypes == ServicesSpec => []ServicesTypeOK
  <1>1. ServicesInit => PartInv
    BY SessInitInv, HubInitInv, TokenInitInv, PoolInitInv, RowsStart
       DEF ServicesInit, PartInv
  <1>2. PartInv => ServicesTypeOK
    BY DEF PartInv, Parts, ServicesTypeOK, SessIInv, HubIInv, TokenIInv, PoolIInv, RowsInv
  <1> QED
    BY <1>1, <1>2, PartStep, PTL DEF ServicesSpec
=============================================================================
