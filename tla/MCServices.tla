----------------------------- MODULE MCServices -----------------------------
(***************************************************************************)
(* Small instances of the services around the market, for TLC.  They share *)
(* no state, so their product says nothing that one of them alone does not: *)
(* a behaviour follows one component, chosen at its start, and leaves the   *)
(* others where they begin.                                                 *)
(***************************************************************************)
EXTENDS Sessions, WsHub, TokenCache, PoolCache, ShoutOuts, TLC

VARIABLE part           \* the component followed

Parts == {"sessions", "hub", "token", "pool", "shouts"}

ServicesInit ==
  /\ part \in Parts
  /\ SessInit /\ HubInit /\ TokenInit /\ PoolInit /\ ShoutInit

SessionsStep ==
  part = "sessions" /\ SessNext /\ UNCHANGED <<part, hubVars, tokenVars, poolVars, shoutVars>>
HubStep ==
  part = "hub" /\ HubNext /\ UNCHANGED <<part, sessVars, tokenVars, poolVars, shoutVars>>
TokenStep ==
  part = "token" /\ TokenNext /\ UNCHANGED <<part, sessVars, hubVars, poolVars, shoutVars>>
PoolStep ==
  part = "pool" /\ PoolNext /\ UNCHANGED <<part, sessVars, hubVars, tokenVars, shoutVars>>
ShoutsStep ==
  part = "shouts" /\ ShoutNext /\ UNCHANGED <<part, sessVars, hubVars, tokenVars, poolVars>>

ServicesNext == SessionsStep \/ HubStep \/ TokenStep \/ PoolStep \/ ShoutsStep

ServicesSpec ==
  ServicesInit /\ [][ServicesNext]_<<part, sessVars, hubVars,
                                     tokenVars, poolVars, shoutVars>>

\* The types of every component, and what their type invariants say of keys and
\* rows.
ServicesTypeOK ==
  CASE part = "sessions" -> SessTypeOK
    [] part = "hub"      -> HubTypeOK
    [] part = "token"    -> TokenTypeOK
    [] part = "pool"     -> PoolTypeOK
    [] part = "shouts"   -> ShoutTypeOK

\* Logins are interchangeable, and so are the users, connections and names that
\* share the values of Users.
ServicesSymmetry == Permutations(Logins) \cup Permutations(Users)
=============================================================================
