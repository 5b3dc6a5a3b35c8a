------------------------------ MODULE TurnServer ------------------------------
(***************************************************************************)
(* The TURN server around its quota: whom auth_handle admits, and for how  *)
(* long.                                                                   *)
(*                                                                         *)
(* Every request of a client is authenticated by its username: the one     *)
(* that allocates, and each refresh that keeps an allocation alive.  The   *)
(* cap is not part of that decision; it is applied by allocate_conn, which *)
(* a refresh does not reach.  A client without the password changes        *)
(* nothing, and neither does one that is refused, so neither is an action; *)
(* the two counters of auth_handle are left out.                           *)
(*                                                                         *)
(* The lifetime of an allocation, its refreshes and its timer belong to    *)
(* the turn crate.                                                         *)
(***************************************************************************)
EXTENDS TurnQuota

CONSTANTS
  Expiry,     \* credential_expiry: username -> second, where it parses
  Known,      \* the usernames of a static configuration
  Lifetime,   \* how long an allocation lasts without a refresh
  MaxTime     \* bound: the last second

Timed == DOMAIN Expiry

ASSUME ServerAssumption ==
  /\ Timed \subseteq Username
  /\ Expiry \in [Timed -> Nat]
  /\ Known \subseteq Username
  /\ Lifetime \in Nat

VARIABLES
  auth,     \* ResolvedAuth
  open,     \* close has not been called
  now,      \* the clock, in seconds
  asked,    \* request -> when its client last sent it or a refresh of it
  until     \* allocation -> when its timer ends it

clockVars  == <<now, asked, until>>
serverVars == <<auth, open, clockVars>>
allVars    == <<vars, serverVars>>

Modes == {"static", "ephemeral", "verifier"}

(* bind refuses a static configuration without users. *)
ServerInit ==
  /\ Init
  /\ auth \in Modes
  /\ auth = "static" => Known # {}
  /\ open = TRUE
  /\ now = 0
  /\ asked = [a \in Alloc |-> 0]
  /\ until = [a \in Alloc |-> 0]

-----------------------------------------------------------------------------
(* auth_handle. *)

Verdicts_AtTheCap(name) ==   \* mutant: the cap is applied here
  IF live_allocations >= max_allocations THEN {FALSE}
  ELSE CASE auth = "static"    -> {(name \in Known)}
         [] auth = "ephemeral" -> {(name \in Timed) /\ Expiry[name] > now}
         [] auth = "verifier"  -> BOOLEAN

Verdicts_AtExpiry(name) ==   \* mutant: accepts during the second of expiry
  CASE auth = "static"    -> {(name \in Known)}
    [] auth = "ephemeral" -> {(name \in Timed) /\ Expiry[name] >= now}
    [] auth = "verifier"  -> BOOLEAN

(* Whether the username is admitted: the table's answer, the clock's, or   *)
(* whatever the consumer's verifier says.                                  *)
Verdicts(name) ==
  CASE auth = "static"    -> {(name \in Known)}
    [] auth = "ephemeral" -> {(name \in Timed) /\ Expiry[name] > now}
    [] auth = "verifier"  -> BOOLEAN

Ask(a) == asked' = [asked EXCEPT ![a] = now]
Start(a) == until' = [until EXCEPT ![a] = now + Lifetime]

(* A request to allocate is admitted and comes to allocate_conn. *)
Arrive(a) ==
  /\ open
  /\ TRUE \in Verdicts(username[a])
  /\ Load(a)
  /\ Ask(a)
  /\ UNCHANGED <<auth, open, now, until>>

(* A refresh starts the lifetime again, when the credential is accepted. *)
Refresh(a) ==
  /\ open /\ st[a] = "held"
  /\ Ask(a)
  /\ \/ TRUE \in Verdicts(username[a]) /\ Start(a)
     \/ FALSE \in Verdicts(username[a]) /\ UNCHANGED until
  /\ UNCHANGED <<vars, auth, open, now>>

(* The allocation enters the table, and its timer starts. *)
InstallTimed(a) ==
  /\ Install(a)
  /\ Start(a)
  /\ UNCHANGED <<auth, open, now, asked>>

TimeOut(a) ==
  /\ until[a] <= now
  /\ Expire(a)
  /\ UNCHANGED serverVars

(* A refresh with a lifetime of zero. *)
Delete(a) ==
  /\ open
  /\ TRUE \in Verdicts(username[a])
  /\ Expire(a)
  /\ UNCHANGED serverVars

(* close: nothing more is received, and the table is emptied. *)
Stop ==
  /\ open
  /\ open' = FALSE
  /\ Close
  /\ UNCHANGED <<auth, clockVars>>

(* A second passes.  Timers that are due have fired by then, and a request *)
(* is answered within a second.                                            *)
InProgress == {"loaded", "claimed", "granted"}
Tick ==
  /\ now < MaxTime
  /\ \A a \in Alloc : st[a] = "held" => now < until[a]
  /\ \A a \in Alloc : st[a] \in InProgress => asked[a] = now
  /\ now' = now + 1
  /\ UNCHANGED <<vars, auth, open, asked, until>>

-----------------------------------------------------------------------------
(* The steps that do not look at the clock. *)
Decide(a) == Refuse(a) \/ Claim(a) \/ Retry(a) \/ Grant(a) \/ HandBack(a)

Untimed ==
  \/ \E a \in Alloc : Decide(a) \/ Relay(a) \/ Report(a)
  \/ \E name \in Username : Revoke(name) \/ DeleteNext(name)
  \/ \E u \in User : RevokePrincipal(u)
  \/ RevokeReturns

ServerNext ==
  \/ \E a \in Alloc : \/ Arrive(a) \/ Refresh(a) \/ InstallTimed(a)
                      \/ TimeOut(a) \/ Delete(a)
  \/ Untimed /\ UNCHANGED serverVars
  \/ Stop
  \/ Tick

ServerSpec == ServerInit /\ [][ServerNext]_allVars

(* Fairness: a request that has begun runs on; nothing else need.          *)
FairSpec == ServerSpec /\ \A a \in Alloc : WF_allVars(Decide(a) /\ UNCHANGED serverVars)

-----------------------------------------------------------------------------
(* Safety. *)

(* "A coordinator can mint short-lived grants without the server keeping   *)
(* any per-user state": no allocation is open longer than one lifetime     *)
(* after the credential it was made with has run out, however often its    *)
(* client refreshes it.                                                    *)
NoRelayOutlivesItsCredential ==
  auth = "ephemeral" =>
    \A a \in In({"held"}) : /\ username[a] \in Timed
                            /\ now <= Expiry[username[a]] + Lifetime

(* "Refusing during authentication would also refuse the refreshes that    *)
(* keep existing allocations alive, so a full server would tear down the   *)
(* sessions it was already carrying": an open allocation has a whole       *)
(* lifetime from the last time its client asked, unless by then its        *)
(* credential had run out or the consumer's verifier had changed its mind. *)
FullServerKeepsItsSessions ==
  \A a \in In({"held"}) :
    \/ until[a] >= asked[a] + Lifetime
    \/ auth = "ephemeral" /\ Expiry[username[a]] <= asked[a]
    \/ auth = "verifier"

=============================================================================
