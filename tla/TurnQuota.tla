------------------------------ MODULE TurnQuota ------------------------------
(***************************************************************************)
(* The TURN relay's allocation quota and its revocation.                   *)
(*                                                                         *)
(* An allocation request claims a slot of live_allocations with a          *)
(* compare-and-swap loop before the relay socket is allocated; the slot    *)
(* comes back when allocating fails, or when the close-notification task   *)
(* receives the report of a closed allocation.  The allocation table, its  *)
(* expiry and its deletions belong to the turn crate.                      *)
(*                                                                         *)
(* An element of Alloc is one request and the allocation it may become; it *)
(* is used once.  The slots it passes through are its state st.            *)
(***************************************************************************)
EXTENDS Integers, FiniteSets

CONSTANTS
  Alloc,            \* the allocation requests
  Username,         \* the usernames of the credentials
  User,             \* the principals usernames may name
  NoUser,           \* a username that names none
  Principal,        \* credential_principal: username -> principal or NoUser
  Caps,             \* the values max_allocations may be configured with
  MaxBytes          \* bound: the bytes one allocation relays

ASSUME QuotaAssumption ==
  /\ IsFiniteSet(Alloc)
  /\ NoUser \notin User
  /\ Principal \in [Username -> User \cup {NoUser}]
  /\ Caps \subseteq Nat
  /\ MaxBytes \in Nat

VARIABLES
  st,                    \* request -> its state
  username,              \* request -> the username that authenticated it
  seen,                  \* request -> the value its CAS expects (a local)
  bytes,                 \* request -> the bytes its allocation has relayed
  max_allocations,       \* the cap, which the configuration sets
  live_allocations,
  allocations_granted,
  allocations_refused,
  allocations_closed,
  relayed_bytes_closed,
  rev_pc,                \* the revoke_principal call: idle, deleting, returned
  matching,              \* the allocations its snapshot matched
  usernames              \* the usernames it has still to delete

counters == <<max_allocations, live_allocations, allocations_granted,
              allocations_refused, allocations_closed, relayed_bytes_closed>>
revVars  == <<rev_pc, matching, usernames>>
vars     == <<st, username, seen, bytes, counters, revVars>>

(* new: not made yet; loaded: in the CAS loop; claimed: it owns a slot;    *)
(* granted: allocated, not yet in the table; held: in the table; closing:  *)
(* removed, its report under way; reported: the report has been handled.   *)
States == {"new", "loaded", "refused", "claimed", "failed", "granted", "held",
           "closing", "reported"}
In(S) == {a \in Alloc : st[a] \in S}

TypeOK ==
  /\ st \in [Alloc -> States]
  /\ username \in [Alloc -> Username]
  /\ seen \in [Alloc -> 0..max_allocations]
  /\ bytes \in [Alloc -> 0..MaxBytes]
  /\ max_allocations \in Caps
  /\ live_allocations \in 0..max_allocations
  /\ allocations_granted \in Nat
  /\ allocations_refused \in Nat
  /\ allocations_closed \in Nat
  /\ relayed_bytes_closed \in Nat
  /\ rev_pc \in {"idle", "deleting", "returned"}
  /\ matching \in SUBSET Alloc
  /\ usernames \in SUBSET Username

Init ==
  /\ st = [a \in Alloc |-> "new"]
  /\ username \in [Alloc -> Username]
  /\ seen = [a \in Alloc |-> 0]
  /\ bytes = [a \in Alloc |-> 0]
  /\ max_allocations \in Caps
  /\ live_allocations = 0
  /\ allocations_granted = 0
  /\ allocations_refused = 0
  /\ allocations_closed = 0
  /\ relayed_bytes_closed = 0
  /\ rev_pc = "idle"
  /\ matching = {} /\ usernames = {}

-----------------------------------------------------------------------------
(* allocate_conn. *)

Become(a, s) == st' = [st EXCEPT ![a] = s]

(* An authenticated request: the first load of the counter. *)
Load(a) ==
  /\ st[a] = "new"
  /\ Become(a, "loaded")
  /\ seen' = [seen EXCEPT ![a] = live_allocations]
  /\ UNCHANGED <<username, bytes, counters, revVars>>

Refuse(a) ==
  /\ st[a] = "loaded" /\ seen[a] >= max_allocations
  /\ seen' = [seen EXCEPT ![a] = 0]
  /\ Become(a, "refused")
  /\ allocations_refused' = allocations_refused + 1
  /\ UNCHANGED <<username, bytes, max_allocations, live_allocations,
                 allocations_granted, allocations_closed, relayed_bytes_closed, revVars>>

Claim_StoreSeen(a) ==   \* mutant: stores seen + 1 without comparing
  /\ st[a] = "loaded" /\ seen[a] < max_allocations
  /\ live_allocations' = seen[a] + 1
  /\ seen' = [seen EXCEPT ![a] = 0]
  /\ Become(a, "claimed")
  /\ UNCHANGED <<username, bytes, max_allocations, allocations_granted,
                 allocations_refused, allocations_closed, relayed_bytes_closed, revVars>>

(* compare_exchange_weak succeeds. *)
Claim(a) ==
  /\ st[a] = "loaded" /\ seen[a] < max_allocations
  /\ live_allocations = seen[a]
  /\ live_allocations' = live_allocations + 1
  /\ seen' = [seen EXCEPT ![a] = 0]
  /\ Become(a, "claimed")
  /\ UNCHANGED <<username, bytes, max_allocations, allocations_granted,
                 allocations_refused, allocations_closed, relayed_bytes_closed, revVars>>

Retry_KeepsSeen(a) ==   \* mutant: the value that was found is ignored
  /\ st[a] = "loaded" /\ seen[a] < max_allocations
  /\ live_allocations # seen[a]
  /\ UNCHANGED vars

(* It fails, and the value it found becomes the next one to compare with.  *)
(* (A spurious failure finds the value expected, and changes nothing.)     *)
Retry(a) ==
  /\ st[a] = "loaded" /\ seen[a] < max_allocations
  /\ live_allocations # seen[a]
  /\ seen' = [seen EXCEPT ![a] = live_allocations]
  /\ UNCHANGED <<st, username, bytes, counters, revVars>>

Grant(a) ==
  /\ st[a] = "claimed"
  /\ Become(a, "granted")
  /\ allocations_granted' = allocations_granted + 1
  /\ UNCHANGED <<username, seen, bytes, max_allocations, live_allocations,
                 allocations_refused, allocations_closed, relayed_bytes_closed, revVars>>

HandBack_Forgotten(a) ==   \* mutant: `?` on the error leaves the slot taken
  /\ st[a] = "claimed"
  /\ Become(a, "failed")
  /\ UNCHANGED <<username, seen, bytes, counters, revVars>>

(* The relay socket cannot be allocated: the slot is handed back. *)
HandBack(a) ==
  /\ st[a] = "claimed"
  /\ Become(a, "failed")
  /\ live_allocations' = live_allocations - 1
  /\ UNCHANGED <<username, seen, bytes, max_allocations, allocations_granted,
                 allocations_refused, allocations_closed, relayed_bytes_closed, revVars>>

-----------------------------------------------------------------------------
(* The allocation table of the turn crate. *)

Install(a) ==
  /\ st[a] = "granted"
  /\ Become(a, "held")
  /\ UNCHANGED <<username, seen, bytes, counters, revVars>>

Relay(a) ==
  /\ st[a] = "held" /\ bytes[a] < MaxBytes
  /\ bytes' = [bytes EXCEPT ![a] = @ + 1]
  /\ UNCHANGED <<st, username, seen, counters, revVars>>

(* The lifetime runs out, or the client deletes it. *)
Expire(a) ==
  /\ st[a] = "held"
  /\ Become(a, "closing")
  /\ UNCHANGED <<username, seen, bytes, counters, revVars>>

(* delete_allocations_by_username: every allocation under the name at once.*)
HeldBy(name) == {a \in In({"held"}) : username[a] = name}
CloseAll(S) == st' = [a \in Alloc |-> IF a \in S THEN "closing" ELSE st[a]]

(* close: the server releases its allocations. *)
Close ==
  /\ CloseAll(In({"held"}))
  /\ UNCHANGED <<username, seen, bytes, counters, revVars>>

-----------------------------------------------------------------------------
(* The close-notification task. *)

Report_BytesOfOpen(a) ==   \* mutant: files the report, keeps the byte count
  /\ st[a] = "closing"
  /\ Become(a, "reported")
  /\ live_allocations' = live_allocations - 1
  /\ allocations_closed' = allocations_closed + 1
  /\ UNCHANGED <<username, seen, bytes, max_allocations, allocations_granted,
                 allocations_refused, relayed_bytes_closed, revVars>>

Report(a) ==
  /\ st[a] = "closing"
  /\ Become(a, "reported")
  /\ live_allocations' = live_allocations - 1
  /\ allocations_closed' = allocations_closed + 1
  /\ relayed_bytes_closed' = relayed_bytes_closed + bytes[a]
  /\ UNCHANGED <<username, seen, bytes, max_allocations, allocations_granted,
                 allocations_refused, revVars>>

-----------------------------------------------------------------------------
(* Revocation. *)

(* revoke: one username. *)
Revoke(name) ==
  /\ HeldBy(name) # {}
  /\ CloseAll(HeldBy(name))
  /\ UNCHANGED <<username, seen, bytes, counters, revVars>>

(* revoke_principal: a snapshot of the table, then one deletion per        *)
(* distinct username it matched.                                           *)
RevokePrincipal(u) ==
  LET hit == {a \in In({"held"}) : Principal[username[a]] = u} IN
  /\ rev_pc = "idle"
  /\ rev_pc' = "deleting"
  /\ matching' = hit
  /\ usernames' = {username[a] : a \in hit}
  /\ UNCHANGED <<st, username, seen, bytes, counters>>

DeleteNext_Only(name) ==   \* mutant: one deletion, of the name matched first
  /\ rev_pc = "deleting" /\ name \in usernames
  /\ CloseAll(HeldBy(name))
  /\ usernames' = {}
  /\ UNCHANGED <<username, seen, bytes, counters, rev_pc, matching>>

DeleteNext(name) ==
  /\ rev_pc = "deleting" /\ name \in usernames
  /\ CloseAll(HeldBy(name))
  /\ usernames' = usernames \ {name}
  /\ UNCHANGED <<username, seen, bytes, counters, rev_pc, matching>>

RevokeReturns ==
  /\ rev_pc = "deleting" /\ usernames = {}
  /\ rev_pc' = "returned"
  /\ UNCHANGED <<st, username, seen, bytes, counters, matching, usernames>>

-----------------------------------------------------------------------------
Request(a) == Load(a) \/ Refuse(a) \/ Claim(a) \/ Retry(a) \/ Grant(a) \/ HandBack(a)

Table(a) == Install(a) \/ Relay(a) \/ Expire(a)

Next ==
  \/ \E a \in Alloc : Request(a) \/ Table(a) \/ Report(a)
  \/ \E name \in Username : Revoke(name) \/ DeleteNext(name)
  \/ \E u \in User : RevokePrincipal(u)
  \/ RevokeReturns
  \/ Close

Spec == Init /\ [][Next]_vars

-----------------------------------------------------------------------------
(* Safety. *)

Occupying == In({"claimed", "granted", "held", "closing"})

(* The counter is exactly the slots in use: claims in progress, relays,    *)
(* and closed relays whose report is still under way.  So no slot is lost  *)
(* when allocating fails, none is released twice, and fetch_sub never      *)
(* wraps below zero.                                                       *)
CountExact == live_allocations = Cardinality(Occupying)

(* However many requests race, the relays never exceed the cap ("so        *)
(* concurrent requests cannot both squeeze past the cap").                 *)
CapHolds == Cardinality(In({"granted", "held"})) <= max_allocations

(* The total of f over S: what adding its elements one by one comes to.    *)
IsTotal(n, f, S) ==
  \E sum \in [SUBSET S -> 0..n] :
    /\ sum[{}] = 0 /\ sum[S] = n
    /\ \A R \in SUBSET S : \A a \in S \ R : sum[R \cup {a}] = sum[R] + f[a]

(* The counters account for every request that was decided, and the bytes  *)
(* of a closed allocation are attributed exactly once ("no traffic goes    *)
(* unattributed").                                                         *)
MetricsAgree ==
  /\ allocations_granted = Cardinality(In({"granted", "held", "closing", "reported"}))
  /\ allocations_refused = Cardinality(In({"refused"}))
  /\ allocations_closed = Cardinality(In({"reported"}))
  /\ IsTotal(relayed_bytes_closed, bytes, In({"reported"}))

(* When revoke_principal returns, no allocation of its snapshot survives,  *)
(* under whichever of the user's credentials it was made.                  *)
RevokeIsThorough == rev_pc = "returned" => \A a \in matching : st[a] # "held"

-----------------------------------------------------------------------------
(* Liveness. *)

(* The loop around compare_exchange_weak ends: every request is granted,   *)
(* refused or failed, whatever the others do.                              *)
RequestIsDecided == \A a \in Alloc : st[a] = "loaded" ~> st[a] # "loaded"
=============================================================================
