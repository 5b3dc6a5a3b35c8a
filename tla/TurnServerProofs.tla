-------------------------- MODULE TurnServerProofs ---------------------------
(***************************************************************************)
(* The TURN server with its clock, for any credentials, lifetime and cap:  *)
(* it is a TurnQuota, so the quota's theorems are its own, and an expired  *)
(* credential ends its allocations.                                        *)
(***************************************************************************)
EXTENDS TurnServer, TurnQuotaProofs

LEMMA StepIsQuotaStep == [ServerNext]_allVars => [Next]_vars
<1> SUFFICES ASSUME [ServerNext]_allVars PROVE [Next]_vars
  OBVIOUS
<1>1. ASSUME NEW a \in Alloc, Arrive(a) PROVE Next
  BY <1>1 DEF Arrive, Next, Request
<1>2. ASSUME NEW a \in Alloc, Refresh(a) PROVE UNCHANGED vars
  BY <1>2 DEF Refresh
<1>3. ASSUME NEW a \in Alloc, InstallTimed(a) \/ TimeOut(a) \/ Delete(a) PROVE Next
  BY <1>3 DEF InstallTimed, TimeOut, Delete, Next, Table
<1>4. CASE Untimed
  BY <1>4 DEF Untimed, Decide, Next, Request, Table
<1>5. CASE Stop
  BY <1>5 DEF Stop, Next
<1>6. CASE Tick
  BY <1>6 DEF Tick
<1>7. CASE UNCHANGED allVars
  BY <1>7 DEF allVars
<1> QED BY <1>1, <1>2, <1>3, <1>4, <1>5, <1>6, <1>7 DEF ServerNext

(* Clock, authentication and shutdown only restrict what the quota allows: *)
(* every behaviour of the server is one of TurnQuota.                      *)
THEOREM ServerImplementsQuota == ServerSpec => Spec
<1>1. ServerInit => Init
  BY DEF ServerInit
<1> QED BY <1>1, StepIsQuotaStep, PTL DEF ServerSpec, Spec

(* The quota's theorems, of the whole server. *)
THEOREM ServerKeepsItsCap == ServerSpec => [](CountExact /\ CapHolds /\ RevokeIsThorough)
  BY ServerImplementsQuota, NoSlotIsLost, CapIsHard, RevocationIsThorough, PTL

-----------------------------------------------------------------------------
(* A request in progress was admitted at most a second ago, and a refresh  *)
(* counts from the moment it was admitted; so a deadline is never further  *)
(* from the credential's expiry than a lifetime.                           *)
ClockTypeOK ==
  /\ auth \in Modes
  /\ now \in Nat
  /\ asked \in [Alloc -> Nat]
  /\ until \in [Alloc -> Nat]

Bounded(a) ==
  /\ st[a] \in InProgress =>
       /\ username[a] \in Timed
       /\ asked[a] < Expiry[username[a]]
       /\ now <= asked[a] + 1
  /\ st[a] = "held" =>
       /\ username[a] \in Timed
       /\ until[a] <= Expiry[username[a]] + Lifetime
       /\ now <= until[a]

CredentialInv ==
  /\ ClockTypeOK
  /\ auth = "ephemeral" => \A a \in Alloc : Bounded(a)

LEMMA InitCredential == ServerInit => CredentialInv
  BY DEF ServerInit, Init, CredentialInv, ClockTypeOK, Bounded, Modes, InProgress

LEMMA ClockTypeKept == TypeOK /\ ClockTypeOK /\ [ServerNext]_allVars => ClockTypeOK'
<1> SUFFICES ASSUME TypeOK, ClockTypeOK, [ServerNext]_allVars PROVE ClockTypeOK'
  OBVIOUS
<1> USE ServerAssumption DEF ClockTypeOK, serverVars, clockVars
<1>1. ASSUME NEW a \in Alloc, Arrive(a) \/ Refresh(a) \/ InstallTimed(a) PROVE ClockTypeOK'
  <2>1. Ask(a) \/ UNCHANGED asked
    BY <1>1 DEF Arrive, Refresh, InstallTimed
  <2>2. Start(a) \/ UNCHANGED until
    BY <1>1 DEF Arrive, Refresh, InstallTimed
  <2>3. UNCHANGED <<auth, now>>
    BY <1>1 DEF Arrive, Refresh, InstallTimed
  <2>4. asked' \in [Alloc -> Nat]
    BY <2>1 DEF Ask
  <2>5. until' \in [Alloc -> Nat]
    BY <2>2 DEF Start
  <2> QED BY <2>3, <2>4, <2>5
<1>2. CASE UNCHANGED serverVars
  BY <1>2
<1>3. CASE Stop
  BY <1>3 DEF Stop
<1>4. CASE Tick
  BY <1>4 DEF Tick
<1>5. CASE UNCHANGED allVars
  BY <1>5 DEF allVars
<1> QED BY <1>1, <1>2, <1>3, <1>4, <1>5 DEF ServerNext, TimeOut, Delete

LEMMA AdmittedIsTimed ==
  ASSUME auth = "ephemeral", NEW name, TRUE \in Verdicts(name)
  PROVE  name \in Timed /\ Expiry[name] > now
  BY DEF Verdicts

LEMMA RefusedIsExpired ==
  ASSUME auth = "ephemeral", NEW name \in Timed, FALSE \in Verdicts(name)
  PROVE  ~(Expiry[name] > now)
  BY DEF Verdicts

(* Steps that leave the clock alone bring no allocation into progress or   *)
(* into the table that was not already on its way there.                   *)
LEMMA UntimedKeepsState ==
  ASSUME TypeOK, Untimed, NEW b \in Alloc
  PROVE  /\ username' = username
         /\ st'[b] \in InProgress => st[b] \in InProgress
         /\ st'[b] = "held" => st[b] = "held"
<1> USE DEF TypeOK, States, InProgress
<1>1. ASSUME NEW a \in Alloc, Decide(a) \/ Relay(a) \/ Report(a)
      PROVE  /\ username' = username
             /\ st'[b] \in InProgress => st[b] \in InProgress
             /\ st'[b] = "held" => st[b] = "held"
  BY <1>1 DEF Decide, Refuse, Claim, Retry, Grant, HandBack, Relay, Report, Become
<1>2. ASSUME NEW name \in Username, Revoke(name) \/ DeleteNext(name)
      PROVE  /\ username' = username
             /\ st'[b] \in InProgress => st[b] \in InProgress
             /\ st'[b] = "held" => st[b] = "held"
  BY <1>2 DEF Revoke, DeleteNext, CloseAll
<1>3. ASSUME NEW u \in User, RevokePrincipal(u) PROVE UNCHANGED <<username, st>>
  BY <1>3 DEF RevokePrincipal
<1>4. CASE RevokeReturns
  BY <1>4 DEF RevokeReturns
<1> QED BY <1>1, <1>2, <1>3, <1>4 DEF Untimed

LEMMA NextKeepsCredential ==
  TypeOK /\ CredentialInv /\ [ServerNext]_allVars => CredentialInv'
<1> SUFFICES ASSUME TypeOK, CredentialInv, [ServerNext]_allVars PROVE CredentialInv'
  OBVIOUS
<1>0. ClockTypeOK'
  BY ClockTypeKept DEF CredentialInv
<1>a. auth' = auth
  BY DEF ServerNext, Arrive, Refresh, InstallTimed, TimeOut, Delete, Stop, Tick,
         serverVars, allVars
<1> SUFFICES ASSUME auth = "ephemeral", NEW b \in Alloc PROVE Bounded(b)'
  BY <1>0, <1>a DEF CredentialInv
<1>b. ClockTypeOK /\ Bounded(b)
  BY DEF CredentialInv
<1> USE ServerAssumption, <1>b
    DEF Bounded, ClockTypeOK, TypeOK, States, InProgress, serverVars, clockVars
<1>1. ASSUME NEW a \in Alloc, Arrive(a) PROVE Bounded(b)'
  <2>1. username[a] \in Timed /\ Expiry[username[a]] > now
    BY <1>1, AdmittedIsTimed DEF Arrive
  <2>2. /\ st' = [st EXCEPT ![a] = "loaded"]
        /\ asked' = [asked EXCEPT ![a] = now]
        /\ UNCHANGED <<username, now, until>>
    BY <1>1 DEF Arrive, Load, Become, Ask
  <2> QED BY <2>1, <2>2
<1>2. ASSUME NEW a \in Alloc, Refresh(a) PROVE Bounded(b)'
  <2>1. UNCHANGED <<st, username, now>> /\ st[a] = "held"
    BY <1>2 DEF Refresh, vars
  <2>2. b # a => asked'[b] = asked[b] /\ until'[b] = until[b]
    BY <1>2 DEF Refresh, Ask, Start
  <2>3. CASE Start(a) /\ TRUE \in Verdicts(username[a])
    <3>1. username[a] \in Timed /\ Expiry[username[a]] > now
      BY <2>3, AdmittedIsTimed
    <3> QED BY <2>1, <2>2, <2>3, <3>1 DEF Start
  <2>4. CASE UNCHANGED until
    BY <2>1, <2>2, <2>4
  <2> QED BY <1>2, <2>3, <2>4 DEF Refresh
<1>3. ASSUME NEW a \in Alloc, InstallTimed(a) PROVE Bounded(b)'
  <2>1. st[a] = "granted" /\ st' = [st EXCEPT ![a] = "held"]
        /\ until' = [until EXCEPT ![a] = now + Lifetime]
        /\ UNCHANGED <<username, now, asked>>
    BY <1>3 DEF InstallTimed, Install, Become, Start
  <2>2. CASE b = a
    <3>1. username[a] \in Timed /\ Expiry[username[a]] \in Nat
          /\ now + Lifetime <= Expiry[username[a]] + Lifetime
      BY <2>1, <2>2
    <3> QED BY <2>1, <2>2, <3>1
  <2>3. CASE b # a
    BY <2>1, <2>3
  <2> QED BY <2>2, <2>3
<1>4. ASSUME NEW a \in Alloc, TimeOut(a) \/ Delete(a) PROVE Bounded(b)'
  BY <1>4 DEF TimeOut, Delete, Expire, Become
<1>5. CASE Untimed /\ UNCHANGED serverVars
  BY <1>5, UntimedKeepsState
<1>6. CASE Stop
  BY <1>6 DEF Stop, Close, CloseAll
<1>7. CASE Tick
  BY <1>7 DEF Tick, vars
<1>8. CASE UNCHANGED allVars
  BY <1>8 DEF allVars, vars
<1> QED BY <1>1, <1>2, <1>3, <1>4, <1>5, <1>6, <1>7, <1>8 DEF ServerNext

LEMMA ServerTypeCorrect == ServerSpec => []TypeOK
  BY ServerImplementsQuota, TypeCorrect, PTL

(* With ephemeral credentials no allocation is open longer than a lifetime *)
(* after its credential has run out, whoever refreshes it.                 *)
THEOREM CredentialsEndRelays == ServerSpec => []NoRelayOutlivesItsCredential
<1>1. TypeOK /\ CredentialInv => NoRelayOutlivesItsCredential
  <2> SUFFICES ASSUME CredentialInv, auth = "ephemeral", NEW a \in Alloc, st[a] = "held"
               PROVE  username[a] \in Timed /\ now <= Expiry[username[a]] + Lifetime
    BY DEF NoRelayOutlivesItsCredential, In
  <2>1. Bounded(a) /\ now \in Nat /\ until[a] \in Nat
    BY DEF CredentialInv, ClockTypeOK
  <2>2. username[a] \in Timed /\ until[a] <= Expiry[username[a]] + Lifetime /\ now <= until[a]
    BY <2>1 DEF Bounded
  <2>3. Expiry[username[a]] + Lifetime \in Nat
    BY <2>2, ServerAssumption
  <2> QED BY <2>1, <2>2, <2>3
<1> QED BY <1>1, ServerTypeCorrect, InitCredential, NextKeepsCredential, PTL DEF ServerSpec
-----------------------------------------------------------------------------
(* A full server keeps its sessions: the deadline follows every request of *)
(* the client that its credential still covers, whatever the counter says. *)
(* An allocation under a static name was admitted by the static table.     *)
Kept(a) ==
  /\ st[a] = "held" =>
       \/ until[a] >= asked[a] + Lifetime
       \/ auth = "ephemeral" /\ Expiry[username[a]] <= asked[a]
       \/ auth = "verifier"
  /\ st[a] \in InProgress => asked[a] <= now
  /\ auth = "static" /\ st[a] \in InProgress \cup {"held"} => username[a] \in Known

SessionInv == \A a \in Alloc : Kept(a)

LEMMA InitSession == ServerInit => SessionInv
  BY DEF ServerInit, Init, SessionInv, Kept, InProgress

LEMMA NextKeepsSession ==
  TypeOK /\ CredentialInv /\ SessionInv /\ [ServerNext]_allVars => SessionInv'
<1> SUFFICES ASSUME TypeOK, CredentialInv, SessionInv, [ServerNext]_allVars,
                    NEW b \in Alloc
             PROVE  Kept(b)'
  BY DEF SessionInv
<1>c. Kept(b) /\ ClockTypeOK
  BY DEF SessionInv, CredentialInv
<1> USE ServerAssumption, <1>c
    DEF Kept, ClockTypeOK, TypeOK, States, InProgress, Modes, serverVars, clockVars
<1>1. ASSUME NEW a \in Alloc, Arrive(a) PROVE Kept(b)'
  <2>1. auth = "static" => username[a] \in Known
    BY <1>1 DEF Arrive, Verdicts
  <2>2. /\ st' = [st EXCEPT ![a] = "loaded"]
        /\ asked' = [asked EXCEPT ![a] = now]
        /\ UNCHANGED <<username, now, until, auth>>
    BY <1>1 DEF Arrive, Load, Become, Ask
  <2> QED BY <2>1, <2>2
<1>2. ASSUME NEW a \in Alloc, Refresh(a) PROVE Kept(b)'
  <2>1. /\ UNCHANGED <<st, username, now, auth>> /\ st[a] = "held"
        /\ asked' = [asked EXCEPT ![a] = now]
    BY <1>2 DEF Refresh, vars, Ask
  <2>2. CASE Start(a)
    <3>1. b = a => until'[b] = now + Lifetime /\ asked'[b] = now
      BY <2>1, <2>2 DEF Start
    <3>2. b # a => until'[b] = until[b] /\ asked'[b] = asked[b]
      BY <2>1, <2>2 DEF Start
    <3>3. b = a => until'[b] >= asked'[b] + Lifetime
      BY <3>1
    <3> QED BY <2>1, <3>2, <3>3
  <2>3. CASE FALSE \in Verdicts(username[a]) /\ UNCHANGED until
    <3>1. auth = "static" => username[a] \notin Known
      BY <2>3 DEF Verdicts
    <3>2. auth = "ephemeral" => username[a] \in Timed
      BY <2>1 DEF CredentialInv, Bounded
    <3>3. auth = "ephemeral" => Expiry[username[a]] \in Nat /\ Expiry[username[a]] <= now
      <4> SUFFICES ASSUME auth = "ephemeral"
                   PROVE  Expiry[username[a]] \in Nat /\ Expiry[username[a]] <= now
        OBVIOUS
      <4>1. ~(Expiry[username[a]] > now)
        BY <2>3, <3>2, RefusedIsExpired
      <4>2. Expiry[username[a]] \in Nat
        BY <3>2
      <4> QED BY <4>1, <4>2
    <3>4. CASE b = a
      <4>1. asked'[b] = now /\ username'[b] = username[a] /\ auth' = auth /\ st'[b] = "held"
        BY <2>1, <3>4
      <4>2. auth = "static" => FALSE
        BY <2>1, <3>1, <3>4
      <4> QED BY <3>3, <4>1, <4>2
    <3>5. CASE b # a
      BY <2>1, <2>3, <3>5
    <3> QED BY <3>4, <3>5
  <2> QED BY <1>2, <2>2, <2>3 DEF Refresh
<1>3. ASSUME NEW a \in Alloc, InstallTimed(a) PROVE Kept(b)'
  <2>1. /\ st[a] = "granted" /\ st' = [st EXCEPT ![a] = "held"]
        /\ until' = [until EXCEPT ![a] = now + Lifetime]
        /\ UNCHANGED <<username, now, asked, auth>>
    BY <1>3 DEF InstallTimed, Install, Become, Start
  <2>2. CASE b = a
    <3>1. until'[b] = now + Lifetime /\ asked'[b] = asked[b] /\ asked[b] <= now
      BY <2>1, <2>2
    <3>2. until'[b] >= asked'[b] + Lifetime
      BY <3>1
    <3> QED BY <2>1, <2>2, <3>2
  <2>3. CASE b # a
    BY <2>1, <2>3
  <2> QED BY <2>2, <2>3
<1>4. ASSUME NEW a \in Alloc, TimeOut(a) \/ Delete(a) PROVE Kept(b)'
  BY <1>4 DEF TimeOut, Delete, Expire, Become
<1>5. CASE Untimed /\ UNCHANGED serverVars
  BY <1>5, UntimedKeepsState
<1>6. CASE Stop
  BY <1>6 DEF Stop, Close, CloseAll
<1>7. CASE Tick
  BY <1>7 DEF Tick, vars
<1>8. CASE UNCHANGED allVars
  BY <1>8 DEF allVars, vars
<1> QED BY <1>1, <1>2, <1>3, <1>4, <1>5, <1>6, <1>7, <1>8 DEF ServerNext

(* A client that refreshes with a credential that still holds keeps its    *)
(* allocation for a whole lifetime, however full the server is.            *)
THEOREM FullServerIsNoHarm == ServerSpec => []FullServerKeepsItsSessions
<1>1. SessionInv => FullServerKeepsItsSessions
  BY DEF SessionInv, Kept, FullServerKeepsItsSessions, In
<1> QED BY <1>1, ServerTypeCorrect, InitCredential, NextKeepsCredential,
        InitSession, NextKeepsSession, PTL DEF ServerSpec
=============================================================================
