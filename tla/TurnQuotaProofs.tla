--------------------------- MODULE TurnQuotaProofs ---------------------------
(***************************************************************************)
(* The TURN quota, for any finite set of requests and any configured cap.  *)
(***************************************************************************)
EXTENDS TurnQuota, FiniteSetTheorems, TLAPS

(* The inductive invariant: types, and the counter as the number of slots  *)
(* in use.  The cap follows because the counter never passes it.           *)
QuotaInv == TypeOK /\ CountExact

LEMMA InIsFinite == ASSUME NEW S PROVE IsFiniteSet(In(S)) /\ Cardinality(In(S)) \in Nat
  BY QuotaAssumption, FS_Subset, FS_CardinalityType DEF In

LEMMA InitQuota == Init => QuotaInv
<1> SUFFICES ASSUME Init PROVE QuotaInv
  OBVIOUS
<1>1. TypeOK
  BY QuotaAssumption DEF Init, TypeOK, States
<1>2. Occupying = {}
  BY DEF Init, Occupying, In
<1>3. CountExact
  BY <1>2, FS_EmptySet DEF CountExact, Init
<1> QED BY <1>1, <1>3 DEF QuotaInv

(* A request that takes a slot, one that gives its slot back, and steps    *)
(* that leave the set of occupied slots alone.                             *)
LEMMA SlotTaken ==
  ASSUME TypeOK, CountExact, NEW a \in Alloc, a \notin Occupying,
         Occupying' = Occupying \cup {a}, live_allocations' = live_allocations + 1
  PROVE  CountExact'
<1>1. IsFiniteSet(Occupying)
  BY InIsFinite DEF Occupying
<1>2. Cardinality(Occupying \cup {a}) = Cardinality(Occupying) + 1
  BY <1>1, FS_AddElement
<1> QED BY <1>2 DEF CountExact

LEMMA SlotReturned ==
  ASSUME TypeOK, CountExact, NEW a \in Alloc, a \in Occupying,
         Occupying' = Occupying \ {a}, live_allocations' = live_allocations - 1
  PROVE  CountExact' /\ live_allocations' \in 0..max_allocations
<1>1. IsFiniteSet(Occupying) /\ Cardinality(Occupying) \in Nat
  BY InIsFinite DEF Occupying
<1>2. Cardinality(Occupying \ {a}) = Cardinality(Occupying) - 1
  BY <1>1, FS_RemoveElement
<1>3. IsFiniteSet(Occupying \ {a})
  BY <1>1, FS_Subset
<1>4. Cardinality(Occupying \ {a}) \in Nat
  BY <1>3, FS_CardinalityType
<1> QED BY <1>2, <1>4, <1>1, QuotaAssumption DEF CountExact, TypeOK

LEMMA SlotsUnchanged ==
  ASSUME CountExact, Occupying' = Occupying, live_allocations' = live_allocations
  PROVE  CountExact'
  BY DEF CountExact

-----------------------------------------------------------------------------
(* The steps of a request. *)

LEMMA RequestKeepsQuota ==
  ASSUME QuotaInv, NEW a \in Alloc, Request(a)
  PROVE  QuotaInv'
<1> USE DEF QuotaInv
<1>1. CASE Load(a)
  <2>1. TypeOK'
    BY <1>1, QuotaAssumption DEF Load, TypeOK, Become, States, counters, revVars
  <2>2. Occupying' = Occupying /\ live_allocations' = live_allocations
    BY <1>1 DEF Load, TypeOK, Become, Occupying, In, counters
  <2> QED BY <2>1, <2>2, SlotsUnchanged
<1>2. CASE Refuse(a)
  <2>1. TypeOK'
    BY <1>2, QuotaAssumption DEF Refuse, TypeOK, Become, States, revVars
  <2>2. Occupying' = Occupying /\ live_allocations' = live_allocations
    BY <1>2 DEF Refuse, TypeOK, Become, Occupying, In
  <2> QED BY <2>1, <2>2, SlotsUnchanged
<1>3. CASE Claim(a)
  <2>1. TypeOK'
    BY <1>3, QuotaAssumption DEF Claim, TypeOK, Become, States, revVars
  <2>2. a \notin Occupying /\ Occupying' = Occupying \cup {a}
    BY <1>3 DEF Claim, TypeOK, Become, Occupying, In
  <2>3. live_allocations' = live_allocations + 1
    BY <1>3 DEF Claim
  <2> QED BY <2>1, <2>2, <2>3, SlotTaken
<1>4. CASE Retry(a)
  <2>1. TypeOK'
    BY <1>4 DEF Retry, TypeOK, counters, revVars
  <2>2. Occupying' = Occupying /\ live_allocations' = live_allocations
    BY <1>4 DEF Retry, Occupying, In, counters
  <2> QED BY <2>1, <2>2, SlotsUnchanged
<1>5. CASE Grant(a)
  <2>1. TypeOK'
    BY <1>5 DEF Grant, TypeOK, Become, States, revVars
  <2>2. Occupying' = Occupying /\ live_allocations' = live_allocations
    BY <1>5 DEF Grant, TypeOK, Become, Occupying, In
  <2> QED BY <2>1, <2>2, SlotsUnchanged
<1>6. CASE HandBack(a)
  <2>1. a \in Occupying /\ Occupying' = Occupying \ {a}
    BY <1>6 DEF HandBack, TypeOK, Become, Occupying, In
  <2>2. live_allocations' = live_allocations - 1
    BY <1>6 DEF HandBack
  <2>3. CountExact' /\ live_allocations' \in 0..max_allocations
    BY <2>1, <2>2, SlotReturned
  <2>4. TypeOK'
    BY <1>6, <2>3 DEF HandBack, TypeOK, Become, States, revVars
  <2> QED BY <2>3, <2>4
<1> QED BY <1>1, <1>2, <1>3, <1>4, <1>5, <1>6 DEF Request

-----------------------------------------------------------------------------
(* The table, the close-notification task and revocation. *)

LEMMA TableKeepsQuota ==
  ASSUME QuotaInv, NEW a \in Alloc, Table(a)
  PROVE  QuotaInv'
<1> USE DEF QuotaInv
<1>1. TypeOK'
  <2>1. CASE Install(a)
    BY <2>1 DEF Install, TypeOK, Become, States, counters, revVars
  <2>2. CASE Relay(a)
    <3>1. bytes' \in [Alloc -> 0..MaxBytes]
      BY <2>2, QuotaAssumption DEF Relay, TypeOK
    <3> QED BY <2>2, <3>1 DEF Relay, TypeOK, counters, revVars
  <2>3. CASE Expire(a)
    BY <2>3 DEF Expire, TypeOK, Become, States, counters, revVars
  <2> QED BY <2>1, <2>2, <2>3 DEF Table
<1>2. Occupying' = Occupying /\ live_allocations' = live_allocations
  BY DEF Table, Install, Relay, Expire, TypeOK, Become, Occupying, In, counters
<1> QED BY <1>1, <1>2, SlotsUnchanged

LEMMA ReportKeepsQuota ==
  ASSUME QuotaInv, NEW a \in Alloc, Report(a)
  PROVE  QuotaInv'
<1> USE DEF QuotaInv
<1>1. a \in Occupying /\ Occupying' = Occupying \ {a}
  BY DEF Report, TypeOK, Become, Occupying, In
<1>2. live_allocations' = live_allocations - 1
  BY DEF Report
<1>3. CountExact' /\ live_allocations' \in 0..max_allocations
  BY <1>1, <1>2, SlotReturned
<1>4. bytes[a] \in Nat
  BY QuotaAssumption DEF TypeOK
<1>5. TypeOK'
  BY <1>3, <1>4 DEF Report, TypeOK, Become, States, revVars
<1> QED BY <1>3, <1>5

LEMMA ClosingKeepsSlots ==
  ASSUME TypeOK, NEW S \in SUBSET In({"held"}), CloseAll(S)
  PROVE  st' \in [Alloc -> States] /\ Occupying' = Occupying
  BY DEF CloseAll, In, Occupying, TypeOK, States

LEMMA HeldByIsHeld == ASSUME NEW name PROVE HeldBy(name) \in SUBSET In({"held"})
  BY DEF HeldBy

LEMMA RevocationKeepsQuota ==
  ASSUME QuotaInv,
         \/ \E name \in Username : Revoke(name) \/ DeleteNext(name)
         \/ \E u \in User : RevokePrincipal(u)
         \/ RevokeReturns
         \/ Close
  PROVE  QuotaInv'
<1> USE DEF QuotaInv
<1>1. ASSUME NEW name \in Username, Revoke(name) PROVE QuotaInv'
  <2>1. st' \in [Alloc -> States] /\ Occupying' = Occupying
    BY <1>1, HeldByIsHeld, ClosingKeepsSlots DEF Revoke
  <2>2. TypeOK'
    BY <1>1, <2>1 DEF Revoke, TypeOK, counters, revVars
  <2> QED BY <1>1, <2>1, <2>2, SlotsUnchanged DEF Revoke, counters
<1>2. ASSUME NEW name \in Username, DeleteNext(name) PROVE QuotaInv'
  <2>1. st' \in [Alloc -> States] /\ Occupying' = Occupying
    BY <1>2, HeldByIsHeld, ClosingKeepsSlots DEF DeleteNext
  <2>2. HeldBy(name) \subseteq Alloc
    BY DEF HeldBy, In
  <2>3. TypeOK'
    BY <1>2, <2>1, <2>2 DEF DeleteNext, TypeOK, counters
  <2> QED BY <1>2, <2>1, <2>3, SlotsUnchanged DEF DeleteNext, counters
<1>3. ASSUME NEW u \in User, RevokePrincipal(u) PROVE QuotaInv'
  <2>1. TypeOK'
    BY <1>3 DEF RevokePrincipal, TypeOK, counters, In
  <2>2. Occupying' = Occupying /\ live_allocations' = live_allocations
    BY <1>3 DEF RevokePrincipal, Occupying, In, counters
  <2> QED BY <2>1, <2>2, SlotsUnchanged
<1>4. CASE RevokeReturns
  <2>1. TypeOK'
    BY <1>4 DEF RevokeReturns, TypeOK, counters
  <2>2. Occupying' = Occupying /\ live_allocations' = live_allocations
    BY <1>4 DEF RevokeReturns, Occupying, In, counters
  <2> QED BY <2>1, <2>2, SlotsUnchanged
<1>5. CASE Close
  <2>1. st' \in [Alloc -> States] /\ Occupying' = Occupying
    BY <1>5, ClosingKeepsSlots DEF Close
  <2>2. TypeOK'
    BY <1>5, <2>1 DEF Close, TypeOK, counters, revVars
  <2> QED BY <1>5, <2>1, <2>2, SlotsUnchanged DEF Close, counters
<1> QED BY <1>1, <1>2, <1>3, <1>4, <1>5

LEMMA NextKeepsQuota == QuotaInv /\ [Next]_vars => QuotaInv'
<1> SUFFICES ASSUME QuotaInv, [Next]_vars PROVE QuotaInv'
  OBVIOUS
<1>1. CASE Next
  BY <1>1, RequestKeepsQuota, TableKeepsQuota, ReportKeepsQuota,
     RevocationKeepsQuota DEF Next
<1>2. CASE UNCHANGED vars
  BY <1>2 DEF QuotaInv, TypeOK, CountExact, Occupying, In, vars, counters, revVars
<1> QED BY <1>1, <1>2

THEOREM QuotaInvariant == Spec => []QuotaInv
  BY InitQuota, NextKeepsQuota, PTL DEF Spec

-----------------------------------------------------------------------------
(* Type correctness: in particular live_allocations stays in               *)
(* 0..max_allocations, so fetch_sub never wraps.                           *)
THEOREM TypeCorrect == Spec => []TypeOK
  BY QuotaInvariant, PTL DEF QuotaInv

(* The counter is the number of slots in use, for any number of racing     *)
(* requests: no slot is lost or released twice.                            *)
THEOREM NoSlotIsLost == Spec => []CountExact
  BY QuotaInvariant, PTL DEF QuotaInv

LEMMA CapFollows == QuotaInv => CapHolds
<1> SUFFICES ASSUME QuotaInv PROVE CapHolds
  OBVIOUS
<1>1. In({"granted", "held"}) \subseteq Occupying
  BY DEF In, Occupying
<1>2. IsFiniteSet(Occupying) /\ Cardinality(Occupying) \in Nat
  BY InIsFinite DEF Occupying
<1>3. Cardinality(In({"granted", "held"})) <= Cardinality(Occupying)
  BY <1>1, <1>2, FS_Subset
<1>4. Cardinality(In({"granted", "held"})) \in Nat
  BY InIsFinite
<1> QED BY <1>2, <1>3, <1>4, QuotaAssumption
        DEF CapHolds, QuotaInv, CountExact, TypeOK

(* However many requests race, no more relays are open than the cap. *)
THEOREM CapIsHard == Spec => []CapHolds
  BY QuotaInvariant, CapFollows, PTL

-----------------------------------------------------------------------------
(* The metrics. *)

Granted  == In({"granted", "held", "closing", "reported"})
Refused  == In({"refused"})
Reported == In({"reported"})

LEMMA EmptyTotal == ASSUME NEW f PROVE IsTotal(0, f, {})
<1> DEFINE sum == [R \in SUBSET {} |-> 0]
<1>1. sum \in [SUBSET {} -> 0..0] /\ sum[{}] = 0
  OBVIOUS
<1> QED
  BY <1>1 DEF IsTotal

(* One more element, and the same elements with the same values. *)
LEMMA AddToTotal ==
  ASSUME NEW n \in Nat, NEW f, NEW S, IsTotal(n, f, S), NEW a, a \notin S,
         \A b \in S \cup {a} : f[b] \in Nat
  PROVE  IsTotal(n + f[a], f, S \cup {a})
<1>1. PICK sum \in [SUBSET S -> 0..n] :
        /\ sum[{}] = 0 /\ sum[S] = n
        /\ \A R \in SUBSET S : \A b \in S \ R : sum[R \cup {b}] = sum[R] + f[b]
  BY DEF IsTotal
<1> DEFINE T == S \cup {a}
           more == [R \in SUBSET T |-> IF a \in R THEN sum[R \ {a}] + f[a] ELSE sum[R]]
<1>2. ASSUME NEW R \in SUBSET T
      PROVE  /\ R \ {a} \in SUBSET S /\ sum[R \ {a}] \in 0..n
             /\ a \notin R => R \ {a} = R
             /\ more[R] = sum[R \ {a}] + (IF a \in R THEN f[a] ELSE 0)
  <2>1. R \ {a} \in SUBSET S
    OBVIOUS
  <2>2. sum[R \ {a}] \in 0..n
    BY <2>1
  <2>3. a \notin R => R \ {a} = R
    OBVIOUS
  <2>4. more[R] = IF a \in R THEN sum[R \ {a}] + f[a] ELSE sum[R]
    OBVIOUS
  <2> HIDE DEF more
  <2>5. CASE a \in R
    BY <2>1, <2>2, <2>4, <2>5
  <2>6. CASE a \notin R
    <3>1. more[R] = sum[R \ {a}]
      BY <2>3, <2>4, <2>6
    <3> QED BY <2>1, <2>2, <2>3, <2>6, <3>1
  <2> QED BY <2>5, <2>6
<1> HIDE DEF more
<1>3. more \in [SUBSET T -> 0..(n + f[a])]
  <2>1. more = [R \in SUBSET T |-> more[R]]
    BY DEF more
  <2>2. ASSUME NEW R \in SUBSET T PROVE more[R] \in 0..(n + f[a])
    <3> DEFINE x == sum[R \ {a}]
               y == IF a \in R THEN f[a] ELSE 0
    <3>1. x \in 0..n /\ y \in 0..f[a] /\ f[a] \in Nat /\ more[R] = x + y
      BY <1>2
    <3> HIDE DEF x, y
    <3> QED BY <3>1
  <2> QED BY <2>1, <2>2
<1>4. more[{}] = 0
  <2>1. {} \in SUBSET T /\ a \notin {} /\ {} \ {a} = {}
    OBVIOUS
  <2>2. more[{}] = sum[{} \ {a}] + 0
    BY <1>2, <2>1
  <2>3. sum[{}] = 0
    BY <1>1
  <2> QED BY <2>1, <2>2, <2>3
<1>5. more[T] = n + f[a]
  <2>1. T \in SUBSET T /\ a \in T /\ T \ {a} = S
    OBVIOUS
  <2> QED BY <1>1, <1>2, <2>1
<1>6. ASSUME NEW R \in SUBSET T, NEW b \in T \ R
      PROVE  more[R \cup {b}] = more[R] + f[b]
  <2>1. R \cup {b} \in SUBSET T
    OBVIOUS
  <2>2. CASE b = a
    <3>1. a \in R \cup {b} /\ a \notin R /\ (R \cup {b}) \ {a} = R \ {a}
      BY <2>2
    <3>2. more[R \cup {b}] = sum[R \ {a}] + f[a]
      BY <1>2, <2>1, <3>1
    <3>3. more[R] = sum[R \ {a}] + 0
      BY <1>2, <3>1
    <3> QED BY <1>2, <2>2, <3>2, <3>3
  <2>3. CASE b # a
    <3>1. /\ b \in S \ (R \ {a}) /\ (R \cup {b}) \ {a} = (R \ {a}) \cup {b}
          /\ a \in R \cup {b} <=> a \in R
      BY <2>3
    <3>2. sum[(R \ {a}) \cup {b}] = sum[R \ {a}] + f[b]
      BY <1>1, <1>2, <3>1
    <3>3. sum[(R \ {a}) \cup {b}] \in 0..n /\ sum[R \ {a}] \in 0..n
      BY <1>2, <2>1, <3>1
    <3>4. f[b] \in Nat /\ f[a] \in Nat
      OBVIOUS
    <3>5. CASE a \in R
      <4>1. more[R] = sum[R \ {a}] + f[a] /\ more[R \cup {b}] = sum[(R \ {a}) \cup {b}] + f[a]
        BY <1>2, <2>1, <3>1, <3>5
      <4> QED BY <3>2, <3>3, <3>4, <4>1
    <3>6. CASE a \notin R
      <4>1. more[R] = sum[R \ {a}] + 0 /\ more[R \cup {b}] = sum[(R \ {a}) \cup {b}] + 0
        BY <1>2, <2>1, <3>1, <3>6
      <4> QED BY <3>2, <3>3, <3>4, <4>1
    <3> QED BY <3>5, <3>6
  <2> QED BY <2>2, <2>3
<1>7. n + f[a] \in Nat /\ T = S \cup {a}
  OBVIOUS
<1> QED
  BY <1>3, <1>4, <1>5, <1>6 DEF IsTotal

LEMMA SameTotal ==
  ASSUME NEW n, NEW f, NEW g, NEW S, IsTotal(n, f, S), \A a \in S : f[a] = g[a]
  PROVE  IsTotal(n, g, S)
<1>1. PICK sum \in [SUBSET S -> 0..n] :
        /\ sum[{}] = 0 /\ sum[S] = n
        /\ \A R \in SUBSET S : \A b \in S \ R : sum[R \cup {b}] = sum[R] + f[b]
  BY DEF IsTotal
<1>2. ASSUME NEW R \in SUBSET S, NEW b \in S \ R
      PROVE  sum[R \cup {b}] = sum[R] + g[b]
  <2>1. f[b] = g[b]
    OBVIOUS
  <2>2. sum[R \cup {b}] = sum[R] + f[b]
    BY <1>1
  <2> QED BY <2>1, <2>2
<1> QED
  BY <1>1, <1>2 DEF IsTotal

LEMMA OneMore ==
  ASSUME NEW S, NEW a, a \notin In(S)
  PROVE  Cardinality(In(S) \cup {a}) = Cardinality(In(S)) + 1
  BY InIsFinite, FS_AddElement

LEMMA InitMetrics == Init => MetricsAgree
<1> SUFFICES ASSUME Init PROVE MetricsAgree
  OBVIOUS
<1>1. Granted = {} /\ Refused = {} /\ Reported = {}
  BY DEF Init, Granted, Refused, Reported, In
<1> QED
  BY <1>1, FS_EmptySet, EmptyTotal DEF Init, MetricsAgree, Granted, Refused, Reported

(* A step that files nothing: the sets and the counters are those before,  *)
(* and no reported allocation relays any more.                             *)
LEMMA MetricsRest ==
  ASSUME MetricsAgree, Granted' = Granted, Refused' = Refused, Reported' = Reported,
         UNCHANGED <<allocations_granted, allocations_refused, allocations_closed,
                     relayed_bytes_closed>>,
         \A a \in Reported : bytes[a] = bytes'[a]
  PROVE  MetricsAgree'
<1>1. IsTotal(relayed_bytes_closed, bytes, Reported)
  BY DEF MetricsAgree, Reported
<1>2. IsTotal(relayed_bytes_closed, bytes', Reported)
  BY <1>1, SameTotal
<1> QED
  BY <1>2 DEF MetricsAgree, Granted, Refused, Reported

LEMMA ClosingKeepsMetrics ==
  ASSUME TypeOK, MetricsAgree, NEW S \in SUBSET In({"held"}), CloseAll(S), UNCHANGED <<bytes, counters>>
  PROVE  MetricsAgree'
<1>1. Granted' = Granted /\ Refused' = Refused /\ Reported' = Reported
  BY DEF CloseAll, In, Granted, Refused, Reported, TypeOK, States
<1> QED
  BY <1>1, MetricsRest DEF counters

LEMMA RequestKeepsMetrics ==
  ASSUME TypeOK, MetricsAgree, NEW a \in Alloc, Request(a)
  PROVE  MetricsAgree'
<1>1. bytes' = bytes
  BY DEF Request, Load, Refuse, Claim, Retry, Grant, HandBack
<1>2. CASE Refuse(a)
  <2>1. /\ a \notin Refused /\ Refused' = Refused \cup {a}
        /\ Granted' = Granted /\ Reported' = Reported
    BY <1>2 DEF Refuse, Become, TypeOK, In, Granted, Refused, Reported
  <2>2. Cardinality(Refused') = Cardinality(Refused) + 1
    BY <2>1, OneMore DEF Refused
  <2> QED BY <1>1, <1>2, <2>1, <2>2 DEF Refuse, MetricsAgree, Granted, Refused, Reported
<1>3. CASE Grant(a)
  <2>1. /\ a \notin Granted /\ Granted' = Granted \cup {a}
        /\ Refused' = Refused /\ Reported' = Reported
    BY <1>3 DEF Grant, Become, TypeOK, In, Granted, Refused, Reported
  <2>2. Cardinality(Granted') = Cardinality(Granted) + 1
    BY <2>1, OneMore DEF Granted
  <2> QED BY <1>1, <1>3, <2>1, <2>2 DEF Grant, MetricsAgree, Granted, Refused, Reported
<1>4. CASE Load(a) \/ Claim(a) \/ Retry(a) \/ HandBack(a)
  <2>1. Granted' = Granted /\ Refused' = Refused /\ Reported' = Reported
    BY <1>4 DEF Load, Claim, Retry, HandBack, Become, TypeOK, In, Granted, Refused, Reported
  <2>2. UNCHANGED <<allocations_granted, allocations_refused, allocations_closed,
                    relayed_bytes_closed>>
    BY <1>4 DEF Load, Claim, Retry, HandBack, counters
  <2> QED BY <1>1, <2>1, <2>2, MetricsRest
<1> QED
  BY <1>2, <1>3, <1>4 DEF Request

LEMMA ReportKeepsMetrics ==
  ASSUME TypeOK, MetricsAgree, NEW a \in Alloc, Report(a)
  PROVE  MetricsAgree'
<1>1. /\ a \notin Reported /\ Reported' = Reported \cup {a}
      /\ Granted' = Granted /\ Refused' = Refused
  BY DEF Report, Become, TypeOK, In, Granted, Refused, Reported
<1>2. Cardinality(Reported') = Cardinality(Reported) + 1
  BY <1>1, OneMore DEF Reported
<1>3. IsTotal(relayed_bytes_closed + bytes[a], bytes, Reported \cup {a})
  <2>1. \A b \in Reported \cup {a} : bytes[b] \in Nat
    BY QuotaAssumption DEF TypeOK, Reported, In
  <2>2. relayed_bytes_closed \in Nat /\ IsTotal(relayed_bytes_closed, bytes, Reported)
    BY DEF TypeOK, MetricsAgree, Reported
  <2> QED BY <1>1, <2>1, <2>2, AddToTotal
<1>4. IsTotal(relayed_bytes_closed', bytes', Reported')
  BY <1>1, <1>3 DEF Report
<1> QED
  BY <1>1, <1>2, <1>4 DEF Report, MetricsAgree, Granted, Refused, Reported

LEMMA NextKeepsMetrics == TypeOK /\ MetricsAgree /\ [Next]_vars => MetricsAgree'
<1> SUFFICES ASSUME TypeOK, MetricsAgree, [Next]_vars PROVE MetricsAgree'
  OBVIOUS
<1>1. ASSUME NEW a \in Alloc, Table(a) PROVE MetricsAgree'
  <2>1. Granted' = Granted /\ Refused' = Refused /\ Reported' = Reported
    BY <1>1 DEF Table, Install, Relay, Expire, Become, TypeOK, In, Granted, Refused, Reported
  <2>2. \A b \in Reported : bytes[b] = bytes'[b]
    BY <1>1 DEF Table, Install, Relay, Expire, TypeOK, In, Reported
  <2>3. UNCHANGED counters
    BY <1>1 DEF Table, Install, Relay, Expire
  <2> QED BY <2>1, <2>2, <2>3, MetricsRest DEF counters
<1>2. ASSUME NEW name \in Username, Revoke(name) \/ DeleteNext(name) PROVE MetricsAgree'
  BY <1>2, HeldByIsHeld, ClosingKeepsMetrics DEF Revoke, DeleteNext
<1>3. CASE Close
  BY <1>3, ClosingKeepsMetrics DEF Close
<1>4. ASSUME UNCHANGED <<st, bytes, counters>> PROVE MetricsAgree'
  BY <1>4, MetricsRest DEF Granted, Refused, Reported, In, counters
<1>5. CASE RevokeReturns \/ (\E u \in User : RevokePrincipal(u)) \/ UNCHANGED vars
  BY <1>4, <1>5 DEF RevokeReturns, RevokePrincipal, vars
<1> QED
  BY <1>1, <1>2, <1>3, <1>5, RequestKeepsMetrics, ReportKeepsMetrics DEF Next

(* Every request that was decided is counted once, and every byte of a     *)
(* closed allocation is attributed exactly once.                           *)
THEOREM MetricsAreExact == Spec => []MetricsAgree
  BY TypeCorrect, InitMetrics, NextKeepsMetrics, PTL DEF Spec

-----------------------------------------------------------------------------
(* Revocation.  What the snapshot matched and is still open is under one   *)
(* of the usernames that are left to delete; an allocation keeps its       *)
(* username, and never comes back to the table.                            *)
RevokeInv ==
  /\ \A a \in matching : st[a] \in {"held", "closing", "reported"}
  /\ rev_pc # "idle" => \A a \in matching : st[a] = "held" => username[a] \in usernames
  /\ rev_pc = "returned" => usernames = {}

LEMMA InitRevoke == Init => RevokeInv
  BY DEF Init, RevokeInv

LEMMA NextKeepsRevoke == TypeOK /\ RevokeInv /\ [Next]_vars => RevokeInv'
<1> SUFFICES ASSUME TypeOK, RevokeInv, [Next]_vars PROVE RevokeInv'
  OBVIOUS
<1> USE DEF RevokeInv, TypeOK
<1>1. ASSUME NEW a \in Alloc, Request(a) PROVE RevokeInv'
  BY <1>1 DEF Request, Load, Refuse, Claim, Retry, Grant, HandBack, Become, counters, revVars
<1>2. ASSUME NEW a \in Alloc, Table(a) PROVE RevokeInv'
  BY <1>2 DEF Table, Install, Relay, Expire, Become, counters, revVars
<1>3. ASSUME NEW a \in Alloc, Report(a) PROVE RevokeInv'
  BY <1>3 DEF Report, Become, revVars
<1>4. ASSUME NEW name \in Username, Revoke(name) PROVE RevokeInv'
  BY <1>4 DEF Revoke, CloseAll, HeldBy, In, revVars
<1>5. ASSUME NEW name \in Username, DeleteNext(name) PROVE RevokeInv'
  <2>1. ASSUME NEW a \in matching
        PROVE  /\ st'[a] \in {"held", "closing", "reported"}
               /\ st'[a] = "held" => st[a] = "held" /\ username[a] # name
    BY <1>5 DEF DeleteNext, CloseAll, HeldBy, In
  <2> QED BY <1>5, <2>1 DEF DeleteNext
<1>6. ASSUME NEW u \in User, RevokePrincipal(u) PROVE RevokeInv'
  BY <1>6 DEF RevokePrincipal, In
<1>7. CASE RevokeReturns
  BY <1>7 DEF RevokeReturns
<1>8. CASE Close
  BY <1>8 DEF Close, CloseAll, In, revVars
<1>9. CASE UNCHANGED vars
  BY <1>9 DEF vars, revVars
<1> QED BY <1>1, <1>2, <1>3, <1>4, <1>5, <1>6, <1>7, <1>8, <1>9 DEF Next

(* When revoke_principal returns, nothing of its snapshot is open, under   *)
(* however many credentials, and whatever came and went meanwhile.         *)
THEOREM RevocationIsThorough == Spec => []RevokeIsThorough
<1>1. RevokeInv => RevokeIsThorough
  BY DEF RevokeInv, RevokeIsThorough
<1> QED BY <1>1, TypeCorrect, InitRevoke, NextKeepsRevoke, PTL DEF Spec
=============================================================================
