-------------------------- MODULE FrameStreamProofs --------------------------
(* Proofs about FrameStream, for any units, buffers and caps: first for    *)
(* frames and lines, which leave the stream whole, then for the bridge,    *)
(* whose reader takes it a few bytes at a time.                            *)
EXTENDS FrameStream, SequenceTheorems, FiniteSetTheorems, TLAPS

-----------------------------------------------------------------------------
(* Streams of bytes, of units with the sizes Z, sent in the order t.       *)

Bytes(Z) == {b \in [f : DOMAIN Z, at : Nat] : b.at \in 1..Z[b.f]}

(* Behind a byte come the other bytes of its unit.                         *)
Runs(s, Z) ==
  \A i, k \in DOMAIN s :
    i <= k /\ s[i].at + (k - i) <= Z[s[i].f] =>
      s[k].f = s[i].f /\ s[k].at = s[i].at + (k - i)

(* Behind the last byte of a unit comes the first of the next.             *)
Neighbours(t, f, g) == \E k \in 1..(Len(t) - 1) : t[k] = f /\ t[k + 1] = g
Joins(s, t, Z) ==
  \A i \in 1..(Len(s) - 1) :
    s[i].at = Z[s[i].f] => s[i + 1].at = 1 /\ Neighbours(t, s[i].f, s[i + 1].f)

Orderly(s, t, Z) == Runs(s, Z) /\ Joins(s, t, Z)

(* It begins with the unit that follows n others, or with later lines of   *)
(* the last of them.                                                       *)
Begins(s, t, n, c) ==
  s # <<>> =>
    \/ n < Len(t) /\ s[1].f = t[n + 1] /\ s[1].at = 1
    \/ n > 0 /\ s[1].f = t[n] /\ s[1].f \in c /\ s[1].at > 3

(* It ends with the last unit.                                             *)
Ends(s, t, n, Z) ==
  IF s = <<>> THEN n = Len(t)
  ELSE s[Len(s)].f = t[Len(t)] /\ s[Len(s)].at = Z[t[Len(t)]]

Increasing(t) == \A i, j \in DOMAIN t : i < j => t[i] < t[j]

LEMMA ByteParts ==
  ASSUME NEW D, NEW Z \in [D -> Nat \ {0}], NEW s \in Seq(Bytes(Z)), NEW i \in 1..Len(s)
  PROVE  /\ s[i].f \in D /\ s[i].at \in Nat /\ Z[s[i].f] \in Nat
         /\ 1 <= s[i].at /\ s[i].at <= Z[s[i].f]
<1>1. s[i] \in Bytes(Z)
  BY ElementOfSeq
<1>2. DOMAIN Z = D
  OBVIOUS
<1>3. s[i].f \in D /\ s[i].at \in Nat /\ s[i].at \in 1..Z[s[i].f]
  BY <1>1, <1>2 DEF Bytes
<1> QED
  BY <1>3

LEMMA PartsAreOrderly ==
  ASSUME NEW D, NEW Z \in [D -> Nat \ {0}], NEW t,
         NEW s \in Seq(Bytes(Z)), NEW u \in Seq(Bytes(Z)), Orderly(s \o u, t, Z)
  PROVE  Orderly(s, t, Z) /\ Orderly(u, t, Z)
<1> DEFINE w == s \o u
<1>1. /\ Len(s) \in Nat /\ Len(u) \in Nat /\ Len(w) = Len(s) + Len(u)
      /\ DOMAIN s = 1..Len(s) /\ DOMAIN u = 1..Len(u) /\ DOMAIN w = 1..Len(w)
      /\ w \in Seq(Bytes(Z))
  BY ConcatProperties
<1>2. /\ \A i \in 1..Len(s) : w[i] = s[i]
      /\ \A i \in 1..Len(u) : w[Len(s) + i] = u[i]
  BY <1>1, ConcatProperties
<1>3. Runs(w, Z) /\ Joins(w, t, Z)
  BY DEF Orderly
<1> HIDE DEF w
<1>4. Runs(s, Z)
  <2> SUFFICES ASSUME NEW i \in DOMAIN s, NEW k \in DOMAIN s,
                      i <= k, s[i].at + (k - i) <= Z[s[i].f]
               PROVE  s[k].f = s[i].f /\ s[k].at = s[i].at + (k - i)
    BY DEF Runs
  <2>1. w[i] = s[i] /\ w[k] = s[k] /\ i \in DOMAIN w /\ k \in DOMAIN w
    BY <1>1, <1>2
  <2> QED BY <1>3, <2>1 DEF Runs
<1>5. Runs(u, Z)
  <2> SUFFICES ASSUME NEW i \in DOMAIN u, NEW k \in DOMAIN u,
                      i <= k, u[i].at + (k - i) <= Z[u[i].f]
               PROVE  u[k].f = u[i].f /\ u[k].at = u[i].at + (k - i)
    BY DEF Runs
  <2> DEFINE a == Len(s) + i
             b == Len(s) + k
  <2>1. w[a] = u[i] /\ w[b] = u[k] /\ a \in DOMAIN w /\ b \in DOMAIN w
    BY <1>1, <1>2
  <2>2. a <= b /\ b - a = k - i
    BY <1>1
  <2> HIDE DEF a, b
  <2> QED BY <1>3, <2>1, <2>2 DEF Runs
<1>6. Joins(s, t, Z)
  <2> SUFFICES ASSUME NEW i \in 1..(Len(s) - 1), s[i].at = Z[s[i].f]
               PROVE  s[i + 1].at = 1 /\ Neighbours(t, s[i].f, s[i + 1].f)
    BY DEF Joins
  <2>1. w[i] = s[i] /\ w[i + 1] = s[i + 1] /\ i \in 1..(Len(w) - 1)
    BY <1>1, <1>2
  <2> QED BY <1>3, <2>1 DEF Joins
<1>7. Joins(u, t, Z)
  <2> SUFFICES ASSUME NEW i \in 1..(Len(u) - 1), u[i].at = Z[u[i].f]
               PROVE  u[i + 1].at = 1 /\ Neighbours(t, u[i].f, u[i + 1].f)
    BY DEF Joins
  <2>1. /\ w[Len(s) + i] = u[i] /\ w[(Len(s) + i) + 1] = u[i + 1]
        /\ Len(s) + i \in 1..(Len(w) - 1)
    <3>1. i + 1 \in 1..Len(u) /\ (Len(s) + i) + 1 = Len(s) + (i + 1) /\ i \in 1..Len(u)
      BY <1>1
    <3> QED BY <1>1, <1>2, <3>1
  <2> QED BY <1>3, <2>1 DEF Joins
<1> QED
  BY <1>4, <1>5, <1>6, <1>7 DEF Orderly

(* A unit is taken, and the stream goes on with the next.                  *)
LEMMA UnitIsTaken ==
  ASSUME NEW D \in SUBSET Nat, NEW Z \in [D -> Nat \ {0}], NEW t \in Seq(D), Increasing(t),
         NEW s \in Seq(Bytes(Z)), s # <<>>, Orderly(s, t, Z),
         NEW m \in 1..Len(t), t[m] = s[1].f,
         NEW e \in 1..Len(s), s[1].at + e = Z[s[1].f] + 1
  PROVE  LET r == SubSeq(s, e + 1, Len(s))
         IN /\ Orderly(r, t, Z)
            /\ \A c : Begins(r, t, m, c)
            /\ \A n : Ends(s, t, n, Z) => Ends(r, t, m, Z)
<1> DEFINE r == SubSeq(s, e + 1, Len(s))
<1>1. /\ Len(s) \in Nat /\ DOMAIN s = 1..Len(s) /\ 1 \in 1..Len(s)
      /\ Len(t) \in Nat /\ DOMAIN t = 1..Len(t)
  BY EmptySeq
<1>2. /\ s[1].f \in D /\ s[1].at \in Nat /\ Z[s[1].f] \in Nat
      /\ s[e].f \in D /\ s[e].at \in Nat
  BY <1>1, ByteParts
<1>3. s[e].f = s[1].f /\ s[e].at = Z[s[1].f]
  <2>1. e \in Nat /\ 1 <= e /\ s[1].at + (e - 1) = Z[s[1].f]
    <3>1. e \in Nat /\ 1 <= e
      BY <1>1
    <3>2. \A a, z \in Nat : a + e = z + 1 => a + (e - 1) = z
      BY <3>1
    <3> QED BY <1>2, <3>1, <3>2
  <2>2. s[1].at + (e - 1) <= Z[s[1].f]
    BY <1>2, <2>1
  <2>3. s[e].f = s[1].f /\ s[e].at = s[1].at + (e - 1)
    BY <1>1, <2>1, <2>2 DEF Orderly, Runs
  <2> QED BY <2>1, <2>3
<1>4. /\ r \in Seq(Bytes(Z)) /\ Len(r) = Len(s) - e
      /\ \A i \in 1..Len(r) : r[i] = s[e + i]
  <2>1. \A i \in (e + 1)..Len(s) : s[i] \in Bytes(Z)
    BY <1>1, ElementOfSeq
  <2>2. /\ r \in Seq(Bytes(Z))
        /\ Len(r) = IF e + 1 <= Len(s) THEN Len(s) - (e + 1) + 1 ELSE 0
        /\ \A i \in 1 .. Len(s) - (e + 1) + 1 : r[i] = s[(e + 1) + i - 1]
    BY <1>1, <2>1, SubSeqProperties
  <2> HIDE DEF r
  <2>3. Len(r) = Len(s) - e
    <3> DEFINE a == Len(s)
               b == Len(r)
    <3>1. a \in Nat /\ e \in 1..a
      BY <1>1
    <3>2. b = IF e + 1 <= a THEN a - (e + 1) + 1 ELSE 0
      BY <2>2, Zenon
    <3> HIDE DEF a, b
    <3>3. b = a - e
      BY <3>1, <3>2
    <3> QED BY <3>3 DEF a, b
  <2>4. Len(s) - (e + 1) + 1 = Len(s) - e /\ \A i \in Nat : (e + 1) + i - 1 = e + i
    BY <1>1
  <2>5. \A i \in 1..Len(r) : r[i] = s[e + i]
    <3> TAKE i \in 1..Len(r)
    <3>1. i \in Nat /\ i \in 1 .. Len(s) - (e + 1) + 1
      BY <1>1, <2>3, <2>4
    <3>2. r[i] = s[(e + 1) + i - 1] /\ (e + 1) + i - 1 = e + i
      BY <2>2, <2>4, <3>1
    <3> QED BY <3>2
  <2> QED BY <2>2, <2>3, <2>5
<1>5. Orderly(r, t, Z)
  <2>1. SubSeq(s, 1, e) \in Seq(Bytes(Z)) /\ SubSeq(s, 1, e) \o r = SubSeq(s, 1, Len(s))
    <3>1. \A i \in 1..e : s[i] \in Bytes(Z)
      BY <1>1, ElementOfSeq
    <3>2. SubSeq(s, 1, e) \in Seq(Bytes(Z))
      BY <1>1, <3>1, SubSeqProperties
    <3>3. 1 \in 1..Len(s) + 1 /\ e \in (1 - 1)..Len(s) /\ Len(s) \in e..Len(s)
      BY <1>1
    <3> QED BY <3>2, <3>3, ConcatAdjacentSubSeq
  <2>2. SubSeq(s, 1, Len(s)) = s
    BY SubSeqFull
  <2> DEFINE q == SubSeq(s, 1, e)
  <2>3. q \in Seq(Bytes(Z)) /\ q \o r = s
    BY <2>1, <2>2
  <2> HIDE DEF q, r
  <2>4. Orderly(q \o r, t, Z)
    BY <2>3
  <2> QED BY <1>4, <2>3, <2>4, PartsAreOrderly
<1> HIDE DEF r
<1>6. ASSUME r # <<>>
      PROVE  m < Len(t) /\ r[1].f = t[m + 1] /\ r[1].at = 1
  <2>1. 1 \in 1..Len(r) /\ r[1] = s[e + 1] /\ e \in 1..(Len(s) - 1)
    BY <1>1, <1>4, <1>6, EmptySeq
  <2>2. s[e + 1].at = 1 /\ Neighbours(t, s[1].f, s[e + 1].f)
    BY <1>3, <2>1 DEF Orderly, Joins
  <2>3. PICK k \in 1..(Len(t) - 1) : t[k] = t[m] /\ t[k + 1] = s[e + 1].f
    BY <2>2 DEF Neighbours
  <2>4. k = m
    <3>1. k \in DOMAIN t /\ m \in DOMAIN t /\ k \in Nat /\ m \in Nat
      BY <1>1
    <3>2. t[k] \in D /\ t[m] \in D
      BY <1>1, <3>1, ElementOfSeq
    <3>3. k < m => t[k] < t[m]
      BY <3>1 DEF Increasing
    <3>4. m < k => t[m] < t[k]
      BY <3>1 DEF Increasing
    <3>5. t[k] \in Nat /\ t[m] \in Nat /\ t[k] = t[m]
      BY <2>3, <3>2
    <3> QED BY <3>1, <3>3, <3>4, <3>5
  <2> QED BY <1>1, <2>1, <2>2, <2>3, <2>4
<1>7. ASSUME NEW n, Ends(s, t, n, Z)
      PROVE  Ends(r, t, m, Z)
  <2>1. s[Len(s)].f = t[Len(t)] /\ s[Len(s)].at = Z[t[Len(t)]]
    BY <1>7 DEF Ends
  <2>2. CASE r = <<>>
    <3>0. Len(r) = 0 /\ e \in Nat
      BY <1>1, <2>2
    <3>0a. Len(r) = Len(s) - e /\ Len(s) \in Nat
      BY <1>1, <1>4
    <3>1. e = Len(s)
      BY <3>0, <3>0a
    <3>2. t[m] = t[Len(t)]
      BY <1>3, <2>1, <3>1
    <3>3. m \in DOMAIN t /\ Len(t) \in DOMAIN t /\ m \in Nat /\ m <= Len(t)
      BY <1>1
    <3>3a. t[m] \in Nat
      BY <1>1, ElementOfSeq
    <3>3b. m < Len(t) => t[m] < t[Len(t)]
      BY <1>1, <3>3 DEF Increasing
    <3>4. m = Len(t)
      BY <1>1, <3>2, <3>3, <3>3a, <3>3b
    <3> QED BY <2>2, <3>4 DEF Ends
  <2>3. CASE r # <<>>
    <3>1. Len(r) \in 1..Len(r) /\ e + Len(r) = Len(s)
      BY <1>1, <1>4, <2>3, EmptySeq
    <3>2. r[Len(r)] = s[Len(s)]
      BY <1>4, <3>1
    <3> QED BY <2>1, <2>3, <3>2 DEF Ends
  <2> QED BY <2>2, <2>3
<1> QED
  BY <1>5, <1>6, <1>7 DEF Begins, r

(* The first line of a message is taken, and the rest of it follows.       *)
LEMMA LineIsTaken ==
  ASSUME NEW D \in SUBSET Nat, NEW Z \in [D -> Nat \ {0}], NEW t \in Seq(D),
         NEW s \in Seq(Bytes(Z)), Orderly(s, t, Z), 3 <= Len(s),
         NEW m \in 1..Len(t), t[m] = s[1].f, s[1].at = 1, Z[s[1].f] > 3,
         NEW c, s[1].f \in c
  PROVE  LET r == SubSeq(s, 4, Len(s))
         IN /\ Orderly(r, t, Z)
            /\ Begins(r, t, m, c)
            /\ \A n : Ends(s, t, n, Z) => Ends(r, t, m, Z)
<1> DEFINE r == SubSeq(s, 4, Len(s))
<1>1. /\ Len(s) \in Nat /\ DOMAIN s = 1..Len(s) /\ 1 \in 1..Len(s) /\ 3 \in 1..Len(s)
      /\ Len(t) \in Nat /\ s # <<>>
  BY EmptySeq
<1>2. s[1].f \in D /\ s[1].at \in Nat /\ Z[s[1].f] \in Nat
  BY <1>1, ByteParts
<1>3. \A k \in 1..Len(s) : k <= 4 => s[k].f = s[1].f /\ s[k].at = k
  <2> TAKE k \in 1..Len(s)
  <2> HAVE k <= 4
  <2>1. 1 + (k - 1) = k /\ 1 <= k /\ k <= Z[s[1].f]
    BY <1>1, <1>2
  <2> QED BY <1>1, <2>1 DEF Orderly, Runs
<1>3a. s[3].f = s[1].f /\ s[3].at = 3
  BY <1>1, <1>3
<1>4. /\ r \in Seq(Bytes(Z)) /\ Len(r) = Len(s) - 3
      /\ \A i \in 1..Len(r) : r[i] = s[3 + i]
  <2>1. \A i \in 4..Len(s) : s[i] \in Bytes(Z)
    BY <1>1, ElementOfSeq
  <2>2. /\ r \in Seq(Bytes(Z))
        /\ Len(r) = IF 4 <= Len(s) THEN Len(s) - 4 + 1 ELSE 0
        /\ \A i \in 1 .. Len(s) - 4 + 1 : r[i] = s[4 + i - 1]
    BY <1>1, <2>1, SubSeqProperties
  <2> HIDE DEF r
  <2>3. Len(r) = Len(s) - 3
    <3>1. 4 <= Len(s) => Len(s) - 4 + 1 = Len(s) - 3
      BY <1>1
    <3>2. ~(4 <= Len(s)) => Len(s) - 3 = 0
      BY <1>1
    <3> QED BY <2>2, <3>1, <3>2
  <2>4. Len(s) - 4 + 1 = Len(s) - 3 /\ \A i \in Nat : 4 + i - 1 = 3 + i
    BY <1>1
  <2> QED BY <2>2, <2>3, <2>4
<1>5. Orderly(r, t, Z)
  <2>1. SubSeq(s, 1, 3) \in Seq(Bytes(Z)) /\ SubSeq(s, 1, 3) \o r = SubSeq(s, 1, Len(s))
    <3>1. \A i \in 1..3 : s[i] \in Bytes(Z)
      BY <1>1, ElementOfSeq
    <3>2. SubSeq(s, 1, 3) \in Seq(Bytes(Z))
      BY <1>1, <3>1, SubSeqProperties
    <3>3. 1 \in 1..Len(s) + 1 /\ 3 \in (1 - 1)..Len(s) /\ Len(s) \in 3..Len(s) /\ 3 + 1 = 4
      BY <1>1
    <3> QED BY <3>2, <3>3, ConcatAdjacentSubSeq
  <2>2. SubSeq(s, 1, Len(s)) = s
    BY SubSeqFull
  <2> DEFINE q == SubSeq(s, 1, 3)
  <2>3. q \in Seq(Bytes(Z)) /\ q \o r = s
    BY <2>1, <2>2
  <2> HIDE DEF q, r
  <2>4. Orderly(q \o r, t, Z)
    BY <2>3
  <2> QED BY <1>4, <2>3, <2>4, PartsAreOrderly
<1> HIDE DEF r
<1>6. Begins(r, t, m, c)
  <2>1. ASSUME r # <<>> PROVE r[1].f = t[m] /\ r[1].at = 4
    <3>1. 1 \in 1..Len(r) /\ r[1] = s[4] /\ 4 <= Len(s)
      BY <1>1, <1>4, <2>1, EmptySeq
    <3>2. s[4].f = s[1].f /\ s[4].at = 4
      BY <1>1, <1>3, <3>1
    <3> QED BY <3>1, <3>2
  <2> QED BY <2>1 DEF Begins
<1>7. ASSUME NEW n, Ends(s, t, n, Z)
      PROVE  Ends(r, t, m, Z)
  <2>1. s[Len(s)].f = t[Len(t)] /\ s[Len(s)].at = Z[t[Len(t)]]
    BY <1>1, <1>7 DEF Ends
  <2>2. Len(s) # 3
    BY <1>2, <1>3a, <2>1
  <2>3. Len(r) \in 1..Len(r) /\ 3 + Len(r) = Len(s)
    <3>1. Len(r) = Len(s) - 3 /\ Len(r) \in Nat /\ Len(s) \in Nat
      BY <1>1, <1>4
    <3> QED BY <2>2, <3>1
  <2>4. r[Len(r)] = s[Len(s)]
    BY <1>4, <2>3
  <2>4a. r # <<>>
    BY <2>3, EmptySeq
  <2> QED BY <2>1, <2>4, <2>4a, <1>1 DEF Ends
<1> QED
  BY <1>5, <1>6, <1>7 DEF r

(* A unit is sent.                                                         *)
LEMMA Between ==
  ASSUME NEW a \in Int, NEW x \in Int, NEW y \in Int, NEW z \in Int, x < y, a + y <= z
  PROVE  a + x <= z /\ a + x # z
  OBVIOUS

LEMMA UnitIsSent ==
  ASSUME NEW D \in SUBSET Nat, NEW Z \in [D -> Nat \ {0}], NEW t \in Seq(D),
         NEW s \in Seq(Bytes(Z)), Orderly(s, t, Z),
         NEW n \in 0..Len(t), NEW c, Begins(s, t, n, c), Ends(s, t, n, Z),
         NEW x \in D, NEW u \in Seq(Bytes(Z)), Len(u) = Z[x],
         \A i \in 1..Len(u) : u[i].f = x /\ u[i].at = i
  PROVE  /\ Orderly(s \o u, Append(t, x), Z)
         /\ Begins(s \o u, Append(t, x), n, c)
         /\ Ends(s \o u, Append(t, x), n, Z)
<1> DEFINE w == s \o u
           v == Append(t, x)
<1>1. /\ Len(s) \in Nat /\ Len(u) \in Nat /\ Len(w) = Len(s) + Len(u) /\ Len(u) > 0
      /\ DOMAIN s = 1..Len(s) /\ DOMAIN w = 1..Len(w)
      /\ w \in Seq(Bytes(Z))
      /\ Len(t) \in Nat /\ Len(v) = Len(t) + 1 /\ v \in Seq(D)
  <2>1. w \in Seq(Bytes(Z)) /\ Len(w) = Len(s) + Len(u)
    BY ConcatProperties
  <2>2. v \in Seq(D) /\ Len(v) = Len(t) + 1
    BY AppendProperties
  <2> HIDE DEF w, v
  <2> QED BY <2>1, <2>2
<1>2. /\ \A i \in 1..Len(s) : w[i] = s[i]
      /\ \A i \in 1..Len(w) : i > Len(s) => w[i].f = x /\ w[i].at = i - Len(s)
  <2>1. \A i \in 1..Len(w) : w[i] = IF i <= Len(s) THEN s[i] ELSE u[i - Len(s)]
    BY <1>1, ConcatProperties
  <2>2. \A i \in 1..Len(w) : i > Len(s) => i - Len(s) \in 1..Len(u)
    BY <1>1
  <2>3. \A i \in 1..Len(s) : i \in 1..Len(w)
    BY <1>1
  <2> QED BY <1>1, <2>1, <2>2, <2>3
<1>3. (\A i \in 1..Len(t) : v[i] = t[i]) /\ v[Len(t) + 1] = x
  BY <1>1, AppendProperties
<1> HIDE DEF w, v
<1>4. \A i \in 1..Len(s) : /\ s[i].f \in D /\ s[i].at \in Nat /\ Z[s[i].f] \in Nat
                          /\ 1 <= s[i].at /\ s[i].at <= Z[s[i].f]
  BY ByteParts
<1>5. s # <<>> => /\ Len(s) \in 1..Len(s) /\ 1 \in 1..Len(s)
                  /\ s[Len(s)].f = t[Len(t)] /\ s[Len(s)].at = Z[t[Len(t)]]
                  /\ Len(t) \in 1..Len(t)
  <2> SUFFICES ASSUME s # <<>>
               PROVE  /\ Len(s) \in 1..Len(s) /\ 1 \in 1..Len(s)
                      /\ s[Len(s)].f = t[Len(t)] /\ s[Len(s)].at = Z[t[Len(t)]]
                      /\ Len(t) \in 1..Len(t)
    OBVIOUS
  <2>1. Len(s) \in 1..Len(s) /\ 1 \in 1..Len(s)
    BY <1>1, EmptySeq
  <2>2. Len(t) > 0
    BY <1>1 DEF Begins
  <2> QED BY <1>1, <2>1, <2>2 DEF Ends
<1>6. Runs(w, Z)
  <2> SUFFICES ASSUME NEW i \in DOMAIN w, NEW k \in DOMAIN w,
                      i <= k, w[i].at + (k - i) <= Z[w[i].f]
               PROVE  w[k].f = w[i].f /\ w[k].at = w[i].at + (k - i)
    BY DEF Runs
  <2>1. i \in 1..Len(w) /\ k \in 1..Len(w)
    BY <1>1
  <2>2. CASE k <= Len(s)
    <3>1. i \in DOMAIN s /\ k \in DOMAIN s /\ w[i] = s[i] /\ w[k] = s[k]
      BY <1>1, <1>2, <2>1, <2>2
    <3> QED BY <2>2, <3>1 DEF Orderly, Runs
  <2>3. CASE i > Len(s)
    <3>1. w[i].f = x /\ w[i].at = i - Len(s) /\ w[k].f = x /\ w[k].at = k - Len(s)
      <4>1. i > Len(s) /\ k > Len(s)
        BY <1>1, <2>1, <2>3
      <4> QED BY <1>2, <2>1, <4>1
    <3>2. k - Len(s) = (i - Len(s)) + (k - i)
      BY <1>1, <2>1
    <3> QED BY <3>1, <3>2
  <2>4. CASE i <= Len(s) /\ k > Len(s)
    <3>0. i \in 1..Len(s) /\ i \in Nat /\ k \in Nat
      BY <1>1, <2>1, <2>4
    <3>1. i \in 1..Len(s) /\ w[i] = s[i] /\ i \in Nat /\ k \in Nat
      BY <1>2, <3>0
    <3>2. s # <<>> /\ Len(s) \in DOMAIN s /\ i <= Len(s) /\ Len(s) - i < k - i
      BY <1>1, <2>4, <3>1, EmptySeq
    <3>3. s[i].at + (Len(s) - i) <= Z[s[i].f] /\ s[i].at + (Len(s) - i) # Z[s[i].f]
      <4>1. s[i].at \in Int /\ Z[s[i].f] \in Int
        BY <1>4, <3>1
      <4>2. Len(s) - i \in Int /\ k - i \in Int /\ Len(s) - i < k - i
        BY <1>1, <3>1, <3>2
      <4>3. s[i].at + (k - i) <= Z[s[i].f]
        BY <3>1
      <4> QED BY <4>1, <4>2, <4>3, Between
    <3>4. s[Len(s)].f = s[i].f /\ s[Len(s)].at = s[i].at + (Len(s) - i)
      BY <1>1, <3>1, <3>2, <3>3 DEF Orderly, Runs
    <3>5. s[i].at + (Len(s) - i) = Z[s[i].f]
      BY <1>5, <3>2, <3>4
    <3> QED BY <3>3, <3>5
  <2> QED BY <1>1, <2>1, <2>2, <2>3, <2>4
<1>7. Joins(w, v, Z)
  <2> SUFFICES ASSUME NEW i \in 1..(Len(w) - 1), w[i].at = Z[w[i].f]
               PROVE  w[i + 1].at = 1 /\ Neighbours(v, w[i].f, w[i + 1].f)
    BY DEF Joins
  <2>1. CASE i + 1 <= Len(s)
    <3>0. i \in 1..(Len(s) - 1) /\ i \in 1..Len(s) /\ i + 1 \in 1..Len(s)
      <4>1. Len(s) \in Nat /\ Len(w) \in Nat
        BY <1>1
      <4> QED BY <2>1, <4>1
    <3>1. w[i] = s[i] /\ w[i + 1] = s[i + 1] /\ i \in 1..(Len(s) - 1)
      BY <1>2, <3>0
    <3>2. s[i + 1].at = 1 /\ Neighbours(t, s[i].f, s[i + 1].f)
      BY <3>1 DEF Orderly, Joins
    <3>3. PICK k \in 1..(Len(t) - 1) : t[k] = s[i].f /\ t[k + 1] = s[i + 1].f
      BY <3>2 DEF Neighbours
    <3>4. k \in 1..(Len(v) - 1) /\ k \in 1..Len(t) /\ k + 1 \in 1..Len(t)
      <4>1. Len(t) \in Nat /\ Len(v) = Len(t) + 1
        BY <1>1, <1>3
      <4> QED BY <4>1
    <3>5. v[k] = t[k] /\ v[k + 1] = t[k + 1]
      BY <1>3, <3>4
    <3> QED BY <3>1, <3>2, <3>3, <3>4, <3>5 DEF Neighbours
  <2>2. CASE i = Len(s)
    <3>1. s # <<>> /\ w[i] = s[i] /\ w[i + 1].f = x /\ w[i + 1].at = 1
      BY <1>1, <1>2, <2>2, EmptySeq
    <3>2. Len(t) \in 1..(Len(v) - 1) /\ v[Len(t)] = s[i].f /\ v[Len(t) + 1] = x
      BY <1>1, <1>3, <1>5, <2>2, <3>1
    <3> QED BY <3>1, <3>2 DEF Neighbours
  <2>3. CASE i > Len(s)
    <3>1. i \in 1..Len(w) /\ i \in Nat /\ i < Len(s) + Len(u)
      BY <1>1
    <3>2. w[i].f = x /\ w[i].at = i - Len(s)
      BY <1>2, <2>3, <3>1
    <3>3. i - Len(s) = Len(u)
      BY <3>2
    <3> QED BY <1>1, <3>1, <3>3
  <2>4. i \in Int /\ Len(s) \in Int
    BY <1>1
  <2> QED BY <2>1, <2>2, <2>3, <2>4
<1>8. Begins(w, v, n, c)
  <2>1. CASE s = <<>>
    <3>1. n = Len(t) /\ Len(s) = 0 /\ 1 \in 1..Len(w)
      BY <1>1, <2>1, EmptySeq DEF Ends
    <3>2. w[1].f = x /\ w[1].at = 1
      BY <1>1, <1>2, <3>1
    <3> QED BY <1>1, <1>3, <3>1, <3>2 DEF Begins
  <2>2. CASE s # <<>>
    <3>1. w[1] = s[1]
      BY <1>2, <1>5, <2>2
    <3>2. n < Len(t) => n + 1 \in 1..Len(t)
      BY <1>1
    <3>3. n > 0 => n \in 1..Len(t)
      BY <1>1
    <3>4. n < Len(t) => n < Len(v) /\ v[n + 1] = t[n + 1]
      BY <1>1, <1>3, <3>2
    <3>5. n > 0 => v[n] = t[n]
      BY <1>3, <3>3
    <3> QED BY <2>2, <3>1, <3>4, <3>5 DEF Begins
  <2> QED BY <2>1, <2>2
<1>9. Ends(w, v, n, Z)
  <2>1. Len(w) \in 1..Len(w) /\ Len(w) > Len(s) /\ w # <<>>
    BY <1>1, EmptySeq
  <2>2. w[Len(w)].f = x /\ w[Len(w)].at = Len(w) - Len(s)
    BY <1>2, <2>1
  <2>3. Len(w) - Len(s) = Z[x] /\ v[Len(v)] = x
    BY <1>1, <1>3
  <2> QED BY <2>1, <2>2, <2>3 DEF Ends
<1> QED
  BY <1>6, <1>7, <1>8, <1>9 DEF Orderly, w, v

(* What is behind is lost.                                                 *)
LEMMA TheRestIsLost ==
  ASSUME NEW D, NEW Z \in [D -> Nat \ {0}], NEW t, NEW n, NEW c,
         NEW s \in Seq(Bytes(Z)), NEW u \in Seq(Bytes(Z)),
         Orderly(s \o u, t, Z), Begins(s \o u, t, n, c)
  PROVE  Orderly(s, t, Z) /\ Begins(s, t, n, c)
<1>1. Orderly(s, t, Z)
  BY PartsAreOrderly
<1>2. s # <<>> => s \o u # <<>> /\ (s \o u)[1] = s[1]
  <2> SUFFICES ASSUME s # <<>> PROVE s \o u # <<>> /\ (s \o u)[1] = s[1]
    OBVIOUS
  <2>1. Len(s) > 0 /\ Len(s) \in Nat /\ Len(u) \in Nat
    BY EmptySeq
  <2> QED BY <2>1, ConcatProperties, EmptySeq
<1> QED
  BY <1>1, <1>2 DEF Begins

-----------------------------------------------------------------------------
(* Cutting and joining. *)

LEMMA CutInTwo ==
  ASSUME NEW S, NEW s \in Seq(S), NEW n \in 0..Len(s)
  PROVE  /\ First(s, n) \in Seq(S) /\ Len(First(s, n)) = n
         /\ Rest(s, n) \in Seq(S) /\ Len(Rest(s, n)) = Len(s) - n
         /\ First(s, n) \o Rest(s, n) = s
         /\ \A i \in 1..n : First(s, n)[i] = s[i]
         /\ \A i \in 1..Len(s) - n : Rest(s, n)[i] = s[n + i]
<1>1. Len(s) \in Nat /\ n \in Nat /\ n <= Len(s)
  OBVIOUS
<1>2. \A i \in 1..Len(s) : s[i] \in S
  BY ElementOfSeq
<1>3. /\ SubSeq(s, 1, n) \in Seq(S)
      /\ Len(SubSeq(s, 1, n)) = IF 1 <= n THEN n - 1 + 1 ELSE 0
      /\ \A i \in 1..n - 1 + 1 : SubSeq(s, 1, n)[i] = s[1 + i - 1]
  BY <1>1, <1>2, SubSeqProperties
<1>4. /\ SubSeq(s, n + 1, Len(s)) \in Seq(S)
      /\ Len(SubSeq(s, n + 1, Len(s))) = IF n + 1 <= Len(s) THEN Len(s) - (n + 1) + 1 ELSE 0
      /\ \A i \in 1..Len(s) - (n + 1) + 1 : SubSeq(s, n + 1, Len(s))[i] = s[(n + 1) + i - 1]
  BY <1>1, <1>2, SubSeqProperties
<1>5. SubSeq(s, 1, n) \o SubSeq(s, n + 1, Len(s)) = s
  <2>1. 1 \in 1..Len(s) + 1 /\ n \in (1 - 1)..Len(s) /\ Len(s) \in n..Len(s)
    BY <1>1
  <2> QED BY <2>1, ConcatAdjacentSubSeq, SubSeqFull
<1> DEFINE p == First(s, n)
           q == Rest(s, n)
<1>6. /\ p \in Seq(S) /\ q \in Seq(S) /\ p \o q = s
      /\ Len(p) = IF 1 <= n THEN n - 1 + 1 ELSE 0
      /\ Len(q) = IF n + 1 <= Len(s) THEN Len(s) - (n + 1) + 1 ELSE 0
      /\ \A i \in 1..n - 1 + 1 : p[i] = s[1 + i - 1]
      /\ \A i \in 1..Len(s) - (n + 1) + 1 : q[i] = s[(n + 1) + i - 1]
  BY <1>3, <1>4, <1>5 DEF First, Rest
<1> HIDE DEF p, q
<1>7. Len(p) = n
  BY <1>1, <1>6
<1>8. Len(q) = Len(s) - n
  BY <1>1, <1>6
<1>9. \A i \in 1..n : p[i] = s[i]
  <2> TAKE i \in 1..n
  <2>1. n - 1 + 1 = n /\ 1 + i - 1 = i
    BY <1>1
  <2> QED BY <1>6, <2>1
<1>10. \A i \in 1..Len(s) - n : q[i] = s[n + i]
  <2> TAKE i \in 1..Len(s) - n
  <2>1. Len(s) - (n + 1) + 1 = Len(s) - n /\ (n + 1) + i - 1 = n + i
    BY <1>1
  <2> QED BY <1>6, <2>1
<1> QED
  BY <1>6, <1>7, <1>8, <1>9, <1>10 DEF p, q

LEMMA UpToIsLeast ==
  ASSUME NEW S, NEW s \in Seq(S), NEW n \in Nat
  PROVE  /\ UpTo(n, s) \in 0..Len(s) /\ UpTo(n, s) <= n
         /\ n > 0 /\ s # <<>> => UpTo(n, s) > 0
         /\ n >= Len(s) => UpTo(n, s) = Len(s)
<1> DEFINE k == IF n <= Len(s) THEN n ELSE Len(s)
<1>1. Len(s) \in Nat
  OBVIOUS
<1>2. k \in {n, Len(s)} /\ \A y \in {n, Len(s)} : k <= y
  BY <1>1
<1>3. \A x \in {n, Len(s)} : (\A y \in {n, Len(s)} : x <= y) => x = k
  BY <1>1
<1>4. UpTo(n, s) = k
  <2> HIDE DEF k
  <2> QED BY <1>2, <1>3 DEF UpTo, Min
<1>5. s # <<>> => Len(s) > 0
  BY EmptySeq
<1> QED
  BY <1>1, <1>4, <1>5

(* Six pieces in a row, and the last of them together.                     *)
Cat(x, y) == x \o y

LEMMA CatIsAssociative ==
  ASSUME NEW S
  PROVE  \A x, y, z \in Seq(S) : Cat(x, y) \in Seq(S) /\ Cat(Cat(x, y), z) = Cat(x, Cat(y, z))
<1> SUFFICES ASSUME NEW x \in Seq(S), NEW y \in Seq(S), NEW z \in Seq(S)
             PROVE  x \o y \in Seq(S) /\ (x \o y) \o z = x \o (y \o z)
  BY DEF Cat
<1> QED
  BY ConcatProperties, ConcatAssociative

LEMMA Regroup ==
  ASSUME NEW S, NEW a \in Seq(S), NEW b \in Seq(S), NEW c \in Seq(S),
         NEW d \in Seq(S), NEW e \in Seq(S), NEW f \in Seq(S)
  PROVE  LET left  == Cat(Cat(Cat(Cat(Cat(a, b), c), d), e), f)
             right == Cat(a, Cat(b, Cat(c, Cat(d, Cat(e, f)))))
             front == Cat(Cat(Cat(a, b), c), d)
         IN /\ left = right /\ left = Cat(front, Cat(e, f))
            /\ left \in Seq(S) /\ front \in Seq(S) /\ Cat(e, f) \in Seq(S)
<1> DEFINE front == Cat(Cat(Cat(a, b), c), d)
           def   == Cat(d, Cat(e, f))
<1>1. \A x, y \in Seq(S) : Cat(x, y) \in Seq(S)
  BY CatIsAssociative
<1>2. \A x, y, z \in Seq(S) : Cat(Cat(x, y), z) = Cat(x, Cat(y, z))
  BY CatIsAssociative
<1>3. /\ Cat(a, b) \in Seq(S) /\ Cat(Cat(a, b), c) \in Seq(S) /\ front \in Seq(S)
      /\ Cat(e, f) \in Seq(S) /\ def \in Seq(S) /\ Cat(c, def) \in Seq(S)
      /\ Cat(b, Cat(c, def)) \in Seq(S) /\ Cat(a, Cat(b, Cat(c, def))) \in Seq(S)
  BY <1>1
<1>4. Cat(Cat(front, e), f) = Cat(front, Cat(e, f))
  BY <1>2, <1>3
<1>5. Cat(front, Cat(e, f)) = Cat(Cat(Cat(a, b), c), def)
  BY <1>2, <1>3
<1>6. Cat(Cat(Cat(a, b), c), def) = Cat(Cat(a, b), Cat(c, def))
  BY <1>2, <1>3
<1>7. Cat(Cat(a, b), Cat(c, def)) = Cat(a, Cat(b, Cat(c, def)))
  BY <1>2, <1>3
<1> QED
  BY <1>3, <1>4, <1>5, <1>6, <1>7

-----------------------------------------------------------------------------
(* The inductive invariant, for frames and lines. *)

Sizes == [f \in DOMAIN lens |-> Size(f)]

WholeMessages(s) == s # <<>> => s[1].at = 1 /\ s[Len(s)].at = Size(s[Len(s)].f)

Parts == {sending, net, inbox, pending, prefix, rbuf}

Settings ==
  /\ transport \in Transports /\ codec \in {"frames", "lines"} /\ lens \in Lengths
  /\ checks \in BOOLEAN /\ resent = FALSE /\ got = 0

TypeInv ==
  /\ Settings
  /\ Parts \subseteq Seq(Byte)
  /\ open \in BOOLEAN /\ closed \in BOOLEAN /\ refused \in BOOLEAN
  /\ stage \in {"connect", "detect", "frames", "failed", "unconnected"}

(* What was sent, and what of it was taken.                                *)
SentInv ==
  /\ next \in 1..(Len(lens) + 1)
  /\ sent \in Seq(DOMAIN lens)
  /\ \A i \in DOMAIN sent : sent[i] < next
  /\ Increasing(sent)

TakenInv ==
  /\ out \in Seq(DOMAIN lens) /\ queue \in Seq(DOMAIN lens)
  /\ hand \in DOMAIN lens \cup {NoFrame}
  /\ Taken <= Len(sent)
  /\ \A i \in 1..Len(out) : out[i] = sent[i]
  /\ \A i \in 1..Len(queue) : queue[i] = sent[Len(out) + i]
  /\ hand # NoFrame => hand = sent[Taken]
  /\ refused => hand # NoFrame
  /\ codec = "lines" => queue = <<>> /\ ~refused

(* The bytes on their way are the rest of it.                              *)
StreamInv ==
  /\ Orderly(Stream, sent, Sizes)
  /\ Begins(Stream, sent, Taken, cut)
  /\ open => Ends(Stream, sent, Taken, Sizes)
  /\ \A f \in cut : f \in DOMAIN lens /\ codec = "lines" /\ lens[f] >= MultiLine

(* Where they can be, by transport.                                        *)
LinkInv ==
  /\ transport \in Streams \cup {"ws"} => inbox = <<>>
  /\ transport \in Streams => pending = <<>>
  /\ transport # "tcp" => WholeMessages(sending)
  /\ transport \in Callbacks \cup {"ws"} => WholeMessages(net)
  /\ transport = "tcp" => Len(net) <= NetCap
  /\ closed => transport = "browser" /\ ~open /\ net = <<>>
  /\ ~open => sending = <<>>
  /\ stage = "detect" => rbuf = <<>>
  /\ Len(prefix) <= DetectLen

(* A receiver that gave up, other than on a length above its cap, had      *)
(* been given everything, and nothing can come.                            *)
FailedInv ==
  stage = "failed" /\ ~TooLarge =>
    /\ ~Complete /\ ~HasMessage(inbox) /\ pending = <<>>
    /\ ~open /\ net = <<>>

FrameInv == TypeInv /\ SentInv /\ TakenInv /\ StreamInv /\ LinkInv /\ FailedInv

LEMMA SizesFrom ==
  ASSUME lens \in Lengths, \A f \in DOMAIN lens : Size(f) \in Nat \ {0}
  PROVE  /\ Sizes \in [DOMAIN lens -> Nat \ {0}]
         /\ DOMAIN lens = 1..Len(lens) /\ Len(lens) \in Nat /\ DOMAIN lens \in SUBSET Nat
         /\ Byte = Bytes(Sizes)
         /\ \A f \in DOMAIN lens : /\ lens[f] \in Nat /\ Sizes[f] = Size(f)
                                   /\ Size(f) \in Nat \ {0} /\ Unit(f) \in Seq(Byte)
                                   /\ Len(Unit(f)) = Size(f)
<1>1. lens \in Seq(Nat)
  BY TransportAssumption
<1>2. /\ DOMAIN lens = 1..Len(lens) /\ Len(lens) \in Nat
      /\ \A f \in DOMAIN lens : lens[f] \in Nat
  BY <1>1
<1>3. \A f \in DOMAIN lens : Size(f) \in Nat \ {0}
  OBVIOUS
<1>4. Byte = Bytes(Sizes)
  <2>1. DOMAIN Sizes = DOMAIN lens /\ \A f \in DOMAIN lens : Sizes[f] = Size(f)
    BY DEF Sizes
  <2>2. ASSUME NEW b \in Byte PROVE b \in Bytes(Sizes)
    <3>1. PICK f \in DOMAIN lens : b \in {[f |-> f, at |-> i] : i \in 1..Size(f)}
      BY DEF Byte
    <3>2. PICK i \in 1..Size(f) : b = [f |-> f, at |-> i]
      BY <3>1
    <3>3. i \in Nat /\ b.f = f /\ b.at = i
      BY <1>3, <3>2
    <3> QED BY <2>1, <3>2, <3>3 DEF Bytes
  <2>3. ASSUME NEW b \in Bytes(Sizes) PROVE b \in Byte
    <3>1. b.f \in DOMAIN lens /\ b.at \in 1..Size(b.f) /\ b = [f |-> b.f, at |-> b.at]
      BY <2>1 DEF Bytes
    <3>2. b \in {[f |-> b.f, at |-> i] : i \in 1..Size(b.f)}
      BY <3>1
    <3> QED BY <3>1, <3>2 DEF Byte
  <2> QED BY <2>2, <2>3
<1>5. \A f \in DOMAIN lens : Unit(f) \in Seq(Byte) /\ Len(Unit(f)) = Size(f)
  <2> TAKE f \in DOMAIN lens
  <2>1. Size(f) \in Nat
    BY <1>3
  <2>2. \A i \in 1..Size(f) : [f |-> f, at |-> i] \in Byte
    BY DEF Byte
  <2>3. Unit(f) \in [1..Size(f) -> Byte]
    BY <2>2 DEF Unit
  <2> QED BY <2>1, <2>3, IsASeq, LenProperties
<1> QED
  BY <1>2, <1>3, <1>4, <1>5 DEF Sizes

LEMMA SizesType ==
  ASSUME Settings
  PROVE  /\ Sizes \in [DOMAIN lens -> Nat \ {0}]
         /\ DOMAIN lens = 1..Len(lens) /\ Len(lens) \in Nat /\ DOMAIN lens \in SUBSET Nat
         /\ Byte = Bytes(Sizes)
         /\ \A f \in DOMAIN lens : /\ lens[f] \in Nat /\ Sizes[f] = Size(f)
                                   /\ Size(f) \in Nat \ {0} /\ Unit(f) \in Seq(Byte)
                                   /\ Len(Unit(f)) = Size(f)
<1>1. lens \in Seq(Nat) /\ HeaderLen \in Nat \ {0}
  BY TransportAssumption DEF Settings
<1>2. \A f \in DOMAIN lens : Size(f) \in Nat \ {0}
  <2> TAKE f \in DOMAIN lens
  <2>1. lens[f] \in Nat
    BY <1>1
  <2>2. CASE codec = "frames"
    BY <1>1, <2>1, <2>2 DEF Size
  <2>3. CASE codec = "lines"
    BY <2>1, <2>3 DEF Size
  <2> QED BY <2>2, <2>3 DEF Settings
<1> QED BY <1>2, SizesFrom DEF Settings

LEMMA StreamParts ==
  ASSUME Parts \subseteq Seq(Byte)
  PROVE  LET front == Cat(Cat(Cat(rbuf, prefix), pending), inbox)
         IN /\ Stream = Cat(rbuf, Cat(prefix, Cat(pending, Cat(inbox, Cat(net, sending)))))
            /\ Stream = Cat(front, Cat(net, sending))
            /\ Stream \in Seq(Byte)
            /\ front \in Seq(Byte) /\ Cat(net, sending) \in Seq(Byte)
            /\ Cat(prefix, Cat(pending, Cat(inbox, Cat(net, sending)))) \in Seq(Byte)
            /\ Cat(pending, Cat(inbox, Cat(net, sending))) \in Seq(Byte)
            /\ Cat(inbox, Cat(net, sending)) \in Seq(Byte)
            /\ rbuf \in Seq(Byte) /\ prefix \in Seq(Byte) /\ pending \in Seq(Byte)
            /\ inbox \in Seq(Byte) /\ net \in Seq(Byte) /\ sending \in Seq(Byte)
<1>1. /\ rbuf \in Seq(Byte) /\ prefix \in Seq(Byte) /\ pending \in Seq(Byte)
      /\ inbox \in Seq(Byte) /\ net \in Seq(Byte) /\ sending \in Seq(Byte)
  BY DEF Parts
<1>2. Stream = Cat(Cat(Cat(Cat(Cat(rbuf, prefix), pending), inbox), net), sending)
  BY DEF Stream, Cat
<1>3. /\ Stream = Cat(rbuf, Cat(prefix, Cat(pending, Cat(inbox, Cat(net, sending)))))
      /\ Stream = Cat(Cat(Cat(Cat(rbuf, prefix), pending), inbox), Cat(net, sending))
      /\ Stream \in Seq(Byte)
      /\ Cat(Cat(Cat(rbuf, prefix), pending), inbox) \in Seq(Byte) /\ Cat(net, sending) \in Seq(Byte)
  BY <1>1, <1>2, Regroup
<1>4. \A x, y \in Seq(Byte) : Cat(x, y) \in Seq(Byte)
  BY CatIsAssociative
<1>5. /\ Cat(net, sending) \in Seq(Byte) /\ Cat(inbox, Cat(net, sending)) \in Seq(Byte)
      /\ Cat(pending, Cat(inbox, Cat(net, sending))) \in Seq(Byte)
      /\ Cat(prefix, Cat(pending, Cat(inbox, Cat(net, sending)))) \in Seq(Byte)
  BY <1>1, <1>4
<1> QED
  BY <1>1, <1>3, <1>5, Zenon

LEMMA ByteFields ==
  ASSUME Settings, NEW s \in Seq(Byte), NEW i \in 1..Len(s)
  PROVE  /\ s[i].f \in DOMAIN lens /\ s[i].at \in Nat /\ Size(s[i].f) \in Nat \ {0}
         /\ Sizes[s[i].f] = Size(s[i].f)
         /\ 1 <= s[i].at /\ s[i].at <= Size(s[i].f)
         /\ s[i] = [f |-> s[i].f, at |-> s[i].at]
<1>1. s[i] \in Byte
  BY ElementOfSeq
<1>2. PICK f \in DOMAIN lens : s[i] \in {[f |-> f, at |-> k] : k \in 1..Size(f)}
  BY <1>1 DEF Byte
<1>3. PICK k \in 1..Size(f) : s[i] = [f |-> f, at |-> k]
  BY <1>2
<1>4. Size(f) \in Nat \ {0} /\ Sizes[f] = Size(f)
  BY SizesType
<1> QED
  BY <1>3, <1>4

LEMMA OrderlyParts ==
  ASSUME Settings, NEW a \in Seq(Byte), NEW b \in Seq(Byte), Orderly(Cat(a, b), sent, Sizes)
  PROVE  Orderly(a, sent, Sizes) /\ Orderly(b, sent, Sizes)
<1>1. Sizes \in [DOMAIN lens -> Nat \ {0}] /\ Byte = Bytes(Sizes)
  BY SizesType
<1>2. a \in Seq(Bytes(Sizes)) /\ b \in Seq(Bytes(Sizes)) /\ Orderly(a \o b, sent, Sizes)
  BY <1>1 DEF Cat
<1> HIDE DEF Sizes
<1> QED
  BY <1>1, <1>2, PartsAreOrderly

LEMMA EveryPartIsOrderly ==
  ASSUME Settings, Parts \subseteq Seq(Byte), Orderly(Stream, sent, Sizes)
  PROVE  /\ Orderly(rbuf, sent, Sizes) /\ Orderly(net, sent, Sizes)
         /\ Orderly(sending, sent, Sizes)
<1> DEFINE front == Cat(Cat(Cat(rbuf, prefix), pending), inbox)
           back  == Cat(prefix, Cat(pending, Cat(inbox, Cat(net, sending))))
<1>1. /\ Stream = Cat(rbuf, back) /\ Stream = Cat(front, Cat(net, sending))
      /\ front \in Seq(Byte) /\ back \in Seq(Byte) /\ Cat(net, sending) \in Seq(Byte)
      /\ rbuf \in Seq(Byte) /\ net \in Seq(Byte) /\ sending \in Seq(Byte)
  BY StreamParts
<1> HIDE DEF front, back
<1>2. Orderly(rbuf, sent, Sizes)
  BY <1>1, OrderlyParts
<1>3. Orderly(Cat(net, sending), sent, Sizes)
  BY <1>1, OrderlyParts
<1>4. Orderly(net, sent, Sizes) /\ Orderly(sending, sent, Sizes)
  BY <1>1, <1>3, OrderlyParts
<1> QED
  BY <1>2, <1>4

(* A sequence of whole messages holds its first one.                       *)
LEMMA WholeHasMessage ==
  ASSUME Settings, NEW s \in Seq(Byte), s # <<>>, Orderly(s, sent, Sizes), WholeMessages(s)
  PROVE  HasMessage(s)
<1>1. Len(s) \in Nat /\ DOMAIN s = 1..Len(s) /\ 1 \in 1..Len(s) /\ Len(s) \in 1..Len(s)
  BY EmptySeq
<1>2. s[1].f \in DOMAIN lens /\ Size(s[1].f) \in Nat /\ Sizes[s[1].f] = Size(s[1].f)
  BY <1>1, ByteFields
<1>3. s[1].at = 1 /\ s[Len(s)].at = Size(s[Len(s)].f)
  BY DEF WholeMessages
<1>4. ASSUME Len(s) < Size(s[1].f) PROVE FALSE
  <2>1. 1 + (Len(s) - 1) = Len(s)
    BY <1>1
  <2>2. s[1].at + (Len(s) - 1) <= Sizes[s[1].f]
    BY <1>1, <1>2, <1>3, <1>4
  <2>3. s[Len(s)].f = s[1].f /\ s[Len(s)].at = Len(s)
    BY <1>1, <1>3, <2>1, <2>2 DEF Orderly, Runs
  <2> QED BY <1>1, <1>2, <1>3, <1>4, <2>3
<1> QED
  BY <1>1, <1>2, <1>4 DEF HasMessage

LEMMA MessageIsCut ==
  ASSUME Settings, NEW s \in Seq(Byte), HasMessage(s)
  PROVE  LET m == Message(s)
             q == Rest(s, Len(m))
         IN /\ m \in Seq(Byte) /\ q \in Seq(Byte) /\ Cat(m, q) = s
            /\ Len(m) = Size(s[1].f) /\ Len(q) = Len(s) - Size(s[1].f)
            /\ s # <<>> /\ Size(s[1].f) \in 1..Len(s) /\ Len(s) \in Nat
            /\ \A i \in 1..Len(m) : m[i] = s[i]
            /\ \A i \in 1..Len(q) : q[i] = s[Len(m) + i]
<1> DEFINE n == Size(s[1].f)
<1>1. s # <<>> /\ Len(s) >= n /\ Len(s) \in Nat /\ 1 \in 1..Len(s)
  BY EmptySeq DEF HasMessage
<1>2. n \in Nat \ {0}
  BY <1>1, ByteFields
<1>3. n \in 0..Len(s) /\ n \in 1..Len(s) /\ Message(s) = First(s, n)
  BY <1>1, <1>2 DEF Message
<1> HIDE DEF n
<1>4. /\ First(s, n) \in Seq(Byte) /\ Len(First(s, n)) = n
      /\ Rest(s, n) \in Seq(Byte) /\ Len(Rest(s, n)) = Len(s) - n
      /\ First(s, n) \o Rest(s, n) = s
      /\ \A i \in 1..n : First(s, n)[i] = s[i]
      /\ \A i \in 1..Len(s) - n : Rest(s, n)[i] = s[n + i]
  BY <1>3, CutInTwo
<1>5. Cat(First(s, n), Rest(s, n)) = s
  BY <1>4 DEF Cat
<1> QED
  BY <1>1, <1>3, <1>4, <1>5 DEF n

LEMMA TheOthersAreWhole ==
  ASSUME Settings, NEW s \in Seq(Byte), s # <<>>, Orderly(s, sent, Sizes), WholeMessages(s)
  PROVE  WholeMessages(Rest(s, Len(Message(s))))
<1> DEFINE n == Len(Message(s))
           q == Rest(s, n)
<1>1. HasMessage(s)
  BY WholeHasMessage
<1>2. /\ q \in Seq(Byte) /\ n = Size(s[1].f) /\ Len(q) = Len(s) - n /\ n \in 1..Len(s)
      /\ Len(s) \in Nat /\ \A i \in 1..Len(q) : q[i] = s[n + i]
  BY <1>1, MessageIsCut
<1> HIDE DEF n, q
<1>3. s[1].at = 1 /\ s[Len(s)].at = Size(s[Len(s)].f) /\ Sizes[s[1].f] = n
  <2>1. 1 \in 1..Len(s)
    BY <1>2
  <2>2. Sizes[s[1].f] = Size(s[1].f)
    BY <2>1, ByteFields
  <2> QED BY <1>2, <2>2 DEF WholeMessages
<1>4. s[n].f = s[1].f /\ s[n].at = n
  <2>1. DOMAIN s = 1..Len(s) /\ 1 \in 1..Len(s) /\ 1 <= n /\ 1 + (n - 1) = n /\ n <= n
    BY <1>2
  <2>2. s[1].at + (n - 1) = n
    BY <1>3, <2>1
  <2>3. s[1].at + (n - 1) <= Sizes[s[1].f]
    BY <1>3, <2>1, <2>2
  <2> QED BY <1>2, <2>1, <2>2, <2>3 DEF Orderly, Runs
<1>5. ASSUME q # <<>> PROVE q[1].at = 1 /\ q[Len(q)].at = Size(q[Len(q)].f)
  <2>1. Len(q) \in Nat \ {0}
    BY <1>2, <1>5, EmptySeq
  <2>2. 1 \in 1..Len(q) /\ Len(q) \in 1..Len(q) /\ n \in 1..(Len(s) - 1) /\ n + Len(q) = Len(s)
    BY <1>2, <2>1
  <2>3. q[1] = s[n + 1] /\ q[Len(q)] = s[Len(s)]
    BY <1>2, <2>2
  <2>4. s[n + 1].at = 1
    BY <1>3, <1>4, <2>2 DEF Orderly, Joins
  <2> QED BY <1>3, <2>3, <2>4
<1> QED
  BY <1>5 DEF WholeMessages, n, q

LEMMA WholeTogether ==
  ASSUME NEW S, NEW a \in Seq(S), NEW b \in Seq(S), WholeMessages(a), WholeMessages(b)
  PROVE  WholeMessages(Cat(a, b))
<1> DEFINE w == a \o b
<1>1. /\ Len(a) \in Nat /\ Len(b) \in Nat /\ w \in Seq(S) /\ Len(w) = Len(a) + Len(b)
      /\ \A i \in 1..Len(a) + Len(b) : w[i] = IF i <= Len(a) THEN a[i] ELSE b[i - Len(a)]
  BY ConcatProperties
<1> HIDE DEF w
<1>2. CASE b = <<>>
  <2>1. Cat(a, b) = a
    BY <1>2, ConcatEmptySeq DEF Cat
  <2> QED BY <2>1
<1>3. CASE a = <<>>
  <2>1. Cat(a, b) = b
    BY <1>3, ConcatEmptySeq DEF Cat
  <2> QED BY <2>1
<1>4. CASE a # <<>> /\ b # <<>>
  <2>1. Len(a) > 0 /\ Len(b) > 0
    BY <1>4, EmptySeq
  <2>2. w[1] = a[1]
    BY <1>1, <2>1
  <2>3. w[Len(w)] = b[Len(b)]
    <3>1. Len(w) \in 1..Len(a) + Len(b) /\ ~(Len(w) <= Len(a)) /\ Len(w) - Len(a) = Len(b)
      BY <1>1, <2>1
    <3> QED BY <1>1, <3>1
  <2> QED BY <1>4, <2>2, <2>3 DEF WholeMessages, w, Cat
<1> QED
  BY <1>2, <1>3, <1>4

-----------------------------------------------------------------------------
(* What arrives is carried along: the stream stays as it is. *)

Others == <<fixed, sendVars, open, cut, got, hand, bufVars>>

LEMMA SizesKept == ASSUME UNCHANGED <<lens, codec>> PROVE Sizes' = Sizes
BY DEF Sizes, Size

LEMMA CarriedAlong ==
  ASSUME FrameInv, UNCHANGED Others, Parts' \subseteq Seq(Byte), Stream' = Stream,
         closed' \in BOOLEAN,
         stage' \in {"connect", "detect", "frames", "failed", "unconnected"},
         LinkInv', FailedInv'
  PROVE  FrameInv'
<1>1. /\ UNCHANGED <<transport, codec, lens, checks, next, sent, resent, open, cut, got>>
      /\ UNCHANGED <<hand, refused, queue, bytes, depth, out>>
  BY DEF Others, fixed, config, sendVars, bufVars
<1>2. Sizes' = Sizes /\ Byte' = Byte /\ Taken' = Taken
  BY <1>1, SizesKept DEF Byte, Size, Taken
<1>3. Settings' /\ TypeInv'
  BY <1>1, <1>2 DEF FrameInv, TypeInv, Settings
<1>4. SentInv'
  BY <1>1 DEF FrameInv, SentInv
<1>5. TakenInv'
  BY <1>1, <1>2 DEF FrameInv, TakenInv
<1>6. StreamInv'
  BY <1>1, <1>2, Zenon DEF FrameInv, StreamInv
<1> QED
  BY <1>3, <1>4, <1>5, <1>6 DEF FrameInv

LEMMA FailedKept ==
  ASSUME FailedInv, UNCHANGED <<codec, lens, rbuf, stage>>, open \/ net # <<>>
  PROVE  FailedInv'
<1>1. TooLarge' = TooLarge
  BY DEF TooLarge, HeaderComplete, Announced
<1> QED
  BY <1>1 DEF FailedInv

LEMMA StreamPartsNext ==
  ASSUME Parts' \subseteq Seq(Byte)
  PROVE  Stream' = Cat(rbuf', Cat(prefix', Cat(pending', Cat(inbox', Cat(net', sending')))))
<1>1. /\ rbuf' \in Seq(Byte) /\ prefix' \in Seq(Byte) /\ pending' \in Seq(Byte)
      /\ inbox' \in Seq(Byte) /\ net' \in Seq(Byte) /\ sending' \in Seq(Byte)
  BY DEF Parts
<1>2. Stream' = Cat(Cat(Cat(Cat(Cat(rbuf', prefix'), pending'), inbox'), net'), sending')
  BY DEF Stream, Cat
<1> QED
  BY <1>1, <1>2, Regroup

LEMMA WriteCarries ==
  ASSUME FrameInv, Wire(Write)
  PROVE  FrameInv'
<1>0. /\ Settings /\ Parts \subseteq Seq(Byte) /\ LinkInv /\ FailedInv /\ TypeInv
      /\ net \in Seq(Byte) /\ sending \in Seq(Byte)
  BY DEF FrameInv, TypeInv, Parts
<1>1. /\ UNCHANGED <<fixed, sendVars, recvVars, hand, bufVars>>
      /\ UNCHANGED <<open, inbox, closed, pending>> /\ open /\ sending # <<>> /\ Len(net) < NetCap
  BY DEF Wire, Write, WriteSome, WriteAssumedWhole, SyncWrite, SendMessage, SendOnChannel, Whole
<1>2. UNCHANGED Others /\ UNCHANGED <<rbuf, prefix, stage, transport, codec, lens>>
  BY <1>1 DEF Others, recvVars, fixed, config
<1>3. Byte' = Byte
  BY <1>2 DEF Byte, Size
<1>4. /\ net' \in Seq(Byte) /\ sending' \in Seq(Byte)
      /\ Cat(net', sending') = Cat(net, sending)
      /\ transport = "tcp" => Len(net') <= NetCap
      /\ transport # "tcp" => net' = Cat(net, sending) /\ sending' = <<>>
  <2>1. CASE Whole /\ transport # "tcp"
    <3>1. net' = net \o sending /\ sending' = <<>>
      BY <2>1 DEF Whole
    <3>2. net \o sending \in Seq(Byte) /\ (net \o sending) \o <<>> = net \o sending
      BY <1>0, ConcatProperties, ConcatEmptySeq
    <3> QED BY <2>1, <3>1, <3>2, EmptySeq DEF Cat
  <2>2. CASE WriteSome
    <3>1. PICK n \in 1..UpTo(NetCap - Len(net), sending) :
             net' = net \o First(sending, n) /\ sending' = Rest(sending, n)
      BY <2>2 DEF WriteSome
    <3>2. NetCap \in Nat /\ Len(net) \in Nat /\ NetCap - Len(net) \in Nat /\ Len(sending) \in Nat
      BY <1>0, <1>1, TransportAssumption
    <3>3. n \in 0..Len(sending) /\ n <= NetCap - Len(net)
      <4>1. /\ UpTo(NetCap - Len(net), sending) \in 0..Len(sending)
            /\ UpTo(NetCap - Len(net), sending) <= NetCap - Len(net)
        BY <1>0, <3>2, UpToIsLeast
      <4> QED BY <3>2, <4>1
    <3>4. /\ First(sending, n) \in Seq(Byte) /\ Len(First(sending, n)) = n
          /\ Rest(sending, n) \in Seq(Byte) /\ First(sending, n) \o Rest(sending, n) = sending
      BY <1>0, <3>3, CutInTwo
    <3>5. Cat(Cat(net, First(sending, n)), Rest(sending, n)) = Cat(net, Cat(First(sending, n), Rest(sending, n)))
      BY <1>0, <3>4, CatIsAssociative
    <3>6. net \o First(sending, n) \in Seq(Byte) /\ Len(net \o First(sending, n)) = Len(net) + n
      BY <1>0, <3>4, ConcatProperties
    <3>7. Cat(net', sending') = Cat(net, sending)
      BY <3>1, <3>4, <3>5 DEF Cat
    <3> QED BY <2>2, <3>1, <3>2, <3>3, <3>4, <3>6, <3>7 DEF WriteSome
  <2> QED BY <2>1, <2>2 DEF Wire, Write, WriteAssumedWhole, SyncWrite, SendMessage, SendOnChannel,
                Callbacks
<1>5. Parts' \subseteq Seq(Byte)
  BY <1>0, <1>1, <1>2, <1>4 DEF Parts
<1>6. Stream' = Stream
  BY <1>0, <1>1, <1>2, <1>4, <1>5, StreamParts, StreamPartsNext
<1>7. LinkInv'
  <2>1. \A q : WholeMessages(q)' = WholeMessages(q)
    BY <1>2 DEF WholeMessages, Size
  <2>2. transport # "tcp" => WholeMessages(sending')
    BY <1>4 DEF WholeMessages
  <2>3. transport \in Callbacks \cup {"ws"} => WholeMessages(net')
    <3>1. transport \in Callbacks \cup {"ws"} => transport # "tcp"
      BY DEF Callbacks
    <3>2. transport \in Callbacks \cup {"ws"} => WholeMessages(net) /\ WholeMessages(sending)
      BY <1>0, <3>1 DEF LinkInv
    <3> QED BY <1>0, <1>4, <3>1, <3>2, WholeTogether
  <2>4. ~closed
    BY <1>0, <1>1 DEF LinkInv
  <2>5. /\ (transport # "tcp" => WholeMessages(sending))'
        /\ (transport \in Callbacks \cup {"ws"} => WholeMessages(net))'
    BY <1>2, <2>1, <2>2, <2>3
  <2> QED BY <1>0, <1>1, <1>2, <1>4, <2>4, <2>5 DEF LinkInv
<1>8. FailedInv'
  BY <1>0, <1>1, <1>2, FailedKept
<1> QED
  BY <1>0, <1>1, <1>2, <1>3, <1>5, <1>6, <1>7, <1>8, CarriedAlong DEF TypeInv

LEMMA CatEmpty ==
  ASSUME NEW S
  PROVE  \A x \in Seq(S) : Cat(<<>>, x) = x /\ Cat(x, <<>>) = x
<1> TAKE x \in Seq(S)
<1> QED
  BY ConcatEmptySeq DEF Cat

LEMMA LinkKept ==
  ASSUME LinkInv, UNCHANGED <<transport, codec, lens, net, inbox, pending, sending, open, closed,
                              prefix>>,
         stage' = "detect" => rbuf' = <<>>
  PROVE  LinkInv'
<1>1. \A q : WholeMessages(q)' = WholeMessages(q)
  BY DEF WholeMessages, Size
<1>2. /\ (transport # "tcp" => WholeMessages(sending))'
      /\ (transport \in Callbacks \cup {"ws"} => WholeMessages(net))'
  BY <1>1 DEF LinkInv
<1> QED
  BY <1>2 DEF LinkInv

LEMMA OnMessageCarries ==
  ASSUME FrameInv, Wire(OnMessage)
  PROVE  FrameInv'
<1> DEFINE m == Message(net)
           q == Rest(net, Len(m))
<1>0. /\ Settings /\ Parts \subseteq Seq(Byte) /\ LinkInv /\ FailedInv /\ TypeInv
      /\ net \in Seq(Byte) /\ sending \in Seq(Byte) /\ inbox \in Seq(Byte)
      /\ Orderly(net, sent, Sizes)
  BY EveryPartIsOrderly DEF FrameInv, TypeInv, Parts, StreamInv
<1>1. /\ UNCHANGED <<fixed, sendVars, recvVars, hand, bufVars>>
      /\ UNCHANGED <<sending, open, closed, pending>>
      /\ transport \in Callbacks /\ net # <<>> /\ inbox' = inbox \o m /\ net' = q
  BY DEF Wire, OnMessage
<1>2. UNCHANGED Others /\ UNCHANGED <<rbuf, prefix, stage, transport, codec, lens>>
  BY <1>1 DEF Others, recvVars, fixed, config
<1>3. Byte' = Byte
  BY <1>2 DEF Byte, Size
<1>4. HasMessage(net) /\ WholeMessages(net)
  BY <1>0, <1>1, WholeHasMessage DEF LinkInv
<1>5. m \in Seq(Byte) /\ q \in Seq(Byte) /\ Cat(m, q) = net /\ WholeMessages(q)
  BY <1>0, <1>1, <1>4, MessageIsCut, TheOthersAreWhole
<1> HIDE DEF m, q
<1>6. inbox' = Cat(inbox, m) /\ inbox' \in Seq(Byte)
  BY <1>0, <1>1, <1>5, ConcatProperties DEF Cat
<1>7. Cat(inbox', Cat(net', sending)) = Cat(inbox, Cat(net, sending))
  <2>1. Cat(q, sending) \in Seq(Byte)
    BY <1>0, <1>5, CatIsAssociative
  <2>2. Cat(Cat(inbox, m), Cat(q, sending)) = Cat(inbox, Cat(m, Cat(q, sending)))
    BY <1>0, <1>5, <2>1, CatIsAssociative
  <2>3. Cat(m, Cat(q, sending)) = Cat(Cat(m, q), sending)
    BY <1>0, <1>5, CatIsAssociative
  <2> QED BY <1>1, <1>5, <1>6, <2>2, <2>3
<1>8. Parts' \subseteq Seq(Byte)
  BY <1>0, <1>1, <1>2, <1>5, <1>6 DEF Parts
<1>9. Stream' = Stream
  BY <1>0, <1>1, <1>2, <1>7, <1>8, StreamParts, StreamPartsNext
<1>10. LinkInv'
  <2>1. \A w : WholeMessages(w)' = WholeMessages(w)
    BY <1>2 DEF WholeMessages, Size
  <2>2. /\ (transport # "tcp" => WholeMessages(sending))'
        /\ (transport \in Callbacks \cup {"ws"} => WholeMessages(net))'
    BY <1>0, <1>1, <1>2, <1>5, <2>1 DEF LinkInv
  <2>3. ~closed /\ transport \notin Streams \cup {"ws"}
    BY <1>0, <1>1 DEF LinkInv, Callbacks, Streams
  <2> QED BY <1>0, <1>1, <1>2, <2>2, <2>3 DEF LinkInv, Callbacks, Streams
<1>11. FailedInv'
  BY <1>0, <1>1, <1>2, FailedKept
<1> QED
  BY <1>0, <1>1, <1>2, <1>3, <1>8, <1>9, <1>10, <1>11, CarriedAlong DEF TypeInv

LEMMA OnCloseCarries ==
  ASSUME FrameInv, Wire(OnClose)
  PROVE  FrameInv'
<1>0. Settings /\ Parts \subseteq Seq(Byte) /\ LinkInv /\ FailedInv /\ TypeInv
  BY DEF FrameInv, TypeInv
<1>1. /\ UNCHANGED <<fixed, sendVars, recvVars, hand, bufVars>>
      /\ UNCHANGED <<sending, net, open, inbox, pending>>
      /\ transport = "browser" /\ ~open /\ net = <<>> /\ closed' = TRUE
  BY DEF Wire, OnClose
<1>2. UNCHANGED Others /\ UNCHANGED <<rbuf, prefix, stage, transport, codec, lens>>
  BY <1>1 DEF Others, recvVars, fixed, config
<1>3. Parts' \subseteq Seq(Byte) /\ Stream' = Stream
  BY <1>0, <1>1, <1>2 DEF Parts, Stream, Byte, Size
<1>4. LinkInv'
  <2>1. \A w : WholeMessages(w)' = WholeMessages(w)
    BY <1>2 DEF WholeMessages, Size
  <2>2. /\ (transport # "tcp" => WholeMessages(sending))'
        /\ (transport \in Callbacks \cup {"ws"} => WholeMessages(net))'
    BY <1>0, <1>1, <1>2, <2>1 DEF LinkInv
  <2> QED BY <1>0, <1>1, <1>2, <2>2 DEF LinkInv
<1>5. FailedInv'
  <2>1. TooLarge' = TooLarge /\ Complete' = Complete /\ HasMessage(inbox)' = HasMessage(inbox)
    BY <1>1, <1>2 DEF TooLarge, HeaderComplete, Announced, Complete, FrameComplete, LineComplete,
                      LineEnds, HasMessage, Size
  <2> QED BY <1>0, <1>1, <1>2, <2>1 DEF FailedInv
<1> QED
  BY <1>0, <1>1, <1>2, <1>3, <1>4, <1>5, CarriedAlong DEF TypeInv

LEMMA ReadAheadCarries ==
  ASSUME FrameInv, ReadAhead
  PROVE  FrameInv'
<1>0. /\ Settings /\ Parts \subseteq Seq(Byte) /\ LinkInv /\ FailedInv /\ TypeInv
      /\ net \in Seq(Byte) /\ sending \in Seq(Byte) /\ inbox \in Seq(Byte)
  BY DEF FrameInv, TypeInv, Parts
<1>1. PICK k \in 1..UpTo(ReadChunk, net) :
         /\ UNCHANGED <<fixed, sendVars, recvVars, hand, bufVars>>
         /\ UNCHANGED <<sending, open, closed, pending>>
         /\ transport = "ws_wasi" /\ inbox' = inbox \o First(net, k) /\ net' = Rest(net, k)
  BY DEF ReadAhead, Wire, SyncRead
<1>2. UNCHANGED Others /\ UNCHANGED <<rbuf, prefix, stage, transport, codec, lens>>
  BY <1>1 DEF Others, recvVars, fixed, config
<1>3. Byte' = Byte
  BY <1>2 DEF Byte, Size
<1>4. k \in 1..Len(net) /\ k \in 0..Len(net)
  <2>1. ReadChunk \in Nat /\ Len(net) \in Nat
    BY <1>0, TransportAssumption
  <2>2. UpTo(ReadChunk, net) \in 0..Len(net)
    BY <1>0, <2>1, UpToIsLeast
  <2> QED BY <2>1, <2>2
<1> DEFINE m == First(net, k)
           q == Rest(net, k)
<1>5. m \in Seq(Byte) /\ q \in Seq(Byte) /\ Cat(m, q) = net
  BY <1>0, <1>4, CutInTwo DEF Cat
<1>5a. inbox' = inbox \o m /\ net' = q
  BY <1>1
<1> HIDE DEF m, q
<1>6. inbox' = Cat(inbox, m) /\ inbox' \in Seq(Byte)
  BY <1>0, <1>5, <1>5a, ConcatProperties DEF Cat
<1>7. Cat(inbox', Cat(net', sending)) = Cat(inbox, Cat(net, sending))
  <2>1. Cat(q, sending) \in Seq(Byte)
    BY <1>0, <1>5, CatIsAssociative
  <2>2. Cat(Cat(inbox, m), Cat(q, sending)) = Cat(inbox, Cat(m, Cat(q, sending)))
    BY <1>0, <1>5, <2>1, CatIsAssociative
  <2>3. Cat(m, Cat(q, sending)) = Cat(Cat(m, q), sending)
    BY <1>0, <1>5, CatIsAssociative
  <2> QED BY <1>5, <1>5a, <1>6, <2>2, <2>3
<1>8. Parts' \subseteq Seq(Byte)
  BY <1>0, <1>1, <1>2, <1>5, <1>5a, <1>6 DEF Parts
<1>9. Stream' = Stream
  BY <1>0, <1>1, <1>2, <1>7, <1>8, StreamParts, StreamPartsNext
<1>10. LinkInv'
  <2>1. \A w : WholeMessages(w)' = WholeMessages(w)
    BY <1>2 DEF WholeMessages, Size
  <2>2. (transport # "tcp" => WholeMessages(sending))'
    BY <1>0, <1>1, <1>2, <2>1 DEF LinkInv
  <2>3. ~closed
    BY <1>0, <1>1 DEF LinkInv
  <2> QED BY <1>0, <1>1, <1>2, <2>2, <2>3 DEF LinkInv, Callbacks, Streams
<1>11. FailedInv'
  <2>1. net # <<>>
    BY <1>4
  <2> QED BY <1>0, <1>1, <1>2, <2>1, FailedKept
<1> QED
  BY <1>0, <1>1, <1>2, <1>3, <1>8, <1>9, <1>10, <1>11, CarriedAlong DEF TypeInv

(* The stage changes, and nothing else.                                    *)
LEMMA StageCarries ==
  ASSUME FrameInv, Connected \/ ConnectFails \/ DetectEnds \/ RecvFails
  PROVE  FrameInv'
<1>0. Settings /\ Parts \subseteq Seq(Byte) /\ LinkInv /\ FailedInv /\ TypeInv
  BY DEF FrameInv, TypeInv
<1>1. /\ UNCHANGED <<fixed, wireVars, sendVars, prefix, rbuf, cut, got, hand, bufVars>>
      /\ stage' \in {"frames", "unconnected", "failed"}
  BY DEF Connected, ConnectFails, DetectEnds, RecvFails
<1>2. /\ UNCHANGED Others
      /\ UNCHANGED <<transport, codec, lens, rbuf, prefix, sending, net, open, inbox, closed, pending>>
  BY <1>1 DEF Others, fixed, config, wireVars
<1>3. Parts' \subseteq Seq(Byte) /\ Stream' = Stream
  BY <1>0, <1>2 DEF Parts, Stream, Byte, Size
<1>4. LinkInv'
  BY <1>0, <1>1, <1>2, LinkKept
<1>5. FailedInv'
  <2>1. /\ TooLarge' = TooLarge /\ Complete' = Complete /\ HasMessage(inbox)' = HasMessage(inbox)
        /\ UNCHANGED <<pending, open, net>>
    BY <1>2 DEF TooLarge, HeaderComplete, Announced, Complete, FrameComplete, LineComplete,
                LineEnds, HasMessage, Size
  <2> SUFFICES ASSUME stage' = "failed", ~TooLarge
               PROVE  ~Complete /\ ~HasMessage(inbox) /\ pending = <<>> /\ ~open /\ net = <<>>
    BY <2>1, Zenon DEF FailedInv
  <2>2. RecvFails
    BY DEF Connected, ConnectFails, DetectEnds
  <2>3. AtEnd /\ (Wanting \/ stage = "detect")
    BY <2>2 DEF RecvFails
  <2>4. ~Complete
    <3>1. CASE Wanting
      BY <3>1 DEF Wanting
    <3>2. CASE stage = "detect"
      <4>1. rbuf = <<>> /\ Len(rbuf) = 0 /\ DOMAIN rbuf = {} /\ codec # "bridge"
        BY <1>0, <3>2 DEF LinkInv, Settings
      <4>2. ~(Len(rbuf) >= HeaderLen)
        BY <4>1, TransportAssumption
      <4> QED BY <4>1, <4>2 DEF Complete, FrameComplete, HeaderComplete, LineComplete, LineEnds
    <3> QED BY <2>3, <3>1, <3>2
  <2>5. pending = <<>> /\ ~HasMessage(inbox) /\ ~open /\ net = <<>>
    <3>1. CASE transport = "rtc"
      BY <2>3, <3>1 DEF AtEnd, NativeChannelAtEnd
    <3>2. CASE transport = "browser"
      BY <1>0, <2>3, <3>2 DEF AtEnd, BrowserAtEnd, LinkInv
    <3>3. CASE transport \notin {"rtc", "browser"}
      BY <2>3, <3>3 DEF AtEnd
    <3> QED BY <3>1, <3>2, <3>3
  <2> QED BY <2>4, <2>5
<1> QED
  BY <1>0, <1>1, <1>2, <1>3, <1>4, <1>5, CarriedAlong DEF TypeInv

LEMMA DeliveredParts ==
  ASSUME NEW s \in Seq(Byte), NEW n \in Nat, NEW box, NEW left
  PROVE  LET r == Delivered(s, n, box, left)
         IN /\ r.piece \in Seq(Byte) /\ r.tail \in Seq(Byte)
            /\ r.inbox = box /\ r.net = left /\ Len(r.piece) <= n
            /\ n >= Len(s) => r.tail = <<>>
            /\ \A x \in Seq(Byte) : Cat(r.piece, Cat(r.tail, x)) = Cat(s, x)
<1> DEFINE k == UpTo(n, s)
           p == First(s, k)
           q == Rest(s, k)
<1>1. k \in 0..Len(s) /\ k <= n /\ (n >= Len(s) => k = Len(s)) /\ Len(s) \in Nat
  BY UpToIsLeast
<1> HIDE DEF k
<1>2. /\ p \in Seq(Byte) /\ Len(p) = k /\ q \in Seq(Byte) /\ Len(q) = Len(s) - k /\ Cat(p, q) = s
  BY <1>1, CutInTwo DEF Cat
<1> HIDE DEF p, q
<1>3. n >= Len(s) => q = <<>>
  <2>1. n >= Len(s) => Len(q) = 0
    BY <1>1, <1>2
  <2> QED BY <1>2, <2>1, EmptySeq
<1>4. \A x \in Seq(Byte) : Cat(p, Cat(q, x)) = Cat(s, x)
  BY <1>2, CatIsAssociative
<1>5. Delivered(s, n, box, left) = [piece |-> p, tail |-> q, inbox |-> box, net |-> left]
  BY DEF Delivered, k, p, q
<1> QED
  BY <1>1, <1>2, <1>3, <1>4, <1>5

(* recv takes the next bytes of the stream and keeps the rest in order.    *)
LEMMA ReadsAreNext ==
  ASSUME FrameInv, NEW n \in Nat, NEW r \in Reads(n)
  PROVE  /\ r.piece \in Seq(Byte) /\ r.tail \in Seq(Byte) /\ r.inbox \in Seq(Byte) /\ r.net \in Seq(Byte)
         /\ Len(r.piece) <= n
         /\ Cat(r.piece, Cat(r.tail, Cat(r.inbox, Cat(r.net, sending))))
              = Cat(pending, Cat(inbox, Cat(net, sending)))
         /\ transport \in Streams \cup {"ws"} => r.inbox = <<>>
         /\ transport \in Streams => r.tail = <<>>
         /\ transport \in Callbacks \cup {"ws"} => WholeMessages(r.net)
         /\ transport = "tcp" => Len(r.net) <= NetCap
         /\ closed => r.net = <<>>
<1>0. /\ Settings /\ LinkInv
      /\ pending \in Seq(Byte) /\ inbox \in Seq(Byte) /\ net \in Seq(Byte) /\ sending \in Seq(Byte)
      /\ Parts \subseteq Seq(Byte)
      /\ Orderly(net, sent, Sizes)
  BY EveryPartIsOrderly DEF FrameInv, TypeInv, Parts, StreamInv
<1>0a. /\ Cat(net, sending) \in Seq(Byte) /\ Cat(inbox, Cat(net, sending)) \in Seq(Byte)
  BY <1>0, CatIsAssociative
<1>1. CASE pending # <<>>
  <2>1. r = Delivered(pending, n, inbox, net)
    BY <1>1 DEF Reads
  <2>2. /\ r.piece \in Seq(Byte) /\ r.tail \in Seq(Byte)
        /\ r.inbox = inbox /\ r.net = net /\ Len(r.piece) <= n
        /\ \A x \in Seq(Byte) : Cat(r.piece, Cat(r.tail, x)) = Cat(pending, x)
    <3>1. pending \in Seq(Byte)
      BY <1>0
    <3> QED BY <2>1, <3>1, DeliveredParts
  <2>3. Cat(r.piece, Cat(r.tail, Cat(inbox, Cat(net, sending)))) = Cat(pending, Cat(inbox, Cat(net, sending)))
    BY <1>0a, <2>2
  <2> QED BY <1>0, <1>1, <2>2, <2>3 DEF LinkInv
<1>2. ASSUME pending = <<>>, NEW k \in 1..Len(net), transport \in Streams \cup {"ws"},
             \/ r = Delivered(First(net, k), n, inbox, Rest(net, k)) /\ (transport \in Streams => k <= n)
      PROVE  /\ r.piece \in Seq(Byte) /\ r.tail \in Seq(Byte) /\ r.inbox = inbox
             /\ r.net \in Seq(Byte) /\ r.net = Rest(net, k) /\ Len(r.net) <= Len(net)
             /\ Len(r.piece) <= n /\ (transport \in Streams => r.tail = <<>>)
             /\ Cat(r.piece, Cat(r.tail, Cat(r.inbox, Cat(r.net, sending))))
                  = Cat(pending, Cat(inbox, Cat(net, sending)))
  <2> DEFINE p == First(net, k)
             q == Rest(net, k)
  <2>1. k \in 0..Len(net) /\ Len(net) \in Nat
    BY <1>0
  <2>2. p \in Seq(Byte) /\ q \in Seq(Byte) /\ Cat(p, q) = net /\ Len(p) = k /\ Len(q) = Len(net) - k
    BY <1>0, <2>1, CutInTwo DEF Cat
  <2>2a. r = Delivered(p, n, inbox, q) /\ (transport \in Streams => k <= n)
    BY <1>2
  <2> HIDE DEF p, q
  <2>3. /\ r.piece \in Seq(Byte) /\ r.tail \in Seq(Byte) /\ r.inbox = inbox /\ r.net = q
        /\ Len(r.piece) <= n /\ (n >= Len(p) => r.tail = <<>>)
        /\ \A x \in Seq(Byte) : Cat(r.piece, Cat(r.tail, x)) = Cat(p, x)
    BY <2>2, <2>2a, DeliveredParts
  <2>4. inbox = <<>>
    BY <1>0, <1>2 DEF LinkInv
  <2>5. Cat(q, sending) \in Seq(Byte) /\ Cat(inbox, Cat(q, sending)) = Cat(q, sending)
    BY <1>0, <2>2, <2>4, CatIsAssociative, CatEmpty
  <2>6. Cat(p, Cat(q, sending)) = Cat(net, sending)
    BY <1>0, <2>2, CatIsAssociative
  <2>7. Cat(pending, Cat(inbox, Cat(net, sending))) = Cat(net, sending)
    BY <1>0a, <1>2, <2>4, CatEmpty
  <2>8. transport \in Streams => n >= Len(p)
    BY <2>1, <2>2, <2>2a
  <2>9. Len(q) <= Len(net)
    BY <2>1, <2>2
  <2>10. q = Rest(net, k)
    BY DEF q
  <2> QED BY <2>2, <2>3, <2>5, <2>6, <2>7, <2>8, <2>9, <2>10
<1>3. CASE pending = <<>> /\ transport \in Streams
  <2>1. PICK k \in 1..UpTo(n, net) : r = Delivered(First(net, k), n, inbox, Rest(net, k))
    <3>1. r \in ReadStream(n)
      BY <1>3 DEF Reads, Streams
    <3> QED BY <3>1 DEF ReadStream
  <2>2. UpTo(n, net) \in 0..Len(net) /\ UpTo(n, net) <= n
    BY <1>0, UpToIsLeast
  <2>3. k \in 1..Len(net) /\ k <= n
    BY <1>0, <2>2
  <2>4. /\ r.piece \in Seq(Byte) /\ r.tail \in Seq(Byte) /\ r.inbox = inbox
        /\ r.net \in Seq(Byte) /\ Len(r.net) <= Len(net)
        /\ Len(r.piece) <= n /\ r.tail = <<>>
        /\ Cat(r.piece, Cat(r.tail, Cat(r.inbox, Cat(r.net, sending))))
             = Cat(pending, Cat(inbox, Cat(net, sending)))
    BY <1>2, <1>3, <2>1, <2>3
  <2>5. ~closed /\ transport \notin Callbacks \cup {"ws"} /\ inbox = <<>>
    BY <1>0, <1>3 DEF LinkInv, Streams, Callbacks
  <2>6. transport = "tcp" => Len(r.net) <= NetCap
    <3>1. transport = "tcp" => Len(net) <= NetCap
      BY <1>0 DEF LinkInv
    <3>2. Len(net) \in Nat /\ Len(r.net) \in Nat /\ NetCap \in Nat
      BY <1>0, <2>4, TransportAssumption
    <3> QED BY <2>4, <3>1, <3>2
  <2> QED BY <1>0, <1>3, <2>4, <2>5, <2>6
<1>4. CASE pending = <<>> /\ transport = "ws"
  <2>1. net # <<>> /\ r = Delivered(Message(net), n, inbox, Rest(net, Len(Message(net))))
    BY <1>4 DEF Reads, ReadMessage, Streams
  <2>2. WholeMessages(net) /\ HasMessage(net)
    BY <1>0, <1>4, <2>1, WholeHasMessage DEF LinkInv
  <2> DEFINE k == Len(Message(net))
  <2>3. k \in 1..Len(net) /\ Message(net) = First(net, k) /\ WholeMessages(Rest(net, k))
    BY <1>0, <2>1, <2>2, MessageIsCut, TheOthersAreWhole DEF Message
  <2>4. r = Delivered(First(net, k), n, inbox, Rest(net, k)) /\ transport \notin Streams
    BY <1>4, <2>1, <2>3 DEF Streams
  <2> HIDE DEF k
  <2>5. /\ r.piece \in Seq(Byte) /\ r.tail \in Seq(Byte) /\ r.inbox = inbox
        /\ r.net \in Seq(Byte) /\ r.net = Rest(net, k)
        /\ Len(r.piece) <= n
        /\ Cat(r.piece, Cat(r.tail, Cat(r.inbox, Cat(r.net, sending))))
             = Cat(pending, Cat(inbox, Cat(net, sending)))
    BY <1>2, <1>4, <2>3, <2>4
  <2>6. ~closed /\ inbox = <<>>
    BY <1>0, <1>4 DEF LinkInv
  <2> QED BY <1>0, <1>4, <2>3, <2>4, <2>5, <2>6
<1>5. CASE pending = <<>> /\ transport \notin Streams \cup {"ws"}
  <2> DEFINE m == Message(inbox)
             q == Rest(inbox, Len(m))
  <2>1. HasMessage(inbox) /\ r = Delivered(m, n, q, net)
    <3>1. r \in ReadQueued(n)
      BY <1>5 DEF Reads
    <3> QED BY <3>1 DEF ReadQueued
  <2>2. m \in Seq(Byte) /\ q \in Seq(Byte) /\ Cat(m, q) = inbox
    BY <1>0, <2>1, MessageIsCut
  <2> HIDE DEF m, q
  <2>3. /\ r.piece \in Seq(Byte) /\ r.tail \in Seq(Byte)
        /\ r.inbox = q /\ r.net = net /\ Len(r.piece) <= n
        /\ \A x \in Seq(Byte) : Cat(r.piece, Cat(r.tail, x)) = Cat(m, x)
    BY <2>1, <2>2, DeliveredParts
  <2>4. Cat(q, Cat(net, sending)) \in Seq(Byte)
    BY <1>0a, <2>2, CatIsAssociative
  <2>5. Cat(m, Cat(q, Cat(net, sending))) = Cat(inbox, Cat(net, sending))
    BY <1>0a, <2>2, CatIsAssociative
  <2>6. Cat(pending, Cat(inbox, Cat(net, sending))) = Cat(inbox, Cat(net, sending))
    BY <1>0a, <1>5, CatEmpty
  <2>7. Cat(r.piece, Cat(r.tail, Cat(r.inbox, Cat(r.net, sending)))) = Cat(pending, Cat(inbox, Cat(net, sending)))
    BY <2>3, <2>4, <2>5, <2>6
  <2> QED BY <1>0, <1>5, <2>2, <2>3, <2>7 DEF LinkInv, Streams, Callbacks
<1> QED
  BY <1>1, <1>3, <1>4, <1>5

(* What is read goes behind what the receiver has.                         *)
LEMMA ReadCarries ==
  ASSUME FrameInv, NEW n \in Nat, NEW r \in Reads(n), Receives(r),
         UNCHANGED <<fixed, sending, open, closed, sendVars, cut, got, hand, bufVars>>,
         stage' \in {"detect", "frames"},
         \/ /\ prefix' = prefix \o r.piece /\ UNCHANGED rbuf
            /\ rbuf = <<>> /\ Len(prefix) + n <= DetectLen
         \/ rbuf' = rbuf \o r.piece /\ UNCHANGED prefix /\ prefix = <<>> /\ stage' = "frames"
  PROVE  FrameInv'
<1>0. /\ Settings /\ LinkInv /\ TypeInv /\ Parts \subseteq Seq(Byte)
      /\ pending \in Seq(Byte) /\ inbox \in Seq(Byte) /\ net \in Seq(Byte) /\ sending \in Seq(Byte)
      /\ rbuf \in Seq(Byte) /\ prefix \in Seq(Byte)
  BY DEF FrameInv, TypeInv, Parts
<1>1. /\ r.piece \in Seq(Byte) /\ r.tail \in Seq(Byte) /\ r.inbox \in Seq(Byte) /\ r.net \in Seq(Byte)
      /\ Len(r.piece) <= n
      /\ Cat(r.piece, Cat(r.tail, Cat(r.inbox, Cat(r.net, sending))))
           = Cat(pending, Cat(inbox, Cat(net, sending)))
      /\ transport \in Streams \cup {"ws"} => r.inbox = <<>>
      /\ transport \in Streams => r.tail = <<>>
      /\ transport \in Callbacks \cup {"ws"} => WholeMessages(r.net)
      /\ transport = "tcp" => Len(r.net) <= NetCap
      /\ closed => r.net = <<>>
  BY ReadsAreNext
<1>2. /\ UNCHANGED Others /\ UNCHANGED <<transport, codec, lens, sending, open, closed>>
      /\ pending' = r.tail /\ inbox' = r.inbox /\ net' = r.net
  BY DEF Others, fixed, config, Receives
<1>3. Byte' = Byte
  BY <1>2 DEF Byte, Size
<1> DEFINE back == Cat(r.tail, Cat(r.inbox, Cat(r.net, sending)))
<1>4. back \in Seq(Byte) /\ Cat(pending', Cat(inbox', Cat(net', sending'))) = back
  <2>1. Cat(r.net, sending) \in Seq(Byte)
    BY <1>0, <1>1, CatIsAssociative
  <2>2. Cat(r.inbox, Cat(r.net, sending)) \in Seq(Byte)
    BY <1>1, <2>1, CatIsAssociative
  <2>3. back \in Seq(Byte)
    BY <1>1, <2>2, CatIsAssociative
  <2> QED BY <1>2, <2>3
<1>5. Cat(r.piece, back) = Cat(pending, Cat(inbox, Cat(net, sending)))
  BY <1>1
<1> HIDE DEF back
<1>6. /\ rbuf' \in Seq(Byte) /\ prefix' \in Seq(Byte)
      /\ Cat(rbuf', Cat(prefix', back)) = Cat(rbuf, Cat(prefix, Cat(r.piece, back)))
      /\ Len(prefix') <= DetectLen
      /\ stage' = "detect" => rbuf' = <<>>
  <2>1. CASE /\ prefix' = prefix \o r.piece /\ UNCHANGED rbuf
             /\ rbuf = <<>> /\ Len(prefix) + n <= DetectLen
    <3>1. prefix' = Cat(prefix, r.piece) /\ prefix' \in Seq(Byte) /\ Len(prefix') = Len(prefix) + Len(r.piece)
      BY <1>0, <1>1, <2>1, ConcatProperties DEF Cat
    <3>2. Cat(Cat(prefix, r.piece), back) = Cat(prefix, Cat(r.piece, back))
      <4>1. prefix \in Seq(Byte) /\ r.piece \in Seq(Byte) /\ back \in Seq(Byte)
        BY <1>0, <1>1, <1>4
      <4> QED BY <4>1, CatIsAssociative
    <3>3. Len(prefix') <= DetectLen
      <4>0. prefix \in Seq(Byte) /\ r.piece \in Seq(Byte)
        BY <1>0, <1>1
      <4>1. Len(prefix) \in Nat /\ Len(r.piece) \in Nat
        BY <4>0
      <4>2. DetectLen \in Nat
        BY StreamAssumption
      <4>3. Len(r.piece) <= n
        BY <1>1
      <4> QED BY <2>1, <3>1, <4>1, <4>2, <4>3
    <3> QED BY <1>0, <2>1, <3>1, <3>2, <3>3
  <2>2. CASE rbuf' = rbuf \o r.piece /\ UNCHANGED prefix /\ prefix = <<>> /\ stage' = "frames"
    <3>1. rbuf' = Cat(rbuf, r.piece) /\ rbuf' \in Seq(Byte)
      BY <1>0, <1>1, <2>2, ConcatProperties DEF Cat
    <3>2. Cat(Cat(rbuf, r.piece), back) = Cat(rbuf, Cat(r.piece, back))
      <4>1. rbuf \in Seq(Byte) /\ r.piece \in Seq(Byte) /\ back \in Seq(Byte)
        BY <1>0, <1>1, <1>4
      <4> QED BY <4>1, CatIsAssociative
    <3>3. Cat(r.piece, back) \in Seq(Byte)
      BY <1>1, <1>4, CatIsAssociative
    <3>4. Cat(prefix, back) = back /\ Cat(prefix, Cat(r.piece, back)) = Cat(r.piece, back)
      BY <1>4, <2>2, <3>3, CatEmpty
    <3>5. Len(prefix') <= DetectLen
      BY <1>0, <2>2 DEF LinkInv
    <3> QED BY <1>0, <2>2, <3>1, <3>2, <3>4, <3>5
  <2> QED BY <2>1, <2>2
<1>7. Parts' \subseteq Seq(Byte)
  BY <1>0, <1>1, <1>2, <1>6 DEF Parts
<1>8. Stream' = Stream
  <2>1. Stream' = Cat(rbuf', Cat(prefix', back))
    BY <1>4, <1>7, StreamPartsNext
  <2>2. Stream = Cat(rbuf, Cat(prefix, Cat(r.piece, back)))
    BY <1>0, <1>5, StreamParts
  <2> QED BY <1>6, <2>1, <2>2
<1>9. LinkInv'
  <2>1. \A w : WholeMessages(w)' = WholeMessages(w)
    BY <1>2 DEF WholeMessages, Size
  <2>2. /\ (transport # "tcp" => WholeMessages(sending))'
        /\ (transport \in Callbacks \cup {"ws"} => WholeMessages(net))'
    BY <1>0, <1>1, <1>2, <2>1 DEF LinkInv
  <2> QED BY <1>0, <1>1, <1>2, <1>6, <2>2 DEF LinkInv
<1>10. FailedInv'
  BY DEF FailedInv
<1>11. closed' \in BOOLEAN
  BY <1>0, <1>2 DEF TypeInv
<1> QED
  BY <1>2, <1>7, <1>8, <1>9, <1>10, <1>11, CarriedAlong

LEMMA DetectCarries ==
  ASSUME FrameInv, Detect
  PROVE  FrameInv'
<1> DEFINE n == DetectLen - Len(prefix)
<1>1. n \in Nat /\ Len(prefix) + n <= DetectLen
  <2>1. Len(prefix) \in Nat /\ DetectLen \in Nat /\ Len(prefix) <= DetectLen
    BY StreamAssumption DEF FrameInv, TypeInv, Parts, LinkInv
  <2> QED BY <2>1
<1>2. PICK r \in Reads(n) : prefix' = prefix \o r.piece /\ Receives(r)
  BY DEF Detect
<1>3. /\ UNCHANGED <<fixed, sending, open, closed, sendVars, cut, got, hand, bufVars>> /\ UNCHANGED rbuf
      /\ stage' \in {"detect", "frames"} /\ rbuf = <<>>
  BY DEF Detect, FrameInv, LinkInv
<1> HIDE DEF n
<1> QED
  BY <1>1, <1>2, <1>3, ReadCarries

LEMMA ReadMoreCarries ==
  ASSUME FrameInv, ReadMore
  PROVE  FrameInv'
<1>1. ReadChunk \in Nat
  BY TransportAssumption
<1>2. PICK r \in Reads(ReadChunk) : rbuf' = rbuf \o r.piece /\ Receives(r)
  BY DEF ReadMore
<1>3. /\ UNCHANGED <<fixed, sending, open, closed, sendVars, cut, got, hand, bufVars>> /\ UNCHANGED prefix
      /\ stage' = "frames" /\ prefix = <<>>
  BY DEF ReadMore, Wanting, Receiving
<1> QED
  BY <1>1, <1>2, <1>3, ReadCarries

LEMMA ReplayCarries ==
  ASSUME FrameInv, ReplayPrefix
  PROVE  FrameInv'
<1>0. /\ Settings /\ Parts \subseteq Seq(Byte) /\ LinkInv /\ TypeInv
      /\ rbuf \in Seq(Byte) /\ prefix \in Seq(Byte) /\ Len(prefix) <= DetectLen
  BY DEF FrameInv, TypeInv, Parts, LinkInv
<1> DEFINE k == UpTo(ReadChunk, prefix)
           p == First(prefix, k)
           q == Rest(prefix, k)
<1>1. /\ UNCHANGED <<fixed, wireVars, sendVars, stage, cut, got, hand, bufVars>>
      /\ rbuf' = rbuf \o p /\ prefix' = q /\ stage = "frames"
  BY DEF ReplayPrefix, Wanting, Receiving
<1>2. /\ UNCHANGED Others
      /\ UNCHANGED <<transport, codec, lens, sending, net, open, inbox, closed, pending, stage>>
  BY <1>1 DEF Others, fixed, config, wireVars
<1>3. k \in 0..Len(prefix)
  <2>1. ReadChunk \in Nat
    BY TransportAssumption
  <2> QED BY <1>0, <2>1, UpToIsLeast
<1> HIDE DEF k
<1>4. p \in Seq(Byte) /\ q \in Seq(Byte) /\ Cat(p, q) = prefix /\ Len(q) = Len(prefix) - k
  BY <1>0, <1>3, CutInTwo DEF Cat
<1> HIDE DEF p, q
<1>5. Byte' = Byte
  BY <1>2 DEF Byte, Size
<1>6. rbuf' = Cat(rbuf, p) /\ rbuf' \in Seq(Byte)
  BY <1>0, <1>1, <1>4, ConcatProperties DEF Cat
<1>7. Parts' \subseteq Seq(Byte) /\ Parts' \subseteq Seq(Byte')
  BY <1>0, <1>1, <1>2, <1>4, <1>5, <1>6 DEF Parts
<1>8. Stream' = Stream
  <2> DEFINE back == Cat(pending, Cat(inbox, Cat(net, sending)))
  <2>1. back \in Seq(Byte) /\ Stream = Cat(rbuf, Cat(prefix, back))
    BY <1>0, StreamParts
  <2>2. Stream' = Cat(rbuf', Cat(q, back))
    BY <1>1, <1>2, <1>7, StreamPartsNext
  <2> HIDE DEF back
  <2>3. Cat(q, back) \in Seq(Byte)
    BY <1>4, <2>1, CatIsAssociative
  <2>4. Cat(Cat(rbuf, p), Cat(q, back)) = Cat(rbuf, Cat(p, Cat(q, back)))
    BY <1>0, <1>4, <2>3, CatIsAssociative
  <2>5. Cat(p, Cat(q, back)) = Cat(prefix, back)
    BY <1>4, <2>1, CatIsAssociative
  <2> QED BY <1>6, <2>1, <2>2, <2>4, <2>5
<1>9. LinkInv'
  <2>1. \A w : WholeMessages(w)' = WholeMessages(w)
    BY <1>2 DEF WholeMessages, Size
  <2>2. /\ (transport # "tcp" => WholeMessages(sending))'
        /\ (transport \in Callbacks \cup {"ws"} => WholeMessages(net))'
    BY <1>0, <1>2, <2>1 DEF LinkInv
  <2>3. Len(prefix') <= DetectLen
    <3>1. Len(prefix) \in Nat /\ k \in Nat /\ DetectLen \in Nat
      BY <1>0, <1>3, StreamAssumption
    <3> QED BY <1>0, <1>1, <1>4, <3>1
  <2> QED BY <1>0, <1>1, <1>2, <2>2, <2>3 DEF LinkInv
<1>10. FailedInv'
  BY <1>1 DEF FailedInv
<1> QED
  BY <1>0, <1>1, <1>2, <1>7, <1>8, <1>9, <1>10, CarriedAlong DEF TypeInv

-----------------------------------------------------------------------------
(* The ends of the stream: a unit is sent, the connection breaks. *)

LEMMA SendKeeps ==
  ASSUME FrameInv, Send
  PROVE  FrameInv'
<1>0. /\ Settings /\ Parts \subseteq Seq(Byte) /\ LinkInv /\ TypeInv /\ SentInv /\ TakenInv /\ StreamInv
      /\ FailedInv /\ net \in Seq(Byte)
  BY DEF FrameInv, TypeInv, Parts
<1>1. /\ UNCHANGED <<fixed, net, open, inbox, closed, pending, resent, recvVars, hand, bufVars>>
      /\ open /\ sending = <<>> /\ next <= Len(lens) /\ next' = next + 1
  BY DEF Send
<1>2. /\ UNCHANGED <<transport, codec, lens, checks, resent, open, cut, got, hand, refused, queue>>
      /\ UNCHANGED <<bytes, depth, out, rbuf, prefix, stage, net, inbox, closed, pending>>
  BY <1>1 DEF fixed, config, recvVars, bufVars
<1>3. Byte' = Byte /\ Sizes' = Sizes /\ Taken' = Taken
  BY <1>2, SizesKept DEF Byte, Size, Taken
<1>4. next \in DOMAIN lens /\ next \in Nat /\ next' \in 1..(Len(lens) + 1)
  <2>1. DOMAIN lens = 1..Len(lens) /\ Len(lens) \in Nat
    BY <1>0, SizesType
  <2> QED BY <1>0, <1>1, <2>1 DEF SentInv
<1>5. FailedInv'
  BY <1>0, <1>1, <1>2, FailedKept
<1>6. CASE UNCHANGED <<sent, sending>>
  <2>1. Parts' \subseteq Seq(Byte) /\ Stream' = Stream
    BY <1>0, <1>2, <1>6 DEF Parts, Stream
  <2>2. TypeInv'
    BY <1>0, <1>2, <1>3, <2>1 DEF TypeInv, Settings
  <2>3. SentInv'
    <3>1. \A i \in DOMAIN sent : sent[i] < next + 1
      <4>1. \A i \in DOMAIN sent : sent[i] \in Nat /\ sent[i] < next
        BY <1>0, SizesType, ElementOfSeq, LenProperties DEF SentInv
      <4> QED BY <1>4, <4>1
    <3> QED BY <1>0, <1>1, <1>2, <1>4, <1>6, <3>1 DEF SentInv
  <2>4. TakenInv'
    BY <1>0, <1>2, <1>3, <1>6 DEF TakenInv
  <2>5. StreamInv'
    BY <1>0, <1>2, <1>3, <1>6, <2>1, Zenon DEF StreamInv
  <2>6. LinkInv'
    BY <1>0, <1>2, <1>6, LinkKept DEF LinkInv
  <2> QED BY <1>5, <2>2, <2>3, <2>4, <2>5, <2>6 DEF FrameInv
<1>7. CASE sent' = Append(sent, next) /\ sending' = Unit(next)
  <2>1. /\ Unit(next) \in Seq(Byte) /\ Len(Unit(next)) = Size(next) /\ Size(next) \in Nat \ {0}
        /\ Sizes[next] = Size(next)
        /\ \A i \in 1..Size(next) : Unit(next)[i] = [f |-> next, at |-> i]
    BY <1>0, <1>4, SizesType DEF Unit
  <2>2. Parts' \subseteq Seq(Byte)
    BY <1>0, <1>2, <1>7, <2>1 DEF Parts
  <2>3. Stream' = Stream \o Unit(next)
    <3>1. \A q \in Seq(Byte) : q \o <<>> = q
      BY ConcatEmptySeq
    <3> DEFINE front == rbuf \o prefix \o pending \o inbox \o net
    <3>2. front \in Seq(Byte)
      <4>1. \A x, y \in Seq(Byte) : x \o y \in Seq(Byte)
        BY ConcatProperties
      <4> QED BY <1>0, <4>1 DEF Parts
    <3>3. Stream = front \o sending /\ Stream' = front' \o sending' /\ front' = front
      BY <1>2 DEF Stream
    <3> HIDE DEF front
    <3> QED BY <1>1, <1>7, <3>1, <3>2, <3>3
  <2>4. TypeInv'
    BY <1>0, <1>2, <1>3, <2>2 DEF TypeInv, Settings
  <2>5. /\ sent \in Seq(DOMAIN lens) /\ DOMAIN sent = 1..Len(sent) /\ Len(sent) \in Nat
        /\ \A i \in 1..Len(sent) : sent[i] \in Nat /\ sent[i] < next
        /\ sent' \in Seq(DOMAIN lens) /\ Len(sent') = Len(sent) + 1 /\ DOMAIN sent' = 1..Len(sent) + 1
        /\ \A i \in 1..Len(sent) : sent'[i] = sent[i]
        /\ sent'[Len(sent) + 1] = next
    <3>1. sent \in Seq(DOMAIN lens) /\ \A i \in DOMAIN sent : sent[i] < next
      BY <1>0 DEF SentInv
    <3>2. DOMAIN lens \subseteq Nat
      BY <1>0, SizesType
    <3>3. \A i \in 1..Len(sent) : sent[i] \in DOMAIN lens
      BY <3>1, ElementOfSeq
    <3>4. /\ Append(sent, next) \in Seq(DOMAIN lens) /\ Len(Append(sent, next)) = Len(sent) + 1
          /\ \A i \in 1..Len(sent) : Append(sent, next)[i] = sent[i]
          /\ Append(sent, next)[Len(sent) + 1] = next
      BY <1>4, <3>1, AppendProperties
    <3>5. DOMAIN Append(sent, next) = 1..Len(sent) + 1 /\ DOMAIN sent = 1..Len(sent) /\ Len(sent) \in Nat
      BY <3>1, <3>4, LenProperties
    <3> QED BY <1>7, <3>1, <3>2, <3>3, <3>4, <3>5
  <2>6. SentInv'
    <3>1. \A i \in DOMAIN sent' : sent'[i] < next + 1
      BY <1>4, <2>5
    <3>2. Increasing(sent')
      <4> SUFFICES ASSUME NEW i \in DOMAIN sent', NEW j \in DOMAIN sent', i < j
                   PROVE  sent'[i] < sent'[j]
        BY DEF Increasing
      <4>1. i \in 1..Len(sent)
        BY <2>5
      <4>2. CASE j \in 1..Len(sent)
        BY <1>0, <2>5, <4>1, <4>2 DEF SentInv, Increasing
      <4>3. CASE j = Len(sent) + 1
        BY <2>5, <4>1, <4>3
      <4> QED BY <2>5, <4>2, <4>3
    <3> QED BY <1>1, <1>2, <1>4, <2>5, <3>1, <3>2 DEF SentInv, Increasing
  <2>7. TakenInv'
    <3>1. /\ out \in Seq(DOMAIN lens) /\ queue \in Seq(DOMAIN lens) /\ Taken <= Len(sent)
          /\ Len(out) \in Nat /\ Len(queue) \in Nat /\ Taken \in Nat
          /\ Len(out) + Len(queue) <= Taken /\ (hand # NoFrame => Taken > 0)
      BY <1>0 DEF TakenInv, Taken
    <3>2. \A i \in 1..Len(out) : i \in 1..Len(sent)
      BY <2>5, <3>1
    <3>3. \A i \in 1..Len(queue) : Len(out) + i \in 1..Len(sent)
      BY <2>5, <3>1
    <3>4. hand # NoFrame => Taken \in 1..Len(sent)
      BY <2>5, <3>1
    <3>5. Taken <= Len(sent')
      BY <2>5, <3>1
    <3> QED BY <1>0, <1>2, <1>3, <2>5, <3>2, <3>3, <3>4, <3>5 DEF TakenInv
  <2>8. StreamInv'
    <3>1. Sizes \in [DOMAIN lens -> Nat \ {0}] /\ DOMAIN lens \in SUBSET Nat /\ Byte = Bytes(Sizes)
      BY <1>0, SizesType
    <3>2. Stream \in Seq(Bytes(Sizes)) /\ Unit(next) \in Seq(Bytes(Sizes))
      BY <1>0, <2>1, <3>1, StreamParts
    <3>3. Taken \in 0..Len(sent)
      BY <1>0, <2>5 DEF TakenInv, Taken
    <3>4. /\ Len(Unit(next)) = Sizes[next]
          /\ \A i \in 1..Len(Unit(next)) : Unit(next)[i].f = next /\ Unit(next)[i].at = i
      BY <2>1
    <3>5. /\ Orderly(Stream, sent, Sizes) /\ Begins(Stream, sent, Taken, cut)
          /\ Ends(Stream, sent, Taken, Sizes)
      BY <1>0, <1>1 DEF StreamInv
    <3>5a. sent \in Seq(DOMAIN lens)
      BY <2>5
    <3> HIDE DEF Sizes
    <3>6. /\ Orderly(Stream \o Unit(next), Append(sent, next), Sizes)
          /\ Begins(Stream \o Unit(next), Append(sent, next), Taken, cut)
          /\ Ends(Stream \o Unit(next), Append(sent, next), Taken, Sizes)
      BY <1>4, <3>1, <3>2, <3>3, <3>4, <3>5, <3>5a, UnitIsSent
    <3>7. \A f \in cut : f \in DOMAIN lens /\ codec = "lines" /\ lens[f] >= MultiLine
      BY <1>0 DEF StreamInv
    <3> QED BY <1>2, <1>3, <1>7, <2>3, <3>6, <3>7, Zenon DEF StreamInv
  <2>9. LinkInv'
    <3>1. \A w : WholeMessages(w)' = WholeMessages(w)
      BY <1>2 DEF WholeMessages, Size
    <3>2. WholeMessages(Unit(next))
      <4>1. 1 \in 1..Size(next) /\ Size(next) \in 1..Size(next)
        BY <2>1
      <4>2. Unit(next)[1] = [f |-> next, at |-> 1] /\ Unit(next)[Size(next)] = [f |-> next, at |-> Size(next)]
        BY <2>1, <4>1
      <4> QED BY <2>1, <4>2 DEF WholeMessages
    <3>3. (transport # "tcp" => WholeMessages(sending))'
      BY <1>7, <3>1, <3>2
    <3>4. (transport \in Callbacks \cup {"ws"} => WholeMessages(net))'
      BY <1>0, <1>2, <3>1 DEF LinkInv
    <3> QED BY <1>0, <1>1, <1>2, <3>3, <3>4 DEF LinkInv
  <2> QED BY <1>5, <2>4, <2>6, <2>7, <2>8, <2>9 DEF FrameInv
<1> QED
  BY <1>6, <1>7 DEF Send

LEMMA BreakKeeps ==
  ASSUME FrameInv, Wire(Break)
  PROVE  FrameInv'
<1>0. /\ Settings /\ Parts \subseteq Seq(Byte) /\ LinkInv /\ TypeInv /\ SentInv /\ TakenInv /\ StreamInv
      /\ FailedInv /\ net \in Seq(Byte) /\ sending \in Seq(Byte)
  BY DEF FrameInv, TypeInv, Parts
<1>1. /\ UNCHANGED <<fixed, sendVars, recvVars, hand, bufVars>>
      /\ open /\ open' = FALSE /\ sending' = <<>> /\ net' \in {net, <<>>}
      /\ UNCHANGED <<inbox, closed, pending>>
  BY DEF Wire, Break
<1>2. /\ UNCHANGED <<transport, codec, lens, checks, next, sent, resent, cut, got, hand, refused, queue>>
      /\ UNCHANGED <<bytes, depth, out, rbuf, prefix, stage, inbox, closed, pending>>
  BY <1>1 DEF fixed, config, recvVars, bufVars, sendVars
<1>3. Byte' = Byte /\ Sizes' = Sizes /\ Taken' = Taken
  BY <1>2, SizesKept DEF Byte, Size, Taken
<1>4. Parts' \subseteq Seq(Byte)
  BY <1>0, <1>1, <1>2, EmptySeq DEF Parts
<1>5. TypeInv'
  BY <1>0, <1>1, <1>2, <1>3, <1>4 DEF TypeInv, Settings
<1>6. SentInv' /\ TakenInv'
  BY <1>0, <1>2, <1>3 DEF SentInv, TakenInv
<1>7. StreamInv'
  <2> DEFINE front == Cat(Cat(Cat(rbuf, prefix), pending), inbox)
  <2>1. /\ front \in Seq(Byte) /\ Stream = Cat(front, Cat(net, sending)) /\ Cat(net, sending) \in Seq(Byte)
    BY <1>0, StreamParts
  <2>2. Stream' = Cat(front, Cat(net', sending'))
    <3>1. /\ rbuf' \in Seq(Byte) /\ prefix' \in Seq(Byte) /\ pending' \in Seq(Byte)
          /\ inbox' \in Seq(Byte) /\ net' \in Seq(Byte) /\ sending' \in Seq(Byte)
      BY <1>4 DEF Parts
    <3>2. Stream' = Cat(Cat(Cat(Cat(Cat(rbuf', prefix'), pending'), inbox'), net'), sending')
      BY DEF Stream, Cat
    <3>3. Stream' = Cat(Cat(Cat(Cat(rbuf', prefix'), pending'), inbox'), Cat(net', sending'))
      BY <3>1, <3>2, Regroup
    <3> QED BY <1>2, <3>3
  <2> HIDE DEF front
  <2>3. Sizes \in [DOMAIN lens -> Nat \ {0}] /\ Byte = Bytes(Sizes)
    BY <1>0, SizesType
  <2>4. Orderly(Stream, sent, Sizes) /\ Begins(Stream, sent, Taken, cut)
    BY <1>0 DEF StreamInv
  <2> HIDE DEF Sizes
  <2>5. Orderly(Stream', sent, Sizes) /\ Begins(Stream', sent, Taken, cut)
    <3>1. CASE net' = net
      <4>1. Cat(net', sending') = net
        BY <1>0, <1>1, <3>1, CatEmpty
      <4>2. Stream = Cat(Cat(front, net), sending) /\ Stream' = Cat(front, net) /\ Cat(front, net) \in Seq(Byte)
        BY <1>0, <2>1, <2>2, <4>1, CatIsAssociative
      <4>3. /\ Cat(front, net) \in Seq(Bytes(Sizes)) /\ sending \in Seq(Bytes(Sizes))
            /\ Orderly(Cat(front, net) \o sending, sent, Sizes)
            /\ Begins(Cat(front, net) \o sending, sent, Taken, cut)
        BY <1>0, <2>3, <2>4, <4>2 DEF Cat
      <4> QED BY <2>3, <4>2, <4>3, TheRestIsLost
    <3>2. CASE net' = <<>>
      <4>1. Cat(net', sending') = <<>>
        BY <1>1, <3>2, EmptySeq, CatEmpty
      <4>2. Stream' = front
        BY <2>1, <2>2, <4>1, CatEmpty
      <4>3. /\ front \in Seq(Bytes(Sizes)) /\ Cat(net, sending) \in Seq(Bytes(Sizes))
            /\ Orderly(front \o Cat(net, sending), sent, Sizes)
            /\ Begins(front \o Cat(net, sending), sent, Taken, cut)
        BY <2>1, <2>3, <2>4 DEF Cat
      <4> QED BY <2>3, <4>2, <4>3, TheRestIsLost
    <3> QED BY <1>1, <3>1, <3>2
  <2>6. \A f \in cut : f \in DOMAIN lens /\ codec = "lines" /\ lens[f] >= MultiLine
    BY <1>0 DEF StreamInv
  <2> QED BY <1>1, <1>2, <1>3, <2>5, <2>6, Zenon DEF StreamInv
<1>8. LinkInv'
  <2>1. \A w : WholeMessages(w)' = WholeMessages(w)
    BY <1>2 DEF WholeMessages, Size
  <2>2. WholeMessages(<<>>)
    BY DEF WholeMessages
  <2>3. /\ (transport # "tcp" => WholeMessages(sending))'
        /\ (transport \in Callbacks \cup {"ws"} => WholeMessages(net))'
    BY <1>0, <1>1, <1>2, <2>1, <2>2 DEF LinkInv
  <2>4. ~closed
    BY <1>0, <1>1 DEF LinkInv
  <2>5. transport = "tcp" => Len(net') <= NetCap
    <3>1. Len(<<>>) = 0 /\ NetCap \in Nat
      BY TransportAssumption
    <3> QED BY <1>0, <1>1, <3>1 DEF LinkInv
  <2> QED BY <1>0, <1>1, <1>2, <2>3, <2>4, <2>5 DEF LinkInv
<1>9. FailedInv'
  BY <1>0, <1>1, <1>2, FailedKept
<1> QED
  BY <1>5, <1>6, <1>7, <1>8, <1>9 DEF FrameInv

-----------------------------------------------------------------------------
(* The beginning of the stream: a frame or a line is returned. *)

LEMMA TheRestIs ==
  ASSUME NEW S, NEW p \in Seq(S), NEW w \in Seq(S)
  PROVE  SubSeq(p \o w, Len(p) + 1, Len(p \o w)) = w
<1>1. Len(p) \in Nat /\ Len(w) \in Nat /\ Len(p \o w) = Len(p) + Len(w)
  BY ConcatProperties
<1>2. CASE w = <<>>
  <2>1. Len(w) = 0 /\ Len(p \o w) < Len(p) + 1 /\ Len(p \o w) \in Int /\ Len(p) + 1 \in Int
    BY <1>1, <1>2
  <2> QED BY <1>2, <2>1, SubSeqEmpty
<1>3. CASE w # <<>>
  <2>1. Len(w) > 0
    BY <1>3, EmptySeq
  <2>2. /\ Len(p) + 1 \in Len(p) + 1 .. Len(p) + Len(w)
        /\ Len(p) + Len(w) \in Len(p) + 1 .. Len(p) + Len(w)
    BY <1>1, <2>1
  <2>3. SubSeq(p \o w, Len(p) + 1, Len(p) + Len(w)) = SubSeq(w, (Len(p) + 1) - Len(p), (Len(p) + Len(w)) - Len(p))
    BY <2>2, SubSeqOfConcat2
  <2>4. (Len(p) + 1) - Len(p) = 1 /\ (Len(p) + Len(w)) - Len(p) = Len(w)
    BY <1>1
  <2>5. SubSeq(w, 1, Len(w)) = w
    BY SubSeqFull
  <2> QED BY <1>1, <2>3, <2>4, <2>5
<1> QED
  BY <1>2, <1>3

(* The first e bytes of the stream are those of a unit, or of its first    *)
(* line.                                                                   *)
LEMMA TakingKeeps ==
  ASSUME FrameInv, UNCHANGED <<fixed, wireVars, sendVars, stage, prefix, got, bufVars>>,
         stage = "frames", hand = NoFrame, refused = FALSE,
         NEW e \in 1..Len(rbuf), rbuf' = Rest(rbuf, e),
         hand' \in DOMAIN lens \cup {NoFrame}, hand' # NoFrame => hand' = sent[Taken'],
         Taken' \in 1..Len(sent), Taken' >= Taken, rbuf[1].f = sent[Taken'],
         \/ rbuf[1].at + e = Size(rbuf[1].f) + 1
         \/ e = 3 /\ rbuf[1].at = 1 /\ Size(rbuf[1].f) > 3 /\ rbuf[1].f \in cut',
         \A f \in cut' : f \in DOMAIN lens /\ codec = "lines" /\ lens[f] >= MultiLine
  PROVE  FrameInv'
<1>0. /\ Settings /\ Parts \subseteq Seq(Byte) /\ LinkInv /\ TypeInv /\ SentInv /\ TakenInv /\ StreamInv
      /\ rbuf \in Seq(Byte)
  BY DEF FrameInv, TypeInv, Parts
<1>1. /\ UNCHANGED <<transport, codec, lens, checks, next, sent, resent, got, refused, queue>>
      /\ UNCHANGED <<bytes, depth, out, prefix, stage, sending, net, open, inbox, closed, pending>>
  BY DEF fixed, config, wireVars, sendVars, bufVars
<1>2. Byte' = Byte /\ Sizes' = Sizes
  BY <1>1, SizesKept DEF Byte, Size
<1> DEFINE p == First(rbuf, e)
           q == Rest(rbuf, e)
           back == Cat(prefix, Cat(pending, Cat(inbox, Cat(net, sending))))
           s == Stream
           r == SubSeq(s, e + 1, Len(s))
<1>3. p \in Seq(Byte) /\ Len(p) = e /\ q \in Seq(Byte) /\ Cat(p, q) = rbuf
  <2>1. e \in 0..Len(rbuf)
    OBVIOUS
  <2> QED BY <1>0, <2>1, CutInTwo DEF Cat
<1>4. back \in Seq(Byte) /\ s \in Seq(Byte) /\ s = Cat(rbuf, back)
  BY <1>0, StreamParts
<1>5. rbuf' = q
  OBVIOUS
<1> HIDE DEF p, q
<1>6. Parts' \subseteq Seq(Byte)
  BY <1>0, <1>1, <1>3, <1>5 DEF Parts
<1>7. Stream' = Cat(q, back)
  BY <1>1, <1>5, <1>6, StreamPartsNext
<1> HIDE DEF back, s
<1>8. s = p \o Cat(q, back) /\ Cat(q, back) \in Seq(Byte)
  <2>1. Cat(Cat(p, q), back) = Cat(p, Cat(q, back)) /\ Cat(q, back) \in Seq(Byte)
    BY <1>3, <1>4, CatIsAssociative
  <2>2. s = Cat(p, Cat(q, back))
    BY <1>3, <1>4, <2>1
  <2>3. Cat(p, Cat(q, back)) = p \o Cat(q, back)
    BY Zenon DEF Cat
  <2> QED BY <2>1, <2>2, <2>3
<1>9. Stream' = r
  BY <1>3, <1>7, <1>8, TheRestIs
<1>10. /\ Len(rbuf) \in Nat /\ Len(s) \in Nat /\ Len(rbuf) <= Len(s) /\ s[1] = rbuf[1]
       /\ s # <<>> /\ e \in 1..Len(s) /\ e \in Nat
  <2>1. rbuf \o back = s /\ Len(rbuf) \in Nat /\ Len(back) \in Nat /\ Len(s) = Len(rbuf) + Len(back)
    BY <1>0, <1>4, ConcatProperties DEF Cat
  <2>2. 1 <= Len(rbuf) /\ e \in 1..Len(s) /\ e \in Nat /\ 1 \in 1..Len(rbuf) + Len(back)
    BY <2>1
  <2>3. (rbuf \o back)[1] = rbuf[1]
    BY <1>0, <1>4, <2>2, ConcatProperties
  <2>4. s # <<>>
    BY <2>1, <2>2, EmptySeq
  <2> QED BY <2>1, <2>2, <2>3, <2>4
<1> DEFINE m == Taken'
<1>11. /\ Sizes \in [DOMAIN lens -> Nat \ {0}] /\ DOMAIN lens \in SUBSET Nat /\ s \in Seq(Bytes(Sizes))
       /\ sent \in Seq(DOMAIN lens) /\ Increasing(sent) /\ m \in 1..Len(sent) /\ sent[m] = s[1].f
       /\ Orderly(s, sent, Sizes)
  <2>1. Sizes \in [DOMAIN lens -> Nat \ {0}] /\ DOMAIN lens \in SUBSET Nat /\ Byte = Bytes(Sizes)
    BY <1>0, SizesType
  <2>2. sent \in Seq(DOMAIN lens) /\ Increasing(sent)
    BY <1>0 DEF SentInv
  <2>3. Orderly(s, sent, Sizes)
    BY <1>0 DEF StreamInv, s
  <2> QED BY <1>4, <1>10, <2>1, <2>2, <2>3
<1>12. Sizes[s[1].f] = Size(s[1].f)
  <2>1. 1 \in 1..Len(rbuf)
    BY <1>10
  <2>2. Sizes[rbuf[1].f] = Size(rbuf[1].f)
    BY <1>0, <2>1, ByteFields
  <2> QED BY <1>10, <2>2
<1> HIDE DEF m
<1>13. /\ Orderly(r, sent, Sizes) /\ Begins(r, sent, m, cut')
       /\ \A n : Ends(s, sent, n, Sizes) => Ends(r, sent, m, Sizes)
  <2>1. CASE rbuf[1].at + e = Size(rbuf[1].f) + 1
    <3>1. s[1].at + e = Sizes[s[1].f] + 1
      BY <1>10, <1>12, <2>1
    <3> HIDE DEF Sizes
    <3> QED BY <1>10, <1>11, <3>1, UnitIsTaken
  <2>2. CASE e = 3 /\ rbuf[1].at = 1 /\ Size(rbuf[1].f) > 3 /\ rbuf[1].f \in cut'
    <3>1. /\ s[1].at = 1 /\ Sizes[s[1].f] > 3 /\ s[1].f \in cut' /\ 3 <= Len(s)
          /\ r = SubSeq(s, 4, Len(s))
      BY <1>10, <1>12, <2>2
    <3> HIDE DEF Sizes, r
    <3> QED BY <1>11, <3>1, LineIsTaken
  <2> QED BY <2>1, <2>2
<1>14. StreamInv'
  <2>1. open => Ends(s, sent, Taken, Sizes)
    BY <1>0 DEF StreamInv, s
  <2>2. open => Ends(r, sent, m, Sizes)
    BY <1>13, <2>1
  <2>3. m = Taken'
    BY DEF m
  <2> HIDE DEF r
  <2> QED BY <1>1, <1>2, <1>9, <1>13, <2>2, <2>3, Zenon DEF StreamInv
<1>15. TypeInv'
  BY <1>0, <1>1, <1>2, <1>6 DEF TypeInv, Settings
<1>16. SentInv'
  BY <1>0, <1>1 DEF SentInv
<1>17. TakenInv'
  <2>1. Taken' <= Len(sent)
    BY <1>11
  <2> QED BY <1>0, <1>1, <2>1 DEF TakenInv
<1>18. LinkInv'
  BY <1>0, <1>1, LinkKept
<1>19. FailedInv'
  BY <1>1 DEF FailedInv
<1> QED
  BY <1>14, <1>15, <1>16, <1>17, <1>18, <1>19 DEF FrameInv

(* What the receiver has begins the stream.                                *)
LEMMA HeadOfTheStream ==
  ASSUME FrameInv, rbuf # <<>>
  PROVE  /\ \/ Taken < Len(sent) /\ rbuf[1].f = sent[Taken + 1] /\ rbuf[1].at = 1
            \/ Taken > 0 /\ rbuf[1].f = sent[Taken] /\ rbuf[1].f \in cut /\ rbuf[1].at > 3
         /\ \A i \in 1..Len(rbuf) :
              rbuf[1].at + (i - 1) <= Size(rbuf[1].f) =>
                rbuf[i].f = rbuf[1].f /\ rbuf[i].at = rbuf[1].at + (i - 1)
         /\ Len(rbuf) \in Nat \ {0} /\ rbuf[1].f \in DOMAIN lens /\ lens[rbuf[1].f] \in Nat
         /\ rbuf[1].at \in Nat /\ Size(rbuf[1].f) \in Nat \ {0}
         /\ 1 <= rbuf[1].at /\ rbuf[1].at <= Size(rbuf[1].f)
         /\ Taken \in Nat /\ Len(sent) \in Nat /\ Taken <= Len(sent)
<1>0. /\ Settings /\ Parts \subseteq Seq(Byte) /\ SentInv /\ TakenInv /\ StreamInv /\ rbuf \in Seq(Byte)
  BY DEF FrameInv, TypeInv, Parts
<1>1. Len(rbuf) \in Nat \ {0} /\ DOMAIN rbuf = 1..Len(rbuf) /\ 1 \in 1..Len(rbuf)
  BY <1>0, EmptySeq
<1>2. /\ rbuf[1].f \in DOMAIN lens /\ Sizes[rbuf[1].f] = Size(rbuf[1].f)
      /\ rbuf[1].at \in Nat /\ Size(rbuf[1].f) \in Nat \ {0}
      /\ 1 <= rbuf[1].at /\ rbuf[1].at <= Size(rbuf[1].f)
  BY <1>0, <1>1, ByteFields
<1>3. lens[rbuf[1].f] \in Nat
  BY <1>0, <1>2, SizesType
<1>4. Orderly(rbuf, sent, Sizes)
  BY <1>0, EveryPartIsOrderly DEF StreamInv
<1>5. \A i \in 1..Len(rbuf) :
        rbuf[1].at + (i - 1) <= Size(rbuf[1].f) =>
          rbuf[i].f = rbuf[1].f /\ rbuf[i].at = rbuf[1].at + (i - 1)
  <2> TAKE i \in 1..Len(rbuf)
  <2>1. 1 <= i
    BY <1>1
  <2> QED BY <1>1, <1>2, <1>4, <2>1 DEF Orderly, Runs
<1>6. Stream # <<>> /\ Stream[1] = rbuf[1]
  <2> DEFINE back == Cat(prefix, Cat(pending, Cat(inbox, Cat(net, sending))))
  <2>1. back \in Seq(Byte) /\ Stream = Cat(rbuf, back) /\ Stream \in Seq(Byte)
    BY <1>0, StreamParts
  <2> HIDE DEF back
  <2>2. Stream = rbuf \o back /\ Len(back) \in Nat /\ Len(Stream) = Len(rbuf) + Len(back)
    BY <1>0, <2>1, ConcatProperties DEF Cat
  <2>3. 1 \in 1..Len(rbuf) + Len(back)
    BY <1>1, <2>2
  <2>4. (rbuf \o back)[1] = rbuf[1]
    BY <1>0, <1>1, <2>1, <2>3, ConcatProperties
  <2>5. Stream # <<>>
    BY <1>1, <2>2, EmptySeq
  <2> QED BY <2>2, <2>4, <2>5
<1>7. Taken \in Nat /\ Len(sent) \in Nat /\ Taken <= Len(sent)
  BY <1>0 DEF TakenInv, SentInv, Taken
<1> QED
  BY <1>0, <1>1, <1>2, <1>3, <1>5, <1>6, <1>7 DEF StreamInv, Begins

LEMMA RecvFrameKeeps ==
  ASSUME FrameInv, RecvFrame
  PROVE  FrameInv'
<1> DEFINE f == rbuf[1].f
           e == HeaderLen + Announced
<1>0. /\ Settings /\ TakenInv /\ SentInv /\ HeaderLen \in Nat \ {0} /\ DOMAIN lens = 1..Len(lens)
      /\ \A g \in cut : g \in DOMAIN lens /\ codec = "lines" /\ lens[g] >= MultiLine
  BY TransportAssumption, SizesType DEF FrameInv, TypeInv, StreamInv
<1>1. /\ UNCHANGED <<fixed, wireVars, sendVars, stage, prefix, cut, got, bufVars>>
      /\ stage = "frames" /\ hand = NoFrame /\ hand' = f /\ rbuf' = Rest(rbuf, e)
      /\ codec = "frames" /\ Len(rbuf) >= HeaderLen /\ Len(rbuf) >= e
  BY DEF RecvFrame, Receiving, FrameComplete, HeaderComplete
<1>2. rbuf # <<>>
  <2>1. rbuf = <<>> => Len(rbuf) = 0
    BY EmptySeq
  <2> QED BY <1>0, <1>1, <2>1
<1>3. Taken < Len(sent) /\ f = sent[Taken + 1] /\ rbuf[1].at = 1
  <2>1. \/ Taken < Len(sent) /\ rbuf[1].f = sent[Taken + 1] /\ rbuf[1].at = 1
        \/ Taken > 0 /\ rbuf[1].f = sent[Taken] /\ rbuf[1].f \in cut /\ rbuf[1].at > 3
    BY <1>2, HeadOfTheStream
  <2>2. cut = {}
    BY <1>0, <1>1
  <2> QED BY <2>1, <2>2
<1>4. /\ Len(rbuf) \in Nat \ {0} /\ f \in DOMAIN lens /\ lens[f] \in Nat /\ Taken \in Nat /\ Len(sent) \in Nat
      /\ \A i \in 1..Len(rbuf) :
           rbuf[1].at + (i - 1) <= Size(f) => rbuf[i].at = rbuf[1].at + (i - 1)
  BY <1>2, HeadOfTheStream
<1>5. Size(f) = HeaderLen + lens[f]
  BY <1>1 DEF Size
<1>6. \A i \in 1..HeaderLen : rbuf[i].at = i
  <2> TAKE i \in 1..HeaderLen
  <2>0. HeaderLen \in Nat /\ Len(rbuf) \in Nat /\ Len(rbuf) >= HeaderLen /\ lens[f] \in Nat
    BY <1>0, <1>1, <1>4
  <2>1. i \in 1..Len(rbuf) /\ 1 + (i - 1) = i /\ i <= HeaderLen + lens[f]
    BY <2>0
  <2> QED BY <1>3, <1>4, <1>5, <2>1
<1>7. Announced = lens[f] /\ e = Size(f)
  BY <1>5, <1>6 DEF Announced
<1>8. e \in 1..Len(rbuf) /\ rbuf[1].at + e = Size(f) + 1
  BY <1>0, <1>1, <1>3, <1>4, <1>5, <1>7
<1>9. Taken' = Taken + 1 /\ hand' # NoFrame
  <2>1. hand' # NoFrame
    BY <1>0, <1>1, <1>4 DEF NoFrame
  <2>2. UNCHANGED <<out, queue>>
    BY <1>1 DEF bufVars
  <2>3. Len(out) \in Nat /\ Len(queue) \in Nat
    BY <1>0 DEF TakenInv
  <2> QED BY <1>1, <2>1, <2>2, <2>3 DEF Taken
<1>10. Taken' \in 1..Len(sent) /\ Taken' >= Taken /\ f = sent[Taken'] /\ hand' \in DOMAIN lens
  BY <1>1, <1>3, <1>4, <1>9
<1>11. refused = FALSE
  BY <1>0, <1>1 DEF TakenInv, FrameInv, TypeInv
<1>12. \A g \in cut' : g \in DOMAIN lens /\ codec = "lines" /\ lens[g] >= MultiLine
  BY <1>0, <1>1
<1> HIDE DEF e
<1> QED
  BY <1>1, <1>8, <1>10, <1>11, <1>12, TakingKeeps

(* Where the first line ends.                                              *)
LEMMA FirstLineEnd ==
  ASSUME FrameInv, codec = "lines", LineEnds # {}
  PROVE  LET f == rbuf[1].f
         IN /\ Min(LineEnds) \in 1..Len(rbuf)
            /\ \/ rbuf[1].at = 1 /\ lens[f] >= MultiLine /\ Min(LineEnds) = 3 /\ Size(f) > 3
               \/ /\ ~(rbuf[1].at = 1 /\ lens[f] >= MultiLine)
                  /\ rbuf[1].at + Min(LineEnds) = Size(f) + 1
<1> DEFINE f == rbuf[1].f
           a == rbuf[1].at
           e == IF a = 1 /\ lens[f] >= MultiLine THEN 3 ELSE Size(f) - a + 1
<1>1. rbuf # <<>>
  BY DEF LineEnds
<1>2. /\ Len(rbuf) \in Nat \ {0} /\ f \in DOMAIN lens /\ lens[f] \in Nat
      /\ a \in Nat /\ Size(f) \in Nat \ {0} /\ 1 <= a /\ a <= Size(f)
      /\ a = 1 \/ a > 3
      /\ \A i \in 1..Len(rbuf) : a + (i - 1) <= Size(f) => rbuf[i].f = f /\ rbuf[i].at = a + (i - 1)
  BY <1>1, HeadOfTheStream
<1>3. Size(f) = 2 + lens[f] /\ MultiLine \in Nat /\ MultiLine > 2
  BY StreamAssumption DEF Size
<1>4. DOMAIN rbuf = 1..Len(rbuf)
  BY DEF FrameInv, TypeInv, Parts
<1> HIDE DEF f, a
<1>5. e \in Nat /\ 1 <= e /\ a + (e - 1) <= Size(f)
  BY <1>2, <1>3
<1>6. ASSUME NEW i \in LineEnds PROVE i \in 1..Len(rbuf) /\ e <= i
  <2>1. i \in 1..Len(rbuf) /\ i \in Nat
    BY <1>4 DEF LineEnds
  <2>2. ASSUME i < e PROVE FALSE
    <3>1. a + (i - 1) < Size(f)
      BY <1>2, <1>5, <2>1, <2>2
    <3>2. rbuf[i].f = f /\ rbuf[i].at = a + (i - 1)
      BY <1>2, <2>1, <3>1
    <3>3. rbuf[i].at = 3 /\ lens[f] >= MultiLine
      BY <1>2, <2>1, <3>1, <3>2 DEF LineEnds
    <3> QED BY <1>2, <2>1, <2>2, <3>2, <3>3
  <2> QED BY <1>5, <2>1, <2>2
<1>7. e \in LineEnds
  <2>1. PICK i \in LineEnds : TRUE
    OBVIOUS
  <2>2. e \in 1..Len(rbuf)
    BY <1>2, <1>5, <1>6
  <2>3. rbuf[e].f = f /\ rbuf[e].at = a + (e - 1)
    BY <1>2, <1>5, <2>2
  <2>4. a + (e - 1) = Size(f) \/ (a + (e - 1) = 3 /\ lens[f] >= MultiLine)
    BY <1>2
  <2> QED BY <1>4, <2>2, <2>3, <2>4 DEF LineEnds
<1> HIDE DEF e
<1>8. Min(LineEnds) = e
  <2>1. \A x \in LineEnds : (\A y \in LineEnds : x <= y) => x = e
    <3> SUFFICES ASSUME NEW x \in LineEnds, \A y \in LineEnds : x <= y
                 PROVE  x = e
      OBVIOUS
    <3>1. x <= e /\ e <= x /\ x \in Nat
      BY <1>6, <1>7
    <3> QED BY <1>5, <3>1
  <2>2. \A y \in LineEnds : e <= y
    BY <1>6
  <2> QED BY <1>7, <2>1, <2>2 DEF Min
<1>9. e \in 1..Len(rbuf)
  BY <1>6, <1>7
<1>10. \/ a = 1 /\ lens[f] >= MultiLine /\ e = 3 /\ Size(f) > 3
       \/ ~(a = 1 /\ lens[f] >= MultiLine) /\ a + e = Size(f) + 1
  BY <1>2, <1>3 DEF e
<1> QED
  BY <1>8, <1>9, <1>10 DEF f, a

LEMMA RecvSignalKeeps ==
  ASSUME FrameInv, RecvSignal
  PROVE  FrameInv'
<1> DEFINE f == rbuf[1].f
           end == Min(LineEnds)
<1>0. /\ Settings /\ TakenInv /\ SentInv /\ DOMAIN lens = 1..Len(lens)
      /\ \A g \in cut : g \in DOMAIN lens /\ codec = "lines" /\ lens[g] >= MultiLine
      /\ \A g \in DOMAIN lens : Size(g) \in Nat
  BY SizesType DEF FrameInv, TypeInv, StreamInv
<1>1. /\ UNCHANGED <<fixed, wireVars, sendVars, stage, prefix, got, bufVars>>
      /\ stage = "frames" /\ hand = NoFrame /\ rbuf' = Rest(rbuf, end)
      /\ codec = "lines" /\ LineEnds # {}
      /\ IF rbuf[1].at = 1
         THEN hand' = f /\ cut' = cut \cup {f : i \in {end} \ {Size(f)}}
         ELSE UNCHANGED <<hand, cut>>
  BY DEF RecvSignal, Receiving, LineComplete, Deserializes
<1>2. /\ end \in 1..Len(rbuf)
      /\ \/ rbuf[1].at = 1 /\ lens[f] >= MultiLine /\ end = 3 /\ Size(f) > 3
         \/ ~(rbuf[1].at = 1 /\ lens[f] >= MultiLine) /\ rbuf[1].at + end = Size(f) + 1
  BY <1>1, FirstLineEnd
<1>3. rbuf # <<>>
  BY <1>1 DEF LineEnds
<1> HIDE DEF end
<1>4. /\ \/ Taken < Len(sent) /\ f = sent[Taken + 1] /\ rbuf[1].at = 1
         \/ Taken > 0 /\ f = sent[Taken] /\ f \in cut /\ rbuf[1].at > 3
      /\ f \in DOMAIN lens /\ lens[f] \in Nat /\ rbuf[1].at \in Nat /\ Size(f) \in Nat
      /\ Taken \in Nat /\ Len(sent) \in Nat /\ Taken <= Len(sent)
  BY <1>3, HeadOfTheStream
<1>5. refused = FALSE
  BY <1>0, <1>1 DEF TakenInv, FrameInv, TypeInv
<1>6. UNCHANGED <<out, queue>> /\ Len(out) \in Nat /\ Len(queue) \in Nat
  BY <1>0, <1>1 DEF bufVars, TakenInv
<1>7. CASE rbuf[1].at = 1
  <2>1. Taken < Len(sent) /\ f = sent[Taken + 1]
    BY <1>4, <1>7
  <2>2. hand' = f /\ hand' # NoFrame /\ cut' = cut \cup {f : i \in {end} \ {Size(f)}}
    BY <1>0, <1>1, <1>4, <1>7 DEF NoFrame
  <2>3. Taken' = Taken + 1
    BY <1>1, <1>6, <2>2 DEF Taken
  <2>4. Taken' \in 1..Len(sent) /\ Taken' >= Taken /\ f = sent[Taken']
    BY <1>4, <2>1, <2>3
  <2>5. CASE lens[f] >= MultiLine
    <3>1. end = 3 /\ Size(f) > 3
      BY <1>2, <1>7, <2>5
    <3>2. f \in cut'
      <4>1. end \in {end} \ {Size(f)}
        BY <1>4, <3>1
      <4> QED BY <2>2, <4>1
    <3>3. \A g \in cut' : g \in DOMAIN lens /\ codec = "lines" /\ lens[g] >= MultiLine
      BY <1>0, <1>1, <1>4, <2>2, <2>5
    <3> QED BY <1>1, <1>2, <1>4, <1>5, <1>7, <2>2, <2>4, <3>1, <3>2, <3>3, TakingKeeps
  <2>6. CASE ~(lens[f] >= MultiLine)
    <3>0. rbuf[1].at + end = Size(f) + 1 /\ end \in Int /\ Size(f) \in Nat
      BY <1>2, <1>4, <2>6
    <3>1. end = Size(f)
      BY <1>7, <3>0
    <3>2. \A g \in cut' : g \in DOMAIN lens /\ codec = "lines" /\ lens[g] >= MultiLine
      BY <1>0, <2>2, <3>1
    <3> QED BY <1>1, <1>2, <1>4, <1>5, <2>2, <2>4, <3>0, <3>2, TakingKeeps
  <2> QED BY <2>5, <2>6
<1>8. CASE rbuf[1].at # 1
  <2>1. Taken > 0 /\ f = sent[Taken]
    BY <1>4, <1>8
  <2>2. UNCHANGED <<hand, cut>>
    BY <1>1, <1>8
  <2>3. Taken' = Taken
    BY <1>6, <2>2 DEF Taken
  <2>4. Taken' \in 1..Len(sent) /\ Taken' >= Taken /\ f = sent[Taken']
    BY <1>4, <2>1, <2>3
  <2>5. rbuf[1].at + end = Size(f) + 1
    BY <1>2, <1>8
  <2>6. \A g \in cut' : g \in DOMAIN lens /\ codec = "lines" /\ lens[g] >= MultiLine
    BY <1>0, <2>2
  <2>7. hand' \in DOMAIN lens \cup {NoFrame} /\ (hand' # NoFrame => hand' = sent[Taken'])
    BY <1>1, <2>2
  <2> QED BY <1>1, <1>2, <1>5, <2>4, <2>5, <2>6, <2>7, TakingKeeps
<1> QED
  BY <1>7, <1>8

-----------------------------------------------------------------------------
(* The consumer, and the theorem. *)

LEMMA ConsumingKeeps ==
  ASSUME FrameInv, UNCHANGED <<fixed, wireVars, sendVars, recvVars>>,
         refused' \in BOOLEAN, TakenInv', Taken' = Taken
  PROVE  FrameInv'
<1>1. /\ UNCHANGED <<transport, codec, lens, checks, next, sent, resent, stage, prefix, rbuf, cut, got>>
      /\ UNCHANGED <<sending, net, open, inbox, closed, pending>>
  BY DEF fixed, config, wireVars, sendVars, recvVars
<1>2. Byte' = Byte /\ Sizes' = Sizes /\ Stream' = Stream
  BY <1>1, SizesKept DEF Byte, Size, Stream
<1>3. TypeInv'
  BY <1>1, <1>2 DEF FrameInv, TypeInv, Settings, Parts
<1>4. SentInv'
  BY <1>1 DEF FrameInv, SentInv
<1>5. StreamInv'
  BY <1>1, <1>2, Zenon DEF FrameInv, StreamInv
<1>6. LinkInv'
  BY <1>1, LinkKept DEF FrameInv, LinkInv
<1>7. FailedInv'
  <2>1. /\ TooLarge' = TooLarge /\ Complete' = Complete /\ HasMessage(inbox)' = HasMessage(inbox)
        /\ UNCHANGED <<pending, open, net, stage>>
    BY <1>1 DEF TooLarge, HeaderComplete, Announced, Complete, FrameComplete, LineComplete,
                LineEnds, HasMessage, Size
  <2> QED BY <2>1, Zenon DEF FrameInv, FailedInv
<1> QED
  BY <1>3, <1>4, <1>5, <1>6, <1>7 DEF FrameInv

LEMMA ConsumerKeeps ==
  ASSUME FrameInv, Consumer
  PROVE  FrameInv'
<1>0. TakenInv /\ refused \in BOOLEAN /\ SentInv /\ Settings
  BY DEF FrameInv, TypeInv
<1>1. /\ out \in Seq(DOMAIN lens) /\ queue \in Seq(DOMAIN lens) /\ hand \in DOMAIN lens \cup {NoFrame}
      /\ Len(out) \in Nat /\ Len(queue) \in Nat /\ Len(sent) \in Nat /\ Taken <= Len(sent)
      /\ DOMAIN lens \subseteq Nat \ {0}
  BY <1>0, SizesType DEF TakenInv, SentInv
<1>2. /\ UNCHANGED <<fixed, wireVars, sendVars, recvVars>>
      /\ UNCHANGED <<sent, codec, lens>>
  BY DEF Consumer, TakeSignal, TryPush, TryPop, fixed, config, sendVars
<1>3. CASE TakeSignal
  <2>1. /\ codec = "lines" /\ hand # NoFrame /\ out' = Append(out, hand) /\ hand' = NoFrame
        /\ UNCHANGED <<refused, queue, bytes, depth>> /\ queue = <<>> /\ refused = FALSE
    BY <1>0, <1>3 DEF TakeSignal, TakenInv
  <2>2. /\ out' \in Seq(DOMAIN lens) /\ Len(out') = Len(out) + 1
        /\ \A i \in 1..Len(out) : out'[i] = out[i]
        /\ out'[Len(out) + 1] = hand
    <3>1. hand \in DOMAIN lens
      BY <1>1, <2>1
    <3> QED BY <1>1, <2>1, <3>1, AppendProperties
  <2>3. Len(queue) = 0 /\ Taken = Len(out) + 1 /\ Taken' = Taken
    BY <1>1, <2>1, <2>2 DEF Taken
  <2>4. \A i \in 1..Len(out') : out'[i] = sent[i]
    <3> TAKE i \in 1..Len(out')
    <3>1. i \in 1..Len(out) \/ i = Len(out) + 1
      BY <1>1, <2>2
    <3>2. hand = sent[Len(out) + 1]
      BY <1>0, <2>1, <2>3 DEF TakenInv
    <3> QED BY <1>0, <2>2, <3>1, <3>2 DEF TakenInv
  <2>5. TakenInv'
    BY <1>0, <1>1, <1>2, <2>1, <2>2, <2>3, <2>4 DEF TakenInv
  <2> QED BY <1>0, <1>2, <2>1, <2>3, <2>5, ConsumingKeeps
<1>4. CASE TryPush
  <2>1. codec = "frames" /\ hand # NoFrame /\ refused = FALSE /\ hand \in DOMAIN lens /\ UNCHANGED out
    BY <1>0, <1>1, <1>4 DEF TryPush, Offered
  <2>2. CASE HasRoom(hand)
    <3>1. queue' = Append(queue, hand) /\ hand' = NoFrame /\ UNCHANGED refused
      BY <1>4, <2>2 DEF TryPush
    <3>2. /\ queue' \in Seq(DOMAIN lens) /\ Len(queue') = Len(queue) + 1
          /\ \A i \in 1..Len(queue) : queue'[i] = queue[i]
          /\ queue'[Len(queue) + 1] = hand
      BY <1>1, <2>1, <3>1, AppendProperties
    <3>3. Taken = Len(out) + (Len(queue) + 1) /\ Taken' = Taken
      BY <1>1, <2>1, <3>1, <3>2 DEF Taken
    <3>4. \A i \in 1..Len(queue') : queue'[i] = sent[Len(out) + i]
      <4> TAKE i \in 1..Len(queue')
      <4>1. i \in 1..Len(queue) \/ i = Len(queue) + 1
        BY <1>1, <3>2
      <4>2. hand = sent[Len(out) + (Len(queue) + 1)]
        BY <1>0, <2>1, <3>3 DEF TakenInv
      <4> QED BY <1>0, <3>2, <4>1, <4>2 DEF TakenInv
    <3>5. TakenInv'
      BY <1>0, <1>1, <1>2, <2>1, <3>1, <3>2, <3>3, <3>4 DEF TakenInv
    <3> QED BY <1>0, <1>2, <3>1, <3>3, <3>5, ConsumingKeeps
  <2>3. CASE ~HasRoom(hand)
    <3>1. refused' = TRUE /\ UNCHANGED <<queue, hand>>
      BY <1>4, <2>3 DEF TryPush
    <3>2. Taken' = Taken
      BY <2>1, <3>1 DEF Taken
    <3>3. TakenInv'
      BY <1>0, <1>1, <1>2, <2>1, <3>1, <3>2 DEF TakenInv
    <3> QED BY <1>0, <1>2, <3>1, <3>2, <3>3, ConsumingKeeps
  <2> QED BY <2>2, <2>3
<1>5. CASE TryPop
  <2>1. /\ queue # <<>> /\ out' = Append(out, Head(queue)) /\ queue' = Tail(queue) /\ refused' = FALSE
        /\ UNCHANGED hand
    BY <1>5 DEF TryPop
  <2>2. /\ queue' \in Seq(DOMAIN lens) /\ Len(queue') = Len(queue) - 1 /\ Len(queue) \in Nat \ {0}
        /\ \A i \in 1..Len(queue') : queue'[i] = queue[i + 1]
        /\ Head(queue) \in DOMAIN lens /\ Head(queue) = queue[1]
    BY <1>1, <2>1, HeadTailProperties, EmptySeq
  <2>3. /\ out' \in Seq(DOMAIN lens) /\ Len(out') = Len(out) + 1
        /\ \A i \in 1..Len(out) : out'[i] = out[i]
        /\ out'[Len(out) + 1] = Head(queue)
    BY <1>1, <2>1, <2>2, AppendProperties
  <2>4. Taken' = Taken
    <3>1. Len(out') + Len(queue') = Len(out) + Len(queue)
      BY <1>1, <2>2, <2>3
    <3> QED BY <2>1, <3>1 DEF Taken
  <2>5. \A i \in 1..Len(out') : out'[i] = sent[i]
    <3> TAKE i \in 1..Len(out')
    <3>1. i \in 1..Len(out) \/ i = Len(out) + 1
      BY <1>1, <2>3
    <3>2. queue[1] = sent[Len(out) + 1]
      BY <1>0, <2>2 DEF TakenInv
    <3> QED BY <1>0, <2>2, <2>3, <3>1, <3>2 DEF TakenInv
  <2>6. \A i \in 1..Len(queue') : queue'[i] = sent[Len(out') + i]
    <3> TAKE i \in 1..Len(queue')
    <3>1. i + 1 \in 1..Len(queue) /\ Len(out) + (i + 1) = Len(out') + i
      BY <1>1, <2>2, <2>3
    <3>2. queue[i + 1] = sent[Len(out) + (i + 1)]
      BY <1>0, <3>1 DEF TakenInv
    <3> QED BY <2>2, <3>1, <3>2
  <2>7. codec # "lines"
    BY <1>0, <2>1 DEF TakenInv
  <2>8. TakenInv'
    BY <1>0, <1>1, <1>2, <2>1, <2>2, <2>3, <2>4, <2>5, <2>6, <2>7 DEF TakenInv
  <2> QED BY <1>0, <1>2, <2>1, <2>4, <2>8, ConsumingKeeps
<1> QED
  BY <1>3, <1>4, <1>5 DEF Consumer

LEMMA StutterKeeps ==
  ASSUME FrameInv, UNCHANGED vars
  PROVE  FrameInv'
<1>1. UNCHANGED <<fixed, wireVars, sendVars, recvVars, hand, bufVars>>
  BY DEF vars
<1>2. UNCHANGED <<hand, refused, queue, bytes, depth, out, sent, codec, lens>>
  BY <1>1 DEF bufVars, fixed, config, sendVars
<1>3. TakenInv' /\ Taken' = Taken /\ refused' \in BOOLEAN
  BY <1>2 DEF FrameInv, TypeInv, TakenInv, Taken
<1> QED
  BY <1>1, <1>3, ConsumingKeeps

LEMMA FrameInitial ==
  ASSUME Init, codec # "bridge"
  PROVE  FrameInv
<1>1. /\ Settings /\ next = 1 /\ sent = <<>> /\ stage \in {"connect", "detect", "frames"}
      /\ prefix = <<>> /\ rbuf = <<>> /\ cut = {} /\ hand = NoFrame /\ refused = FALSE
      /\ queue = <<>> /\ out = <<>>
      /\ sending = <<>> /\ net = <<>> /\ open = TRUE /\ inbox = <<>> /\ closed = FALSE /\ pending = <<>>
  <2>1. Transports = {"tcp", "tcp_wasi", "ws", "ws_wasi", "browser", "rtc"}
    BY DEF Transports
  <2> QED BY <2>1 DEF Init, WireInit, Settings, Stages
<1>2. Parts \subseteq Seq(Byte) /\ TypeInv
  BY <1>1, EmptySeq DEF Parts, TypeInv
<1>3. Len(lens) \in Nat /\ <<>> \in Seq(DOMAIN lens) /\ Len(<<>>) = 0 /\ DOMAIN (<<>>) = {}
  BY <1>1, SizesType, EmptySeq
<1>4. SentInv
  BY <1>1, <1>3 DEF SentInv, Increasing
<1>5. Taken = 0 /\ TakenInv
  BY <1>1, <1>3 DEF Taken, TakenInv
<1>6. Stream = <<>>
  <2>1. Stream \in Seq(Byte) /\ Stream = Cat(rbuf, Cat(prefix, Cat(pending, Cat(inbox, Cat(net, sending)))))
    BY <1>2, StreamParts
  <2>2. Cat(<<>>, <<>>) = <<>>
    BY CatEmpty, EmptySeq
  <2> QED BY <1>1, <2>1, <2>2
<1>7. StreamInv
  BY <1>1, <1>3, <1>5, <1>6 DEF StreamInv, Orderly, Runs, Joins, Begins, Ends
<1>8. LinkInv
  BY <1>1, <1>3, StreamAssumption, TransportAssumption DEF LinkInv, WholeMessages
<1>9. FailedInv
  BY <1>1 DEF FailedInv
<1> QED
  BY <1>2, <1>4, <1>5, <1>7, <1>8, <1>9 DEF FrameInv

LEMMA FrameStep ==
  ASSUME FrameInv, [Next]_vars
  PROVE  FrameInv'
<1>1. codec # "bridge"
  BY DEF FrameInv, TypeInv, Settings
<1>2. CASE Sender
  BY <1>2, SendKeeps, WriteCarries DEF Sender
<1>3. CASE PollWritePending \/ PollRead
  BY <1>1, <1>3 DEF PollWritePending, PollRead
<1>4. CASE Wire(Break)
  BY <1>4, BreakKeeps
<1>5. CASE Arrival
  BY <1>5, OnMessageCarries, OnCloseCarries DEF Arrival
<1>6. CASE Dial
  BY <1>6, StageCarries DEF Dial
<1>7. CASE Detect \/ DetectEnds \/ ReplayPrefix \/ ReadMore \/ ReadAhead \/ RecvFails
  BY <1>7, DetectCarries, StageCarries, ReplayCarries, ReadMoreCarries, ReadAheadCarries
<1>8. CASE RecvFrame \/ RecvSignal
  BY <1>8, RecvFrameKeeps, RecvSignalKeeps
<1>9. CASE Consumer
  BY <1>9, ConsumerKeeps
<1>10. CASE UNCHANGED vars
  BY <1>10, StutterKeeps
<1> QED
  BY <1>2, <1>3, <1>4, <1>5, <1>6, <1>7, <1>8, <1>9, <1>10, Zenon DEF Next, Receiver

LEMMA OrderFollows ==
  ASSUME FrameInv
  PROVE  BytesInOrder
<1>0. /\ Settings /\ Parts \subseteq Seq(Byte) /\ TakenInv /\ SentInv /\ StreamInv /\ FailedInv
      /\ Stream \in Seq(Byte) /\ Len(Stream) \in Nat /\ DOMAIN Stream = 1..Len(Stream)
  <2>1. Settings /\ Parts \subseteq Seq(Byte) /\ TakenInv /\ SentInv /\ StreamInv /\ FailedInv
    BY DEF FrameInv, TypeInv
  <2>2. Stream \in Seq(Byte)
    BY <2>1, StreamParts
  <2> DEFINE w == Stream
  <2> HIDE DEF w
  <2>3. w \in Seq(Byte)
    BY <2>2 DEF w
  <2>4. Len(w) \in Nat /\ DOMAIN w = 1..Len(w)
    BY <2>3
  <2> QED BY <2>1, <2>2, <2>4 DEF w
<1>1. \A i \in 1..Len(Stream) :
        /\ Stream[i].f \in DOMAIN lens /\ Stream[i].at \in Nat /\ Size(Stream[i].f) \in Nat
        /\ Sizes[Stream[i].f] = Size(Stream[i].f) /\ Stream[i].at <= Size(Stream[i].f)
        /\ Stream[i] = [f |-> Stream[i].f, at |-> Stream[i].at]
  BY <1>0, ByteFields
<1>2. \A i \in 1..(Len(Stream) - 1) : Follows(Stream[i], Stream[i + 1])
  <2> TAKE i \in 1..(Len(Stream) - 1)
  <2>1. i \in 1..Len(Stream) /\ i + 1 \in 1..Len(Stream) /\ i <= i + 1 /\ (i + 1) - i = 1
    BY <1>0
  <2> DEFINE b == Stream[i]
             c == Stream[i + 1]
  <2>2. /\ b.f \in DOMAIN lens /\ b.at \in Nat /\ Size(b.f) \in Nat /\ Sizes[b.f] = Size(b.f)
        /\ b.at <= Size(b.f) /\ b = [f |-> b.f, at |-> b.at] /\ c = [f |-> c.f, at |-> c.at]
    BY <1>1, <2>1
  <2>3. CASE b.at < Size(b.f)
    <3>1. b.at + ((i + 1) - i) <= Sizes[b.f]
      <4>1. b.at \in Nat /\ Size(b.f) \in Nat /\ Sizes[b.f] = Size(b.f) /\ (i + 1) - i = 1
        BY <2>1, <2>2
      <4> HIDE DEF b
      <4> QED BY <2>3, <4>1
    <3>2. c.f = b.f /\ c.at = b.at + 1
      BY <1>0, <2>1, <3>1 DEF StreamInv, Orderly, Runs
    <3> HIDE DEF b, c
    <3>3. [b EXCEPT !.at = @ + 1] = [f |-> b.f, at |-> b.at + 1]
      BY <2>2
    <3>4. c = [b EXCEPT !.at = @ + 1]
      BY <2>2, <3>2, <3>3
    <3> QED BY <3>4 DEF Follows, b, c
  <2>4. CASE b.at = Size(b.f)
    <3>1. c.at = 1 /\ Neighbours(sent, b.f, c.f)
      BY <1>0, <2>2, <2>4 DEF StreamInv, Orderly, Joins
    <3> QED BY <2>4, <3>1 DEF Follows, Neighbours
  <2> QED BY <2>2, <2>3, <2>4
<1>3. BeginsRight
  <2> SUFFICES ASSUME Stream # <<>>
               PROVE  \/ /\ Taken < Len(sent)
                         /\ Stream[1] = [f |-> sent[Taken + 1], at |-> got + 1]
                      \/ Taken > 0 /\ Stream[1].f = sent[Taken] /\ Stream[1].f \in cut
    BY DEF BeginsRight
  <2>1. 1 \in 1..Len(Stream)
    BY <1>0, EmptySeq
  <2>2. Stream[1] = [f |-> Stream[1].f, at |-> Stream[1].at] /\ got = 0
    BY <1>0, <1>1, <2>1 DEF Settings
  <2>3. \/ Taken < Len(sent) /\ Stream[1].f = sent[Taken + 1] /\ Stream[1].at = 1
        \/ Taken > 0 /\ Stream[1].f = sent[Taken] /\ Stream[1].f \in cut
    BY <1>0 DEF StreamInv, Begins
  <2>4. got + 1 = 1
    BY <2>2
  <2> QED BY <2>2, <2>3, <2>4
<1>4. open => IF Stream = <<>> THEN Taken = Len(sent)
              ELSE LET f == sent[Len(sent)]
                   IN Stream[Len(Stream)] = [f |-> f, at |-> Size(f)]
  <2> SUFFICES ASSUME open, Stream # <<>>
               PROVE  Stream[Len(Stream)] = [f |-> sent[Len(sent)], at |-> Size(sent[Len(sent)])]
    BY <1>0 DEF StreamInv, Ends
  <2>1. Len(Stream) \in 1..Len(Stream)
    BY <1>0, EmptySeq
  <2>2. Stream[Len(Stream)].f = sent[Len(sent)] /\ Stream[Len(Stream)].at = Sizes[sent[Len(sent)]]
    BY <1>0 DEF StreamInv, Ends
  <2> QED BY <1>1, <2>1, <2>2
<1> QED
  BY <1>0, <1>2, <1>3, <1>4, Zenon DEF BytesInOrder, StreamInv, FailedInv

-----------------------------------------------------------------------------
(* The stack implements the queue of frames it promises. *)

LEMMA QueueStep ==
  ASSUME FrameInv, [Next]_vars
  PROVE  [Queue!Next]_(Queue!vars)
<1>0. /\ Settings /\ SentInv /\ TakenInv /\ codec # "bridge"
      /\ Len(out) \in Nat /\ Len(queue) \in Nat /\ Len(sent) \in Nat /\ Taken <= Len(sent)
  BY DEF FrameInv, TypeInv, Settings, SentInv, TakenInv
<1>1. CASE Send
  <2>1. UNCHANGED out
    BY <1>1 DEF Send, bufVars
  <2>2. CASE sent' = Append(sent, next)
    <3>1. next \in DOMAIN lens
      <4>1. DOMAIN lens = 1..Len(lens) /\ Len(lens) \in Nat
        BY <1>0, SizesType
      <4> QED BY <1>0, <1>1, <4>1 DEF Send, SentInv
    <3>2. next \in Frame
      BY <1>0, <3>1 DEF Frame, Settings
    <3> QED BY <2>1, <2>2, <3>2 DEF Queue!Next, Queue!Send
  <2>3. CASE UNCHANGED sent
    BY <2>1, <2>3 DEF Queue!vars
  <2> QED BY <1>1, <2>2, <2>3 DEF Send
<1>2. CASE TakeSignal \/ TryPop
  <2>1. UNCHANGED sent
    BY <1>2 DEF TakeSignal, TryPop, sendVars
  <2> DEFINE n == Len(out) + 1
  <2>2. n \in 1..Len(sent) /\ out' = Append(out, sent[n])
    <3>1. CASE TakeSignal
      <4>1. hand # NoFrame /\ queue = <<>> /\ out' = Append(out, hand)
        BY <1>0, <3>1 DEF TakeSignal, TakenInv
      <4>2. Taken = n /\ hand = sent[Taken]
        BY <1>0, <4>1 DEF Taken, TakenInv
      <4> QED BY <1>0, <4>1, <4>2
    <3>2. CASE TryPop
      <4>1. queue # <<>> /\ out' = Append(out, Head(queue)) /\ Head(queue) = queue[1] /\ Len(queue) > 0
        BY <1>0, <3>2, EmptySeq DEF TryPop, TakenInv
      <4>2. queue[1] = sent[n] /\ n <= Taken
        BY <1>0, <4>1 DEF TakenInv, Taken
      <4>3. Taken \in Int
        BY <1>0 DEF Taken
      <4>4. n \in 1..Len(sent)
        <5> HIDE DEF n
        <5>1. n \in Nat /\ n >= 1
          BY <1>0 DEF n
        <5> QED BY <1>0, <4>2, <4>3, <5>1
      <4>5. out' = Append(out, sent[n])
        BY <4>1, <4>2
      <4> QED BY <4>4, <4>5
    <3> QED BY <1>2, <3>1, <3>2
  <2>3. SubSeq(sent, n, n) = <<sent[n]>>
    <3> HIDE DEF n
    <3> DEFINE one == SubSeq(sent, n, n)
    <3>1. sent \in Seq(DOMAIN lens) /\ n \in 1..Len(sent) /\ n \in Int
      BY <1>0, <2>2 DEF SentInv
    <3>2. one \in Seq(DOMAIN lens) /\ Len(one) = 1 /\ one[1] = sent[n]
      BY <3>1, <1>0, SubSeqProperties
    <3>3. one = <<sent[n]>>
      <4> HIDE DEF one
      <4>1. one = [i \in 1..1 |-> one[i]]
        BY <3>2, SeqDef
      <4> QED BY <3>2, <4>1
    <3> QED BY <3>3
  <2>4. out' = out \o SubSeq(sent, Len(out) + 1, n)
    <3>1. out' = out \o <<sent[n]>>
      BY <1>0, <2>2 DEF TakenInv
    <3> QED BY <2>3, <3>1
  <2>5. n \in (Len(out) + 1)..Len(sent)
    BY <1>0, <2>2
  <2> QED BY <2>1, <2>4, <2>5 DEF Queue!Next, Queue!Deliver
<1>3. CASE UNCHANGED <<sent, out>>
  BY <1>3 DEF Queue!vars
<1>4. Send \/ TakeSignal \/ TryPop \/ UNCHANGED <<sent, out>>
  <2>1. CASE Next
    BY <1>0, <2>1 DEF Next, Sender, Wire, PollWritePending, Arrival, Dial, Connected, ConnectFails,
       Receiver, Detect, DetectEnds, ReplayPrefix, ReadMore, ReadAhead, RecvFrame, RecvSignal,
       PollRead, RecvFails, Consumer, TryPush, sendVars, bufVars
  <2>2. CASE UNCHANGED vars
    BY <2>2 DEF vars, sendVars, bufVars
  <2> QED BY <2>1, <2>2
<1> QED
  BY <1>1, <1>2, <1>3, <1>4

-----------------------------------------------------------------------------
(* What is kept is bounded. *)

(* IsTotal with what makes it inductive: what is left never grows.         *)
Counted(n, q, Z) ==
  \E left \in [1..(Len(q) + 1) -> 0..n] :
    /\ left[1] = n /\ left[Len(q) + 1] = 0
    /\ \A i \in 1..Len(q) : left[i] = Z[q[i]] + left[i + 1]
    /\ \A i, k \in 1..(Len(q) + 1) : i <= k => left[k] <= left[i]

LEMMA NothingCounted == ASSUME NEW Z PROVE Counted(0, <<>>, Z)
<1> DEFINE q == <<>>
           left == [i \in 1..1 |-> 0]
<1>1. Len(q) = 0 /\ Len(q) + 1 = 1
  OBVIOUS
<1>2. left \in [1..1 -> 0..0] /\ left[1] = 0
  OBVIOUS
<1> HIDE DEF q, left
<1>3. /\ \A i \in 1..0 : left[i] = Z[q[i]] + left[i + 1]
      /\ \A i, k \in 1..1 : i <= k => left[k] <= left[i]
  BY <1>2
<1>4. Counted(0, q, Z)
  BY <1>1, <1>2, <1>3 DEF Counted
<1> QED
  BY <1>4 DEF q

LEMMA PushCounted ==
  ASSUME NEW D, NEW Z \in [D -> Nat], NEW q \in Seq(D), NEW f \in D, NEW n \in Nat,
         Counted(n, q, Z)
  PROVE  Counted(n + Z[f], Append(q, f), Z)
<1> DEFINE m == Len(q)
           p == Append(q, f)
           z == Z[f]
<1>1. PICK left \in [1..(m + 1) -> 0..n] :
        /\ left[1] = n /\ left[m + 1] = 0
        /\ \A i \in 1..m : left[i] = Z[q[i]] + left[i + 1]
        /\ \A i, k \in 1..(m + 1) : i <= k => left[k] <= left[i]
  BY DEF Counted
<1>2. /\ m \in Nat /\ z \in Nat /\ Len(p) = m + 1 /\ p[m + 1] = f
      /\ \A i \in 1..m : p[i] = q[i]
  OBVIOUS
<1> HIDE DEF m, p, z
<1> DEFINE more == [i \in 1..(m + 2) |-> IF i <= m + 1 THEN left[i] + z ELSE 0]
<1>3. \A i \in 1..(m + 1) : /\ i \in 1..(m + 2) /\ left[i] \in 0..n /\ left[i] \in Int
                            /\ more[i] = left[i] + z
  BY <1>1, <1>2
<1>4. m + 2 \in 1..(m + 2) /\ more[m + 2] = 0
  BY <1>2
<1>5. \A i \in 1..(m + 2) : i \in 1..(m + 1) \/ i = m + 2
  BY <1>2
<1> HIDE DEF more
<1>6. \A i \in 1..(m + 2) : more[i] \in 0..(n + z)
  <2> TAKE i \in 1..(m + 2)
  <2>1. CASE i \in 1..(m + 1)
    BY <1>2, <1>3, <2>1
  <2>2. CASE i = m + 2
    BY <1>2, <1>4, <2>2
  <2> QED BY <1>5, <2>1, <2>2
<1>7. more \in [1..(m + 2) -> 0..(n + z)]
  <2>1. more = [i \in 1..(m + 2) |-> more[i]]
    BY DEF more
  <2> QED BY <1>6, <2>1
<1>8. more[1] = n + z
  BY <1>1, <1>2, <1>3
<1>9. ASSUME NEW i \in 1..(m + 1)
      PROVE  more[i] = Z[p[i]] + more[i + 1]
  <2>1. CASE i = m + 1
    <3>0. i + 1 = m + 2
      BY <1>2, <2>1
    <3>1. more[i] = 0 + z /\ i + 1 = m + 2
      BY <1>1, <1>3, <2>1, <3>0
    <3> QED BY <1>2, <1>4, <2>1, <3>1 DEF z
  <2>2. CASE i # m + 1
    <3>1. i \in 1..m /\ i + 1 \in 1..(m + 1)
      BY <1>2, <2>2
    <3>2. left[i] = Z[q[i]] + left[i + 1] /\ p[i] = q[i] /\ q[i] \in D
      BY <1>1, <1>2, <3>1, ElementOfSeq DEF m
    <3>3. Z[q[i]] \in Nat
      BY <3>2
    <3>4. more[i] = left[i] + z /\ more[i + 1] = left[i + 1] + z
      BY <1>3, <3>1
    <3>5. left[i] \in Int /\ left[i + 1] \in Int /\ z \in Int
      BY <1>2, <1>3, <3>1
    <3> DEFINE a == left[i]
               b == left[i + 1]
               y == Z[q[i]]
    <3>6. a = y + b /\ a \in Int /\ b \in Int /\ y \in Int
      BY <3>2, <3>3, <3>5
    <3>7. more[i] = a + z /\ more[i + 1] = b + z /\ Z[p[i]] = y
      BY <3>2, <3>4
    <3> HIDE DEF a, b, y
    <3> QED BY <3>5, <3>6, <3>7
  <2> QED BY <2>1, <2>2
<1>10. ASSUME NEW i \in 1..(m + 2), NEW k \in 1..(m + 2), i <= k
       PROVE  more[k] <= more[i]
  <2>1. CASE k = m + 2
    <3>1. more[i] \in 0..(n + z)
      BY <1>6
    <3> QED BY <1>2, <1>4, <2>1, <3>1
  <2>2. CASE k # m + 2
    <3>1. i \in 1..(m + 1) /\ k \in 1..(m + 1)
      BY <1>2, <1>10, <2>2
    <3>2. left[k] <= left[i]
      BY <1>1, <1>10, <3>1
    <3>3. left[i] \in Int /\ left[k] \in Int /\ more[i] = left[i] + z /\ more[k] = left[k] + z
      BY <1>3, <3>1
    <3> QED BY <1>2, <3>2, <3>3
  <2> QED BY <2>1, <2>2
<1>11. Len(p) + 1 = m + 2
  BY <1>2
<1> QED
  BY <1>2, <1>4, <1>7, <1>8, <1>9, <1>10, <1>11 DEF Counted, p, z

LEMMA PopCounted ==
  ASSUME NEW D, NEW Z \in [D -> Nat], NEW q \in Seq(D), q # <<>>, NEW n \in Nat,
         Counted(n, q, Z)
  PROVE  n - Z[Head(q)] \in 0..n /\ Counted(n - Z[Head(q)], Tail(q), Z)
<1> DEFINE m == Len(q)
           p == Tail(q)
           z == Z[Head(q)]
<1>1. PICK left \in [1..(m + 1) -> 0..n] :
        /\ left[1] = n /\ left[m + 1] = 0
        /\ \A i \in 1..m : left[i] = Z[q[i]] + left[i + 1]
        /\ \A i, k \in 1..(m + 1) : i <= k => left[k] <= left[i]
  BY DEF Counted
<1>2. /\ m \in Nat /\ m > 0 /\ Len(p) = m - 1 /\ z = Z[q[1]]
      /\ \A i \in 1..(m - 1) : p[i] = q[i + 1]
  BY EmptySeq
<1>3. z \in Nat
  BY <1>2, ElementOfSeq
<1> HIDE DEF m, p, z
<1> DEFINE rest == [i \in 1..m |-> left[i + 1]]
<1>4. \A i \in 1..m : i + 1 \in 1..(m + 1) /\ rest[i] = left[i + 1]
  BY <1>2
<1>5. rest[1] = n - z /\ n - z \in 0..n
  <2>1. left[1] = z + left[2] /\ left[2] \in 0..n
    BY <1>1, <1>2
  <2>2. rest[1] = left[2]
    BY <1>2, <1>4
  <2> QED BY <1>1, <1>3, <2>1, <2>2
<1>6. rest[m] = 0
  BY <1>1, <1>2, <1>4
<1> HIDE DEF rest
<1>7. ASSUME NEW i \in 1..m PROVE rest[i] \in 0..(n - z)
  <2>1. 2 \in 1..(m + 1) /\ i + 1 \in 1..(m + 1) /\ 2 <= i + 1
    BY <1>2
  <2>2. left[i + 1] <= left[2] /\ left[i + 1] \in 0..n /\ left[2] \in 0..n
    BY <1>1, <2>1
  <2>3. left[2] = n - z
    BY <1>2, <1>4, <1>5
  <2> QED BY <1>4, <1>5, <2>2, <2>3
<1>8. rest \in [1..m -> 0..(n - z)]
  <2>1. rest = [i \in 1..m |-> rest[i]]
    BY DEF rest
  <2> QED BY <1>7, <2>1
<1>9. ASSUME NEW i \in 1..(m - 1)
      PROVE  rest[i] = Z[p[i]] + rest[i + 1]
  <2>1. i \in 1..m /\ i + 1 \in 1..m
    BY <1>2
  <2>2. left[i + 1] = Z[q[i + 1]] + left[(i + 1) + 1]
    BY <1>1, <2>1
  <2> QED BY <1>2, <1>4, <2>1, <2>2
<1>10. ASSUME NEW i \in 1..m, NEW k \in 1..m, i <= k
       PROVE  rest[k] <= rest[i]
  BY <1>1, <1>4, <1>10
<1>11. Len(p) + 1 = m /\ Len(p) = m - 1
  BY <1>2
<1>12. Counted(n - z, p, Z)
  <2>1. rest \in [1..(Len(p) + 1) -> 0..(n - z)] /\ rest[1] = n - z /\ rest[Len(p) + 1] = 0
    BY <1>5, <1>6, <1>8, <1>11
  <2>2. /\ \A i \in 1..Len(p) : rest[i] = Z[p[i]] + rest[i + 1]
        /\ \A i, k \in 1..(Len(p) + 1) : i <= k => rest[k] <= rest[i]
    BY <1>9, <1>10, <1>11
  <2> QED BY <2>1, <2>2 DEF Counted
<1> QED
  BY <1>5, <1>12 DEF p, z

BufferInv ==
  /\ Len(queue) <= max_messages /\ bytes \in 0..max_bytes /\ depth = Len(queue)
  /\ Counted(bytes, queue, lens)

InboxInv ==
  /\ transport = "rtc" => Messages(inbox) <= InboxCap
  /\ transport = "ws_wasi" /\ inbox # <<>> => Len(inbox) < Size(inbox[1].f) + ReadChunk

ReadInv == codec = "frames" => Len(rbuf) < HeaderLen + max_frame + ReadChunk

MemoryInv == BufferInv /\ InboxInv /\ ReadInv

LEMMA CapsAreNumbers ==
  /\ {max_messages, HeaderLen, ReadChunk, InboxCap, DetectLen} \subseteq Nat \ {0}
  /\ max_frame \in Nat /\ max_bytes \in Nat
  BY StreamAssumption, TransportAssumption

(* The buffer: try_push compares both caps, try_pop undoes what it did.    *)
LEMMA BufferKept ==
  ASSUME BufferInv, UNCHANGED <<queue, bytes, depth, lens>>
  PROVE  BufferInv'
  BY DEF BufferInv

LEMMA TryPushIsBounded ==
  ASSUME FrameInv, BufferInv, TryPush
  PROVE  BufferInv'
<1>0. /\ lens \in [DOMAIN lens -> Nat] /\ queue \in Seq(DOMAIN lens) /\ hand \in DOMAIN lens
      /\ lens' = lens /\ lens[hand] \in Nat
  <2>1. hand \in DOMAIN lens
    BY DEF FrameInv, TakenInv, TryPush, Offered
  <2>2. \A f \in DOMAIN lens : lens[f] \in Nat
    BY SizesType DEF FrameInv, TypeInv
  <2>3. lens = [f \in DOMAIN lens |-> lens[f]]
    BY TransportAssumption DEF FrameInv, TypeInv, Settings
  <2> QED BY <2>1, <2>2, <2>3 DEF FrameInv, TakenInv, TryPush, fixed, config
<1>1. CASE HasRoom(hand)
  <2>1. /\ queue' = Append(queue, hand) /\ bytes' = bytes + lens[hand] /\ depth' = Len(queue')
        /\ Len(queue) < max_messages /\ bytes + lens[hand] <= max_bytes
        /\ bytes \in Nat
    BY <1>1, CapsAreNumbers DEF TryPush, HasRoom, BufferInv
  <2>2. Counted(bytes', queue', lens)
    BY <1>0, <2>1, PushCounted DEF BufferInv
  <2>3. Len(queue') = Len(queue) + 1 /\ Len(queue) \in Nat
    BY <1>0, <2>1
  <2>4. Len(queue') <= max_messages /\ bytes' \in 0..max_bytes
    BY <1>0, <2>1, <2>3, CapsAreNumbers
  <2> QED BY <1>0, <2>1, <2>2, <2>4 DEF BufferInv
<1>2. CASE ~HasRoom(hand)
  BY <1>0, <1>2, BufferKept DEF TryPush
<1> QED
  BY <1>1, <1>2

LEMMA TryPopIsBounded ==
  ASSUME FrameInv, BufferInv, TryPop
  PROVE  BufferInv'
<1>1. /\ lens \in [DOMAIN lens -> Nat] /\ queue \in Seq(DOMAIN lens) /\ lens' = lens /\ bytes \in Nat
  <2>1. \A f \in DOMAIN lens : lens[f] \in Nat
    BY SizesType DEF FrameInv, TypeInv
  <2>2. lens = [f \in DOMAIN lens |-> lens[f]]
    BY TransportAssumption DEF FrameInv, TypeInv, Settings
  <2> QED BY <2>1, <2>2, CapsAreNumbers DEF FrameInv, TakenInv, TryPop, BufferInv, fixed, config
<1>2. /\ queue # <<>> /\ queue' = Tail(queue) /\ bytes' = bytes - lens[Head(queue)]
      /\ depth' = Len(queue')
  BY DEF TryPop
<1>3. bytes' \in 0..bytes /\ Counted(bytes', queue', lens)
  BY <1>1, <1>2, PopCounted DEF BufferInv
<1>4. Len(queue') <= max_messages
  <2>1. Len(queue') = Len(queue) - 1 /\ Len(queue) \in Nat /\ Len(queue) <= max_messages
    BY <1>1, <1>2, EmptySeq DEF BufferInv
  <2> QED BY <2>1, CapsAreNumbers
<1>5. bytes' \in 0..max_bytes
  BY <1>1, <1>3, CapsAreNumbers DEF BufferInv
<1> QED
  BY <1>1, <1>2, <1>3, <1>4, <1>5 DEF BufferInv

(* One more read is made only while the frame at the front is incomplete.  *)
LEMMA RoomToRead ==
  ASSUME FrameInv, codec = "frames", Wanting
  PROVE  Len(rbuf) < HeaderLen + max_frame
<1>1. rbuf \in Seq(Byte) /\ Len(rbuf) \in Nat /\ Settings
  BY DEF FrameInv, TypeInv, Parts
<1>2. CASE Len(rbuf) < HeaderLen
  BY <1>1, <1>2, CapsAreNumbers
<1>3. CASE Len(rbuf) >= HeaderLen
  <2>1. ~(Announced > max_frame) /\ ~(Len(rbuf) >= HeaderLen + Announced)
    BY <1>3 DEF Wanting, TooLarge, Complete, FrameComplete, HeaderComplete
  <2>2. Announced \in Nat
    <3>1. CASE \A i \in 1..HeaderLen : rbuf[i].at = i
      <4>1. 1 \in 1..Len(rbuf)
        BY <1>1, <1>3, CapsAreNumbers
      <4>2. lens[rbuf[1].f] \in Nat
        BY <1>1, <4>1, ByteFields, SizesType
      <4> QED BY <3>1, <4>2 DEF Announced
    <3>2. CASE ~\A i \in 1..HeaderLen : rbuf[i].at = i
      BY <3>2, CapsAreNumbers DEF Announced
    <3> QED BY <3>1, <3>2
  <2> QED BY <1>1, <2>1, <2>2, CapsAreNumbers
<1> QED
  BY <1>1, <1>2, <1>3, CapsAreNumbers

LEMMA ReadIsBounded ==
  ASSUME FrameInv, codec = "frames", Wanting, NEW s \in Seq(Byte), Len(s) <= ReadChunk
  PROVE  Len(rbuf \o s) < HeaderLen + max_frame + ReadChunk
<1>1. rbuf \in Seq(Byte)
  BY DEF FrameInv, TypeInv, Parts
<1>2. Len(rbuf \o s) = Len(rbuf) + Len(s) /\ Len(rbuf) \in Nat /\ Len(s) \in Nat
  BY <1>1, ConcatProperties
<1> QED
  BY <1>2, RoomToRead, CapsAreNumbers

LEMMA ReadInvKept ==
  ASSUME FrameInv, ReadInv, Next
  PROVE  ReadInv'
<1>0. /\ codec # "bridge" /\ codec' = codec /\ rbuf \in Seq(Byte) /\ prefix \in Seq(Byte)
      /\ Settings
  <2>1. codec' = codec
    BY DEF Next, Sender, Wire, PollWritePending, Arrival, Dial, Connected, ConnectFails,
       Receiver, Detect, DetectEnds, ReplayPrefix, ReadMore, ReadAhead, RecvFrame, RecvSignal,
       PollRead, RecvFails, Consumer, TryPush, TryPop, TakeSignal, Send, fixed, config
  <2> QED BY <2>1 DEF FrameInv, TypeInv, Settings, Parts
<1>1. CASE UNCHANGED rbuf
  BY <1>0, <1>1 DEF ReadInv
<1>2. CASE ReplayPrefix
  <2> DEFINE k == UpTo(ReadChunk, prefix)
             p == First(prefix, k)
  <2>1. k \in 0..Len(prefix) /\ k <= ReadChunk
    BY <1>0, UpToIsLeast, CapsAreNumbers
  <2>2. p \in Seq(Byte) /\ Len(p) = k
    <3> HIDE DEF k
    <3> QED BY <1>0, <2>1, CutInTwo
  <2>3. rbuf' = rbuf \o p /\ Wanting
    BY <1>2 DEF ReplayPrefix
  <2> HIDE DEF k, p
  <2>4. codec = "frames" => Len(rbuf \o p) < HeaderLen + max_frame + ReadChunk
    BY <2>1, <2>2, <2>3, ReadIsBounded
  <2> QED BY <1>0, <2>3, <2>4 DEF ReadInv
<1>3. CASE ReadMore
  <2>1. PICK r \in Reads(ReadChunk) : rbuf' = rbuf \o r.piece
    BY <1>3 DEF ReadMore
  <2>2. r.piece \in Seq(Byte) /\ Len(r.piece) <= ReadChunk /\ Wanting
    <3>1. ReadChunk \in Nat
      BY CapsAreNumbers
    <3> QED BY <1>3, <3>1, ReadsAreNext DEF ReadMore
  <2>3. codec = "frames" => Len(rbuf \o r.piece) < HeaderLen + max_frame + ReadChunk
    BY <2>2, ReadIsBounded
  <2> QED BY <1>0, <2>1, <2>3 DEF ReadInv
<1>4. CASE RecvFrame
  <2> DEFINE n == HeaderLen + Announced
  <2>1. rbuf' = Rest(rbuf, n) /\ codec = "frames"
    BY <1>4 DEF RecvFrame, FrameComplete, HeaderComplete
  <2>2. n \in 0..Len(rbuf)
    <3>1. ~(Announced > max_frame) /\ Len(rbuf) >= n /\ Len(rbuf) >= HeaderLen /\ Len(rbuf) \in Nat
      BY <1>0, <1>4 DEF RecvFrame, FrameComplete, HeaderComplete, TooLarge
    <3>2. Announced \in Nat
      <4>1. 1 \in 1..Len(rbuf)
        BY <3>1, CapsAreNumbers
      <4>2. lens[rbuf[1].f] \in Nat
        BY <1>0, <4>1, ByteFields, SizesType
      <4> QED BY <4>2, CapsAreNumbers DEF Announced
    <3> QED BY <3>1, <3>2, CapsAreNumbers
  <2> HIDE DEF n
  <2>3. Len(rbuf') = Len(rbuf) - n /\ Len(rbuf) \in Nat
    BY <1>0, <2>1, <2>2, CutInTwo
  <2>4. Len(rbuf) < HeaderLen + max_frame + ReadChunk
    BY <2>1 DEF ReadInv
  <2> QED BY <1>0, <2>2, <2>3, <2>4, CapsAreNumbers DEF ReadInv
<1>5. CASE RecvSignal
  BY <1>0, <1>5 DEF RecvSignal, LineComplete, ReadInv
<1> QED
  BY <1>0, <1>1, <1>2, <1>3, <1>4, <1>5 DEF Next, Sender, Wire, PollWritePending, Arrival, Dial,
     Connected, ConnectFails, Receiver, Detect, DetectEnds, ReadAhead, PollRead, RecvFails,
     Consumer, TryPush, TryPop, TakeSignal, Send, recvVars

(* The callback's queue holds as many messages as have begun in it.        *)
LEMMA FewerMessages ==
  ASSUME Settings, NEW s \in Seq(Byte), NEW n \in 0..Len(s)
  PROVE  Messages(Rest(s, n)) <= Messages(s) /\ Messages(s) \in Nat
<1> DEFINE q == Rest(s, n)
           A == {i \in DOMAIN q : q[i].at = 1}
           B == {i \in DOMAIN s : s[i].at = 1}
           step == [i \in A |-> n + i]
<1>1. /\ q \in Seq(Byte) /\ Len(q) = Len(s) - n /\ Len(s) \in Nat /\ n \in Nat
      /\ \A i \in 1..Len(s) - n : q[i] = s[n + i]
  <2>1. Len(s) \in Nat /\ n \in Nat
    OBVIOUS
  <2>2. /\ Rest(s, n) \in Seq(Byte) /\ Len(Rest(s, n)) = Len(s) - n
        /\ \A i \in 1..Len(s) - n : Rest(s, n)[i] = s[n + i]
    BY CutInTwo
  <2> QED BY <2>1, <2>2
<1>2. DOMAIN q = 1..Len(q) /\ DOMAIN s = 1..Len(s)
  <2> HIDE DEF q
  <2> QED BY <1>1
<1>3. IsFiniteSet(B) /\ Cardinality(B) \in Nat
  <2>1. IsFiniteSet(1..Len(s))
    BY <1>1, FS_Interval
  <2> QED BY <1>2, <2>1, FS_Subset, FS_CardinalityType
<1> HIDE DEF q
<1>4. ASSUME NEW i \in A
      PROVE  step[i] = n + i /\ i \in Nat /\ n + i \in B
  <2>1. i \in 1..Len(s) - n /\ q[i].at = 1
    BY <1>1, <1>2
  <2>2. n + i \in 1..Len(s) /\ s[n + i].at = 1 /\ i \in Nat
    BY <1>1, <2>1
  <2> QED BY <1>2, <2>2
<1>5. step \in Injection(A, B)
  <2>1. step \in [A -> B]
    BY <1>4
  <2>2. \A i, k \in A : step[i] = step[k] => i = k
    <3> HIDE DEF step, A, B
    <3> QED BY <1>1, <1>4
  <2> QED BY <2>1, <2>2 DEF Injection, IsInjective
<1>6. Cardinality(A) <= Cardinality(B)
  <2> HIDE DEF A, B, step
  <2> QED BY <1>3, <1>5, FS_Injection
<1> QED
  BY <1>3, <1>6 DEF Messages, q

LEMMA OneMessageMore ==
  ASSUME Settings, NEW s \in Seq(Byte), NEW m \in Seq(Byte), m # <<>>,
         Runs(m, Sizes), m[1].at = 1, Len(m) <= Size(m[1].f)
  PROVE  Messages(s \o m) <= Messages(s) + 1
<1> DEFINE w == s \o m
           A == {i \in DOMAIN w : w[i].at = 1}
           B == {i \in DOMAIN s : s[i].at = 1}
           x == Len(s) + 1
<1>1. /\ Len(s) \in Nat /\ Len(m) \in Nat /\ Len(w) = Len(s) + Len(m)
      /\ DOMAIN s = 1..Len(s) /\ DOMAIN m = 1..Len(m) /\ DOMAIN w = 1..Len(w)
      /\ \A i \in 1..Len(s) : w[i] = s[i]
      /\ \A i \in 1..Len(w) : i > Len(s) => w[i] = m[i - Len(s)]
  BY ConcatProperties
<1>2. 1 \in 1..Len(m)
  BY <1>1, EmptySeq
<1>3. ASSUME NEW k \in 1..Len(m), m[k].at = 1
      PROVE  k = 1
  <2>1. Sizes[m[1].f] = Size(m[1].f) /\ Size(m[1].f) \in Nat
    BY <1>2, ByteFields
  <2>2. 1 <= k /\ m[1].at + (k - 1) <= Sizes[m[1].f]
    BY <1>1, <2>1
  <2>3. m[k].at = m[1].at + (k - 1)
    BY <1>1, <1>2, <2>2 DEF Runs
  <2> QED BY <1>1, <1>3, <2>3
<1>4. A \subseteq B \cup {x}
  <2> SUFFICES ASSUME NEW i \in 1..Len(w), w[i].at = 1, i # x
               PROVE  i \in 1..Len(s) /\ s[i].at = 1
    BY <1>1
  <2>1. ASSUME i > Len(s) PROVE FALSE
    <3>1. i - Len(s) \in 1..Len(m) /\ m[i - Len(s)].at = 1
      BY <1>1, <2>1
    <3>2. i - Len(s) = 1
      BY <1>3, <3>1
    <3> QED BY <1>1, <3>2
  <2>2. i \in 1..Len(s)
    BY <1>1, <2>1
  <2> QED BY <1>1, <2>2
<1>5. IsFiniteSet(B) /\ x \notin B
  <2>1. IsFiniteSet(1..Len(s)) /\ B \subseteq 1..Len(s)
    BY <1>1, FS_Interval
  <2>2. x \notin 1..Len(s)
    BY <1>1
  <2> QED BY <2>1, <2>2, FS_Subset
<1> HIDE DEF A, B, x
<1>6. /\ IsFiniteSet(B \cup {x}) /\ Cardinality(B \cup {x}) = Cardinality(B) + 1
      /\ Cardinality(A) <= Cardinality(B \cup {x})
  <2>1. IsFiniteSet(B \cup {x}) /\ Cardinality(B \cup {x}) = Cardinality(B) + 1
    BY <1>5, FS_AddElement
  <2> QED BY <1>4, <2>1, FS_Subset
<1> QED
  BY <1>6 DEF Messages, A, B, w

(* A read takes a whole message out of the inbox, or nothing.              *)
LEMMA InboxAfterRead ==
  ASSUME NEW n, NEW r \in Reads(n)
  PROVE  \/ r.inbox = inbox
         \/ HasMessage(inbox) /\ r.inbox = Rest(inbox, Len(Message(inbox)))
<1>1. CASE pending # <<>>
  BY <1>1 DEF Reads, Delivered
<1>2. CASE pending = <<>> /\ transport \in Streams
  <2>1. r \in ReadStream(n)
    BY <1>2 DEF Reads, Streams
  <2> QED BY <2>1 DEF ReadStream, Delivered
<1>3. CASE pending = <<>> /\ transport = "ws"
  <2>1. r \in ReadMessage(n)
    BY <1>3 DEF Reads, Streams
  <2> QED BY <2>1 DEF ReadMessage, Delivered
<1>4. CASE pending = <<>> /\ transport \notin Streams \cup {"ws"}
  <2>1. r \in ReadQueued(n)
    BY <1>4 DEF Reads
  <2> QED BY <2>1 DEF ReadQueued, Delivered
<1> QED
  BY <1>1, <1>2, <1>3, <1>4

LEMMA ReadingKeepsInbox ==
  ASSUME FrameInv, InboxInv, NEW n, NEW r \in Reads(n), inbox' = r.inbox,
         UNCHANGED <<transport, codec, lens>>
  PROVE  InboxInv'
<1>0. Settings /\ inbox \in Seq(Byte)
  BY DEF FrameInv, TypeInv, Parts
<1>1. CASE r.inbox = inbox
  BY <1>1 DEF InboxInv, Messages, Size
<1>2. CASE HasMessage(inbox) /\ r.inbox = Rest(inbox, Len(Message(inbox)))
  <2> DEFINE k == Len(Message(inbox))
             q == Rest(inbox, k)
  <2>1. /\ k \in 0..Len(inbox) /\ Len(inbox) \in Nat /\ inbox # <<>>
        /\ k = Size(inbox[1].f) /\ q \in Seq(Byte) /\ Len(q) = Len(inbox) - k
    <3>1. /\ k = Size(inbox[1].f) /\ Size(inbox[1].f) \in 1..Len(inbox) /\ Len(inbox) \in Nat
          /\ inbox # <<>> /\ q \in Seq(Byte) /\ Len(q) = Len(inbox) - Size(inbox[1].f)
      BY <1>0, <1>2, MessageIsCut
    <3> QED BY <3>1
  <2> HIDE DEF k
  <2>2. Messages(q) <= Messages(inbox) /\ Messages(inbox) \in Nat
    BY <1>0, <2>1, FewerMessages
  <2>3. Messages(q) \in Nat
    <3>1. 0 \in 0..Len(q)
      BY <2>1
    <3> QED BY <1>0, <2>1, <3>1, FewerMessages
  <2>4. inbox' = q
    BY <1>2 DEF k
  <2> HIDE DEF q
  <2>5. transport = "ws_wasi" /\ q # <<>> => Len(q) < Size(q[1].f) + ReadChunk
    <3> SUFFICES ASSUME transport = "ws_wasi", q # <<>>
                 PROVE  Len(q) < Size(q[1].f) + ReadChunk
      OBVIOUS
    <3>1. Len(inbox) < Size(inbox[1].f) + ReadChunk
      BY <2>1 DEF InboxInv
    <3>2. Size(q[1].f) \in Nat
      <4>1. 1 \in 1..Len(q)
        BY <2>1, EmptySeq
      <4> QED BY <1>0, <2>1, <4>1, ByteFields
    <3>3. Len(q) < ReadChunk /\ Len(q) \in Nat
      BY <2>1, <3>1, CapsAreNumbers
    <3> QED BY <3>2, <3>3, CapsAreNumbers
  <2>6. transport = "rtc" => Messages(q) <= InboxCap
    <3>1. transport = "rtc" => Messages(inbox) <= InboxCap
      BY DEF InboxInv
    <3> QED BY <2>2, <2>3, <3>1, CapsAreNumbers
  <2>7. Messages(inbox)' = Messages(q) /\ \A f : Size(f)' = Size(f)
    BY <2>4 DEF Messages, Size
  <2> QED BY <2>4, <2>5, <2>6, <2>7 DEF InboxInv
<1> QED
  BY <1>1, <1>2, InboxAfterRead

LEMMA OnMessageFits ==
  ASSUME FrameInv, InboxInv, Wire(OnMessage)
  PROVE  InboxInv'
<1> DEFINE m == Message(net)
<1>0. /\ Settings /\ inbox \in Seq(Byte) /\ net \in Seq(Byte)
      /\ Orderly(net, sent, Sizes) /\ LinkInv
  BY EveryPartIsOrderly DEF FrameInv, TypeInv, Parts, StreamInv
<1>1. /\ transport \in Callbacks /\ net # <<>> /\ QueueHasRoom /\ inbox' = inbox \o m
      /\ UNCHANGED <<transport, codec, lens>>
  BY DEF Wire, OnMessage, fixed, config
<1>2. HasMessage(net) /\ net[1].at = 1
  <2>1. WholeMessages(net)
    BY <1>0, <1>1 DEF LinkInv
  <2> QED BY <1>0, <1>1, <2>1, WholeHasMessage DEF WholeMessages
<1>3. /\ m \in Seq(Byte) /\ Cat(m, Rest(net, Len(m))) = net /\ Rest(net, Len(m)) \in Seq(Byte)
      /\ Len(m) = Size(net[1].f) /\ Len(m) \in Nat \ {0} /\ m[1] = net[1]
  <2>1. /\ m \in Seq(Byte) /\ Cat(m, Rest(net, Len(m))) = net /\ Rest(net, Len(m)) \in Seq(Byte)
        /\ Len(m) = Size(net[1].f) /\ Size(net[1].f) \in 1..Len(net)
        /\ Len(net) \in Nat /\ \A i \in 1..Len(m) : m[i] = net[i]
    BY <1>0, <1>2, MessageIsCut
  <2>2. 1 \in 1..Len(m) /\ Len(m) \in Nat \ {0}
    BY <2>1
  <2> QED BY <2>1, <2>2
<1> HIDE DEF m
<1>4. Runs(m, Sizes)
  BY <1>0, <1>3, OrderlyParts DEF Orderly
<1>5. m # <<>> /\ m[1].at = 1 /\ Len(m) <= Size(m[1].f)
  BY <1>2, <1>3, EmptySeq
<1>6. Messages(inbox \o m) <= Messages(inbox) + 1
  BY <1>0, <1>3, <1>4, <1>5, OneMessageMore
<1>7. Messages(inbox) \in Nat /\ Messages(inbox \o m) \in Nat
  <2>1. inbox \o m \in Seq(Byte)
    BY <1>0, <1>3, ConcatProperties
  <2>2. 0 \in 0..Len(inbox) /\ 0 \in 0..Len(inbox \o m)
    BY <1>0, <2>1
  <2> QED BY <1>0, <2>1, <2>2, FewerMessages
<1>8. transport = "rtc" => Messages(inbox \o m) <= InboxCap
  <2>1. transport = "rtc" => Messages(inbox) < InboxCap
    BY <1>1 DEF QueueHasRoom
  <2> QED BY <1>6, <1>7, <2>1, CapsAreNumbers
<1>9. Messages(inbox)' = Messages(inbox \o m)
  BY <1>1 DEF Messages
<1>10. transport # "ws_wasi"
  BY <1>1 DEF Callbacks
<1> QED
  BY <1>1, <1>8, <1>9, <1>10 DEF InboxInv

LEMMA ReadAheadFits ==
  ASSUME FrameInv, InboxInv, ReadAhead
  PROVE  InboxInv'
<1>0. /\ Settings /\ inbox \in Seq(Byte) /\ net \in Seq(Byte)
  BY DEF FrameInv, TypeInv, Parts
<1>1. /\ transport = "ws_wasi" /\ ~HasMessage(inbox)
      /\ \E k \in 1..UpTo(ReadChunk, net) : inbox' = inbox \o First(net, k)
      /\ UNCHANGED <<transport, codec, lens>>
  BY DEF ReadAhead, Wire, SyncRead, fixed, config
<1>2. PICK k \in 1..UpTo(ReadChunk, net) : inbox' = inbox \o First(net, k)
  BY <1>1
<1> DEFINE p == First(net, k)
<1>3. k \in 0..Len(net) /\ k <= ReadChunk /\ k \in Nat /\ k > 0
  <2>1. UpTo(ReadChunk, net) \in 0..Len(net) /\ UpTo(ReadChunk, net) <= ReadChunk
    BY <1>0, CapsAreNumbers, UpToIsLeast
  <2>2. Len(net) \in Nat
    BY <1>0
  <2> QED BY <2>1, <2>2, CapsAreNumbers
<1>4. p \in Seq(Byte) /\ Len(p) = k
  BY <1>0, <1>3, CutInTwo
<1> HIDE DEF p
<1>5. /\ inbox \o p \in Seq(Byte) /\ Len(inbox \o p) = Len(inbox) + k /\ Len(inbox) \in Nat
      /\ \A i \in 1..Len(inbox) : (inbox \o p)[i] = inbox[i]
  <2>1. inbox \in Seq(Byte) /\ p \in Seq(Byte) /\ Len(p) = k
    BY <1>0, <1>4
  <2>2. Len(inbox) \in Nat /\ Len(p) \in Nat
    BY <2>1
  <2>3. inbox \o p \in Seq(Byte) /\ Len(inbox \o p) = Len(inbox) + Len(p)
    BY <2>1, ConcatProperties
  <2>4. \A i \in 1..Len(inbox) : (inbox \o p)[i] = inbox[i]
    BY <2>1, <2>2
  <2> QED BY <2>1, <2>2, <2>3, <2>4
<1> DEFINE w == inbox \o p
<1>6. 1 \in 1..Len(w)
  BY <1>3, <1>5
<1>7. Size(w[1].f) \in Nat \ {0}
  BY <1>0, <1>5, <1>6, ByteFields
<1>8. Len(w) < Size(w[1].f) + ReadChunk
  <2>1. CASE inbox = <<>>
    <3>1. Len(w) = k
      BY <1>3, <1>5, <2>1, EmptySeq
    <3> HIDE DEF w
    <3> QED BY <1>3, <1>7, <3>1, CapsAreNumbers
  <2>2. CASE inbox # <<>>
    <3>1. w[1] = inbox[1]
      <4>1. 1 \in 1..Len(inbox)
        BY <1>0, <2>2, EmptySeq
      <4> QED BY <1>5, <4>1
    <3>2. ~(Len(inbox) >= Size(w[1].f))
      BY <1>1, <2>2, <3>1 DEF HasMessage
    <3>3. Len(w) = Len(inbox) + k
      BY <1>5
    <3> HIDE DEF w
    <3> QED BY <1>3, <1>5, <1>7, <3>2, <3>3, CapsAreNumbers
  <2> QED BY <2>1, <2>2
<1>9. inbox' = w /\ \A f : Size(f)' = Size(f)
  BY <1>1, <1>2 DEF p, Size
<1> HIDE DEF w
<1> QED
  BY <1>1, <1>8, <1>9 DEF InboxInv

LEMMA InboxInvKept ==
  ASSUME FrameInv, InboxInv, Next
  PROVE  InboxInv'
<1>1. CASE UNCHANGED <<transport, codec, lens, inbox>>
  BY <1>1 DEF InboxInv, Messages, Size
<1>2. CASE Wire(OnMessage) \/ ReadAhead
  BY <1>2, OnMessageFits, ReadAheadFits
<1>3. CASE Detect \/ ReadMore
  <2>1. PICK n : \E r \in Reads(n) : Receives(r) /\ UNCHANGED fixed
    BY <1>3 DEF Detect, ReadMore
  <2> QED BY <2>1, ReadingKeepsInbox DEF Receives, fixed, config
<1>4. codec # "bridge"
  BY DEF FrameInv, TypeInv, Settings
<1>5. CASE Sender \/ Wire(Break) \/ Wire(OnClose)
  BY <1>1, <1>5 DEF Sender, Send, Wire, Write, WriteSome, WriteAssumedWhole, SyncWrite,
     SendMessage, SendOnChannel, Whole, Break, OnClose, fixed, config
<1>6. CASE Dial \/ DetectEnds \/ ReplayPrefix \/ RecvFrame \/ RecvSignal \/ RecvFails \/ Consumer
  BY <1>1, <1>6 DEF Dial, Connected, ConnectFails, DetectEnds, ReplayPrefix, RecvFrame,
     RecvSignal, RecvFails, Consumer, TakeSignal, TryPush, TryPop, wireVars, fixed, config
<1>7. ~(PollWritePending \/ PollRead)
  BY <1>4 DEF PollWritePending, PollRead
<1> QED
  BY <1>2, <1>3, <1>5, <1>6, <1>7 DEF Next, Arrival, Receiver

LEMMA BufferInvKept ==
  ASSUME FrameInv, BufferInv, Next
  PROVE  BufferInv'
<1>1. CASE TryPush \/ TryPop
  BY <1>1, TryPushIsBounded, TryPopIsBounded
<1>2. CASE ~(TryPush \/ TryPop)
  <2>1. UNCHANGED <<queue, bytes, depth, fixed>>
    BY <1>2 DEF Next, Sender, Send, Wire, PollWritePending, Arrival, Dial, Connected,
       ConnectFails, Receiver, Detect, DetectEnds, ReplayPrefix, ReadMore, ReadAhead,
       RecvFrame, RecvSignal, PollRead, RecvFails, Consumer, TakeSignal, bufVars
  <2> QED BY <2>1, BufferKept DEF fixed, config
<1> QED
  BY <1>1, <1>2

LEMMA MemoryStep ==
  ASSUME FrameInv, MemoryInv, [Next]_vars
  PROVE  MemoryInv'
<1>1. CASE Next
  BY <1>1, BufferInvKept, InboxInvKept, ReadInvKept DEF MemoryInv
<1>2. CASE UNCHANGED vars
  <2>1. UNCHANGED <<transport, codec, lens, inbox, rbuf, queue, bytes, depth>>
    BY <1>2 DEF vars, fixed, config, wireVars, recvVars, bufVars
  <2> QED BY <2>1 DEF MemoryInv, BufferInv, InboxInv, ReadInv, Messages, Size
<1> QED
  BY <1>1, <1>2

LEMMA MemoryInitial ==
  ASSUME Init
  PROVE  MemoryInv
<1>1. inbox = <<>> /\ rbuf = <<>> /\ queue = <<>> /\ bytes = 0 /\ depth = 0
  BY DEF Init, WireInit
<1>2. Messages(inbox) = 0
  BY <1>1, FS_EmptySet DEF Messages
<1>3. Len(<<>>) = 0
  OBVIOUS
<1>4. BufferInv
  BY <1>1, <1>3, NothingCounted, CapsAreNumbers DEF BufferInv
<1>5. InboxInv
  BY <1>1, <1>2, CapsAreNumbers DEF InboxInv
<1>6. ReadInv
  BY <1>1, <1>3, CapsAreNumbers DEF ReadInv
<1> QED
  BY <1>4, <1>5, <1>6 DEF MemoryInv

LEMMA MemoryFollows ==
  ASSUME FrameInv, MemoryInv
  PROVE  MemoryBounded /\ TypeOK
<1>0. /\ Settings /\ TypeInv /\ SentInv /\ TakenInv /\ StreamInv /\ LinkInv
      /\ BufferInv /\ InboxInv /\ ReadInv
  BY DEF FrameInv, TypeInv, MemoryInv
<1>1. IsTotal(bytes, queue)
  <2>1. DOMAIN queue = 1..Len(queue)
    BY <1>0 DEF TakenInv
  <2> QED BY <1>0, <2>1 DEF BufferInv, Counted, IsTotal
<1>2. MemoryBounded
  <2>1. bytes <= max_bytes
    BY <1>0, CapsAreNumbers DEF BufferInv
  <2> QED BY <1>0, <1>1, <2>1 DEF MemoryBounded, Settings, BufferInv, InboxInv, ReadInv
<1>3. WireOK
  BY <1>0 DEF WireOK, TypeInv, Settings, Parts, LinkInv
<1>4. depth \in 0..max_messages
  <2>1. Len(queue) \in Nat
    BY <1>0 DEF TakenInv
  <2> QED BY <1>0, <2>1, CapsAreNumbers DEF BufferInv
<1>5. cut \subseteq DOMAIN lens /\ got \in Nat
  BY <1>0 DEF StreamInv, Settings
<1>6. TypeOK
  BY <1>0, <1>3, <1>4, <1>5 DEF TypeOK, TypeInv, Settings, Parts, SentInv, TakenInv,
     LinkInv, BufferInv
<1> QED
  BY <1>2, <1>6

-----------------------------------------------------------------------------
(* The bridge.  Its units are told apart by counting the last bytes in     *)
(* front of a byte, so that the stream can be cut anywhere.                *)

LastOf(s, Z) == {i \in 1..Len(s) : s[i].at = Z[s[i].f]}
EndsBefore(s, i, Z) == {j \in LastOf(s, Z) : j < i}

(* A byte of s is of the unit behind n others and those that end before it. *)
Numbered(s, n, Z) ==
  \A i \in 1..Len(s) : s[i].f = (n + Cardinality(EndsBefore(s, i, Z))) + 1

(* Each byte is followed by the next of its unit, or a last by a first.    *)
NextPlace(b, Z) == IF b.at = Z[b.f] THEN 1 ELSE b.at + 1
Steps(s, Z) == \A i \in 1..(Len(s) - 1) : s[i + 1].at = NextPlace(s[i], Z)

(* The bytes of unit f from some byte on.                                  *)
IsTail(s, f, Z) ==
  Len(s) <= Z[f] /\ \A i \in 1..Len(s) : s[i].f = f /\ s[i].at = (Z[f] - Len(s)) + i

LEMMA CountOfPart ==
  ASSUME NEW n \in Nat, NEW I \in SUBSET (1..n)
  PROVE  IsFiniteSet(I) /\ Cardinality(I) \in Nat
<1>1. IsFiniteSet(1..n)
  BY FS_Interval
<1>2. IsFiniteSet(I)
  BY <1>1, FS_Subset
<1>3. QED BY <1>2, FS_CardinalityType

LEMMA EndsAreCounted ==
  ASSUME NEW s, NEW Z, Len(s) \in Nat
  PROVE  /\ LastOf(s, Z) \in SUBSET (1..Len(s)) /\ Cardinality(LastOf(s, Z)) \in Nat
         /\ \A i : /\ EndsBefore(s, i, Z) \in SUBSET (1..Len(s))
                   /\ Cardinality(EndsBefore(s, i, Z)) \in Nat
<1>1. LastOf(s, Z) \in SUBSET (1..Len(s))
  BY DEF LastOf
<1>2. \A i : EndsBefore(s, i, Z) \in SUBSET (1..Len(s))
  BY <1>1 DEF EndsBefore
<1>3. QED BY <1>1, <1>2, CountOfPart

(* What is in a first part of n places, and i places further on.           *)
LEMMA CountShifted ==
  ASSUME NEW n \in Nat, NEW m \in Nat, NEW A \in SUBSET (1..n), NEW I \in SUBSET (1..m)
  PROVE  Cardinality(A \cup {n + i : i \in I}) = Cardinality(A) + Cardinality(I)
<1> DEFINE B == {n + i : i \in I}
           f == [i \in I |-> n + i]
<1>1. IsFiniteSet(A) /\ IsFiniteSet(I) /\ Cardinality(A) \in Nat /\ Cardinality(I) \in Nat
  BY CountOfPart
<1>2. f \in Bijection(I, B)
  <2>1. f \in [I -> B] /\ \A b \in B : \E i \in I : f[i] = b
    OBVIOUS
  <2>2. \A i, j \in I : f[i] = f[j] => i = j
    OBVIOUS
  <2> HIDE DEF f, B
  <2>3. QED BY <2>1, <2>2, Zenon DEF Bijection, Injection, Surjection, IsInjective
<1>3. IsFiniteSet(B) /\ Cardinality(B) = Cardinality(I)
  <2> HIDE DEF f, B
  <2>1. \E g : g \in Bijection(I, B)
    BY <1>2
  <2>2. QED BY <1>1, <2>1, FS_Bijection, Zenon DEF ExistsBijection
<1>4. A \cap B = {}
  OBVIOUS
<1> HIDE DEF B
<1>5. Cardinality(A \cap B) = 0
  BY <1>4, FS_EmptySet
<1>6. Cardinality(A \cup B) = Cardinality(A) + Cardinality(B) - Cardinality(A \cap B)
  BY <1>1, <1>3, FS_Union
<1>7. Cardinality(A \cup B) = Cardinality(A) + Cardinality(I)
  BY <1>1, <1>3, <1>5, <1>6
<1>8. QED BY <1>7 DEF B

LEMMA JoinedParts ==
  ASSUME NEW S, NEW s \in Seq(S), NEW u \in Seq(S)
  PROVE  /\ s \o u \in Seq(S) /\ Len(s \o u) = Len(s) + Len(u)
         /\ Len(s) \in Nat /\ Len(u) \in Nat
         /\ \A i \in 1..Len(s) : (s \o u)[i] = s[i]
         /\ \A i \in 1..Len(u) : (s \o u)[Len(s) + i] = u[i]
  BY ConcatProperties

LEMMA EndsJoined ==
  ASSUME NEW S, NEW Z, NEW s \in Seq(S), NEW u \in Seq(S)
  PROVE  LET w == s \o u
         IN /\ Cardinality(LastOf(w, Z)) = Cardinality(LastOf(s, Z)) + Cardinality(LastOf(u, Z))
            /\ \A i \in 1..Len(s) : EndsBefore(w, i, Z) = EndsBefore(s, i, Z)
            /\ \A i \in 1..Len(u) :
                 Cardinality(EndsBefore(w, Len(s) + i, Z))
                   = Cardinality(LastOf(s, Z)) + Cardinality(EndsBefore(u, i, Z))
            /\ \A i \in 1..Len(u) : Len(s) + i \in LastOf(w, Z) <=> i \in LastOf(u, Z)
<1> DEFINE w == s \o u
<1>1. /\ Len(w) = Len(s) + Len(u) /\ Len(s) \in Nat /\ Len(u) \in Nat
      /\ \A i \in 1..Len(s) : w[i] = s[i]
      /\ \A i \in 1..Len(u) : w[Len(s) + i] = u[i]
  BY JoinedParts
<1> HIDE DEF w
<1>2. \A i \in 1..Len(w) : i \notin 1..Len(s) => \E j \in 1..Len(u) : i = Len(s) + j
  <2> TAKE i \in 1..Len(w)
  <2> HAVE i \notin 1..Len(s)
  <2>1. i - Len(s) \in 1..Len(u) /\ i = Len(s) + (i - Len(s))
    BY <1>1
  <2>2. QED BY <2>1
<1>3. \A i \in 1..Len(s) : i \in 1..Len(w) /\ (i \in LastOf(w, Z) <=> i \in LastOf(s, Z))
  BY <1>1 DEF LastOf
<1>4. \A i \in 1..Len(u) :
        Len(s) + i \in 1..Len(w) /\ (Len(s) + i \in LastOf(w, Z) <=> i \in LastOf(u, Z))
  BY <1>1 DEF LastOf
<1>5. /\ LastOf(s, Z) \in SUBSET (1..Len(s)) /\ LastOf(u, Z) \in SUBSET (1..Len(u))
      /\ LastOf(w, Z) \in SUBSET (1..Len(w))
  BY DEF LastOf
<1>6. LastOf(w, Z) = LastOf(s, Z) \cup {Len(s) + j : j \in LastOf(u, Z)}
  <2>1. ASSUME NEW i \in LastOf(w, Z)
        PROVE  i \in LastOf(s, Z) \/ \E j \in LastOf(u, Z) : i = Len(s) + j
    BY <1>2, <1>3, <1>4, <1>5
  <2>2. LastOf(s, Z) \subseteq LastOf(w, Z)
    BY <1>3, <1>5
  <2>3. \A j \in LastOf(u, Z) : Len(s) + j \in LastOf(w, Z)
    BY <1>4, <1>5
  <2>4. QED BY <2>1, <2>2, <2>3
<1>7. \A i \in 1..Len(s) : EndsBefore(w, i, Z) = EndsBefore(s, i, Z)
  <2> TAKE i \in 1..Len(s)
  <2>1. \A j \in 1..Len(w) : j < i => j \in 1..Len(s)
    BY <1>1
  <2>2. \A j : j \in LastOf(w, Z) /\ j < i <=> j \in LastOf(s, Z) /\ j < i
    BY <1>3, <1>5, <2>1
  <2>3. QED BY <2>2 DEF EndsBefore
<1>8. \A i \in 1..Len(u) :
        EndsBefore(w, Len(s) + i, Z) = LastOf(s, Z) \cup {Len(s) + j : j \in EndsBefore(u, i, Z)}
  <2> TAKE i \in 1..Len(u)
  <2>1. ASSUME NEW j \in LastOf(s, Z) PROVE j < Len(s) + i
    BY <1>1, <1>5
  <2>2. \A j \in LastOf(u, Z) : Len(s) + j < Len(s) + i <=> j < i
    BY <1>1, <1>5
  <2>3. QED BY <1>6, <2>1, <2>2 DEF EndsBefore
<1>9. \A i : EndsBefore(u, i, Z) \in SUBSET (1..Len(u))
  BY <1>5 DEF EndsBefore
<1>10. Cardinality(LastOf(w, Z)) = Cardinality(LastOf(s, Z)) + Cardinality(LastOf(u, Z))
  <2> DEFINE A == LastOf(s, Z)
             I == LastOf(u, Z)
  <2>1. A \in SUBSET (1..Len(s)) /\ I \in SUBSET (1..Len(u))
    BY <1>5
  <2>2. LastOf(w, Z) = A \cup {Len(s) + j : j \in I}
    BY <1>6
  <2> HIDE DEF A, I
  <2>3. Cardinality(A \cup {Len(s) + j : j \in I}) = Cardinality(A) + Cardinality(I)
    BY <1>1, <2>1, CountShifted
  <2>4. QED BY <2>2, <2>3 DEF A, I
<1>11. \A i \in 1..Len(u) :
         Cardinality(EndsBefore(w, Len(s) + i, Z))
           = Cardinality(LastOf(s, Z)) + Cardinality(EndsBefore(u, i, Z))
  <2> TAKE i \in 1..Len(u)
  <2> DEFINE A == LastOf(s, Z)
             I == EndsBefore(u, i, Z)
  <2>1. A \in SUBSET (1..Len(s)) /\ I \in SUBSET (1..Len(u))
    BY <1>5, <1>9
  <2>2. EndsBefore(w, Len(s) + i, Z) = A \cup {Len(s) + j : j \in I}
    BY <1>8
  <2> HIDE DEF A, I
  <2>3. Cardinality(A \cup {Len(s) + j : j \in I}) = Cardinality(A) + Cardinality(I)
    BY <1>1, <2>1, CountShifted
  <2>4. QED BY <2>2, <2>3 DEF A, I
<1>12. QED BY <1>4, <1>7, <1>10, <1>11 DEF w

(* Parts are numbered as the whole is, and go on where the other ends.     *)
LEMMA NumberedJoined ==
  ASSUME NEW S, NEW Z, NEW n \in Nat, NEW s \in Seq(S), NEW u \in Seq(S)
  PROVE  Numbered(s \o u, n, Z) <=>
           Numbered(s, n, Z) /\ Numbered(u, n + Cardinality(LastOf(s, Z)), Z)
<1> DEFINE w == s \o u
           c == Cardinality(LastOf(s, Z))
<1>1. /\ Len(w) = Len(s) + Len(u) /\ Len(s) \in Nat /\ Len(u) \in Nat
      /\ \A i \in 1..Len(s) : w[i] = s[i]
      /\ \A i \in 1..Len(u) : w[Len(s) + i] = u[i]
  BY JoinedParts
<1>2. /\ \A i \in 1..Len(s) : EndsBefore(w, i, Z) = EndsBefore(s, i, Z)
      /\ \A i \in 1..Len(u) :
           Cardinality(EndsBefore(w, Len(s) + i, Z)) = c + Cardinality(EndsBefore(u, i, Z))
  BY EndsJoined
<1>3. c \in Nat /\ \A i : Cardinality(EndsBefore(u, i, Z)) \in Nat
  BY <1>1, EndsAreCounted
<1> HIDE DEF w, c
<1>4. ASSUME Numbered(w, n, Z) PROVE Numbered(s, n, Z) /\ Numbered(u, n + c, Z)
  <2>1. ASSUME NEW i \in 1..Len(s)
        PROVE  s[i].f = (n + Cardinality(EndsBefore(s, i, Z))) + 1
    <3>1. i \in 1..Len(w)
      BY <1>1
    <3>2. QED BY <1>1, <1>2, <1>4, <3>1 DEF Numbered
  <2>2. ASSUME NEW i \in 1..Len(u)
        PROVE  u[i].f = ((n + c) + Cardinality(EndsBefore(u, i, Z))) + 1
    <3>1. Len(s) + i \in 1..Len(w)
      BY <1>1
    <3>2. u[i].f = (n + (c + Cardinality(EndsBefore(u, i, Z)))) + 1
      BY <1>1, <1>2, <1>4, <3>1 DEF Numbered
    <3>3. n + (c + Cardinality(EndsBefore(u, i, Z))) = (n + c) + Cardinality(EndsBefore(u, i, Z))
      BY <1>3
    <3>4. QED BY <3>2, <3>3
  <2>3. QED BY <2>1, <2>2 DEF Numbered
<1>5. ASSUME Numbered(s, n, Z), Numbered(u, n + c, Z) PROVE Numbered(w, n, Z)
  <2>1. ASSUME NEW i \in 1..Len(w)
        PROVE  w[i].f = (n + Cardinality(EndsBefore(w, i, Z))) + 1
    <3>1. CASE i \in 1..Len(s)
      BY <1>1, <1>2, <1>5, <3>1 DEF Numbered
    <3>2. CASE i \notin 1..Len(s)
      <4> DEFINE j == i - Len(s)
      <4>1. j \in 1..Len(u) /\ i = Len(s) + j
        BY <1>1, <3>2
      <4> HIDE DEF j
      <4>2. w[i].f = ((n + c) + Cardinality(EndsBefore(u, j, Z))) + 1
        BY <1>1, <1>5, <4>1 DEF Numbered
      <4>3. n + (c + Cardinality(EndsBefore(u, j, Z))) = (n + c) + Cardinality(EndsBefore(u, j, Z))
        BY <1>3
      <4>4. Cardinality(EndsBefore(w, i, Z)) = c + Cardinality(EndsBefore(u, j, Z))
        BY <1>2, <4>1
      <4>5. QED BY <4>2, <4>3, <4>4
    <3>3. QED BY <3>1, <3>2
  <2>2. QED BY <2>1 DEF Numbered
<1>6. QED BY <1>4, <1>5 DEF w, c

LEMMA StepsJoined ==
  ASSUME NEW S, NEW Z, NEW s \in Seq(S), NEW u \in Seq(S)
  PROVE  Steps(s \o u, Z) <=>
           /\ Steps(s, Z) /\ Steps(u, Z)
           /\ s # <<>> /\ u # <<>> => u[1].at = NextPlace(s[Len(s)], Z)
<1> DEFINE w == s \o u
<1>1. /\ Len(w) = Len(s) + Len(u) /\ Len(s) \in Nat /\ Len(u) \in Nat
      /\ \A i \in 1..Len(s) : w[i] = s[i]
      /\ \A i \in 1..Len(u) : w[Len(s) + i] = u[i]
      /\ s # <<>> <=> Len(s) > 0
      /\ u # <<>> <=> Len(u) > 0
  BY JoinedParts, EmptySeq
<1> HIDE DEF w
<1>2. ASSUME Steps(w, Z) PROVE Steps(s, Z) /\ Steps(u, Z)
  <2>1. ASSUME NEW i \in 1..(Len(s) - 1) PROVE s[i + 1].at = NextPlace(s[i], Z)
    <3>1. i \in 1..(Len(w) - 1) /\ i \in 1..Len(s) /\ i + 1 \in 1..Len(s)
      BY <1>1
    <3>2. QED BY <1>1, <1>2, <3>1 DEF Steps
  <2>2. ASSUME NEW i \in 1..(Len(u) - 1) PROVE u[i + 1].at = NextPlace(u[i], Z)
    <3>1. /\ Len(s) + i \in 1..(Len(w) - 1) /\ i \in 1..Len(u) /\ i + 1 \in 1..Len(u)
          /\ (Len(s) + i) + 1 = Len(s) + (i + 1)
      BY <1>1
    <3>2. w[(Len(s) + i) + 1].at = NextPlace(w[Len(s) + i], Z)
      BY <1>2, <3>1 DEF Steps
    <3>3. QED BY <1>1, <3>1, <3>2
  <2>3. QED BY <2>1, <2>2 DEF Steps
<1>3. ASSUME Steps(w, Z), Len(s) > 0, Len(u) > 0
      PROVE  u[1].at = NextPlace(s[Len(s)], Z)
  <2>1. Len(s) \in 1..(Len(w) - 1) /\ Len(s) \in 1..Len(s) /\ 1 \in 1..Len(u)
    BY <1>1, <1>3
  <2>2. w[Len(s) + 1].at = NextPlace(w[Len(s)], Z)
    BY <1>3, <2>1 DEF Steps
  <2>3. QED BY <1>1, <2>1, <2>2
<1>4. ASSUME Steps(s, Z), Steps(u, Z),
             Len(s) > 0 /\ Len(u) > 0 => u[1].at = NextPlace(s[Len(s)], Z)
      PROVE  Steps(w, Z)
  <2>1. ASSUME NEW i \in 1..(Len(w) - 1) PROVE w[i + 1].at = NextPlace(w[i], Z)
    <3>1. CASE i < Len(s)
      <4>1. i \in 1..(Len(s) - 1) /\ i \in 1..Len(s) /\ i + 1 \in 1..Len(s)
        BY <1>1, <3>1
      <4>2. QED BY <1>1, <1>4, <4>1 DEF Steps
    <3>2. CASE i = Len(s)
      <4>1. Len(s) > 0 /\ Len(u) > 0 /\ i \in 1..Len(s) /\ 1 \in 1..Len(u)
        BY <1>1, <3>2
      <4>2. w[i + 1] = u[1] /\ w[i] = s[Len(s)]
        BY <1>1, <3>2, <4>1
      <4>3. QED BY <1>4, <4>1, <4>2
    <3>3. CASE i > Len(s)
      <4> DEFINE j == i - Len(s)
      <4>1. /\ j \in 1..(Len(u) - 1) /\ j \in 1..Len(u) /\ j + 1 \in 1..Len(u)
            /\ i = Len(s) + j /\ i + 1 = Len(s) + (j + 1)
        BY <1>1, <3>3
      <4> HIDE DEF j
      <4>2. u[j + 1].at = NextPlace(u[j], Z)
        BY <1>4, <4>1 DEF Steps
      <4>3. w[i] = u[j] /\ w[i + 1] = u[j + 1]
        BY <1>1, <4>1
      <4>4. QED BY <4>2, <4>3
    <3>4. QED BY <1>1, <3>1, <3>2, <3>3
  <2>2. QED BY <2>1 DEF Steps
<1>5. QED BY <1>1, <1>2, <1>3, <1>4 DEF w

-----------------------------------------------------------------------------
(* A part of a unit that runs to its end, and a part that a reader takes.  *)

LEMMA TailIs ==
  ASSUME NEW Z, NEW f \in Nat, Z[f] \in Nat,
         NEW S, NEW u \in Seq(S), u # <<>>, IsTail(u, f, Z)
  PROVE  /\ LastOf(u, Z) = {Len(u)} /\ Cardinality(LastOf(u, Z)) = 1
         /\ Len(u) \in LastOf(u, Z) /\ u[1].f = f
         /\ \A n \in Nat : Numbered(u, n, Z) <=> f = n + 1
         /\ Steps(u, Z)
<1>1. Len(u) \in Nat /\ Len(u) >= 1 /\ Z[f] \in Nat /\ f \in Nat /\ Len(u) <= Z[f]
  BY EmptySeq DEF IsTail
<1>2. \A i \in 1..Len(u) : u[i].f = f /\ u[i].at = (Z[f] - Len(u)) + i
  BY DEF IsTail
<1>3. \A i \in 1..Len(u) : u[i].at = Z[u[i].f] <=> i = Len(u)
  <2> TAKE i \in 1..Len(u)
  <2> DEFINE z == Z[f]
             l == Len(u)
  <2>1. z \in Nat /\ l \in Nat /\ i \in 1..l /\ Z[u[i].f] = z /\ u[i].at = (z - l) + i
    BY <1>1, <1>2
  <2> HIDE DEF z, l
  <2>2. (z - l) + i = z <=> i = l
    BY <2>1
  <2> QED BY <2>1, <2>2 DEF l
<1>4. LastOf(u, Z) = {Len(u)}
  BY <1>1, <1>3 DEF LastOf
<1>5. Cardinality(LastOf(u, Z)) = 1
  BY <1>4, FS_Singleton
<1>6. \A i \in 1..Len(u) : Cardinality(EndsBefore(u, i, Z)) = 0
  <2> TAKE i \in 1..Len(u)
  <2>1. EndsBefore(u, i, Z) = {}
    BY <1>1, <1>4 DEF EndsBefore
  <2>2. QED BY <2>1, FS_EmptySet
<1>7. ASSUME NEW n \in Nat PROVE Numbered(u, n, Z) <=> f = n + 1
  <2>1. 1 \in 1..Len(u)
    BY <1>1
  <2>2. \A i \in 1..Len(u) :
          u[i].f = (n + Cardinality(EndsBefore(u, i, Z))) + 1 <=> f = n + 1
    BY <1>2, <1>6
  <2>3. QED BY <2>1, <2>2 DEF Numbered
<1>8. Steps(u, Z)
  <2>1. ASSUME NEW i \in 1..(Len(u) - 1) PROVE u[i + 1].at = NextPlace(u[i], Z)
    <3>1. i \in 1..Len(u) /\ i + 1 \in 1..Len(u) /\ i # Len(u)
      BY <1>1
    <3>2. u[i].at # Z[u[i].f]
      BY <1>3, <3>1
    <3>3. u[i].at = (Z[f] - Len(u)) + i /\ u[i + 1].at = (Z[f] - Len(u)) + (i + 1)
      BY <1>2, <3>1
    <3>4. u[i + 1].at = u[i].at + 1
      <4> DEFINE z == Z[f]
                 l == Len(u)
                 a == u[i].at
                 b == u[i + 1].at
      <4>1. z \in Int /\ l \in Int /\ i \in Int /\ a = (z - l) + i /\ b = (z - l) + (i + 1)
        BY <1>1, <3>3
      <4> HIDE DEF z, l, a, b
      <4>2. b = a + 1
        BY <4>1
      <4>3. QED BY <4>2 DEF a, b
    <3>5. QED BY <3>2, <3>4 DEF NextPlace
  <2>2. QED BY <2>1 DEF Steps
<1>9. 1 \in 1..Len(u)
  BY <1>1
<1>10. QED BY <1>2, <1>4, <1>5, <1>7, <1>8, <1>9

(* The k-th of a finite set of numbers has k of them up to itself.         *)
LEMMA NthIs ==
  ASSUME NEW n \in Nat, NEW I \in SUBSET (1..n), NEW k \in 1..Cardinality(I)
  PROVE  Nth(I, k) \in I /\ Cardinality({j \in I : j <= Nth(I, k)}) = k
<1> DEFINE Below(i) == {j \in I : j <= i}
           rank == [i \in I |-> Cardinality(Below(i))]
           c == Cardinality(I)
<1>1. IsFiniteSet(I) /\ c \in Nat
  BY CountOfPart
<1>2. ASSUME NEW i \in I PROVE rank[i] \in 1..c
  <2>1. Below(i) \in SUBSET I /\ i \in Below(i)
    OBVIOUS
  <2>2. IsFiniteSet(Below(i)) /\ Cardinality(Below(i)) <= c
    BY <1>1, <2>1, FS_Subset
  <2>3. Cardinality(Below(i)) \in Nat /\ Cardinality(Below(i)) # 0
    BY <2>1, <2>2, FS_CardinalityType, FS_EmptySet
  <2>4. QED BY <1>1, <2>2, <2>3
<1>3. ASSUME NEW i \in I, NEW j \in I, i < j PROVE rank[i] # rank[j]
  <2>1. i \in Int /\ j \in Int /\ \A x \in I : x \in Int
    OBVIOUS
  <2>2. \A x \in I : x <= i => x <= j
    BY <1>3, <2>1
  <2>3. j <= j /\ ~(j <= i)
    BY <1>3, <2>1
  <2>4. Below(i) \in SUBSET Below(j) /\ Below(i) # Below(j)
    BY <2>2, <2>3
  <2>5. IsFiniteSet(Below(j))
    BY <1>1, FS_Subset
  <2>6. QED BY <2>4, <2>5, FS_Subset
<1>4. \A i, j \in I : rank[i] = rank[j] => i = j
  <2> HIDE DEF rank
  <2>1. \A i, j \in I : i # j => i < j \/ j < i
    OBVIOUS
  <2>2. QED BY <1>3, <2>1
<1> HIDE DEF c
<1>5. \E i \in I : rank[i] = k
  <2>1. rank \in Injection(I, 1..c)
    <3>1. rank \in [I -> 1..c]
      BY <1>2
    <3>2. QED BY <1>4, <3>1, Zenon DEF Injection, IsInjective
  <2>2. IsFiniteSet(1..c) /\ Cardinality(1..c) = c
    BY <1>1, FS_Interval
  <2>3. rank \in Surjection(I, 1..c)
    BY <2>1, <2>2, FS_Injection DEF c
  <2>4. k \in 1..c
    BY DEF c
  <2>5. QED BY <2>3, <2>4, Zenon DEF Surjection
<1>6. \E i \in I : Cardinality(Below(i)) = k
  BY <1>5
<1>7. QED BY <1>6, Zenon DEF Nth

(* The units that end in p, read off their last bytes.                     *)
LEMMA UnitsInTurn ==
  ASSUME NEW S, NEW p \in Seq(S), NEW Z, NEW n \in Nat, Numbered(p, n, Z),
         NEW k \in 1..Cardinality(LastOf(p, Z))
  PROVE  p[Nth(LastOf(p, Z), k)].f = n + k
<1> DEFINE I == LastOf(p, Z)
           i == Nth(I, k)
           J == EndsBefore(p, i, Z)
<1>1. Len(p) \in Nat /\ I \in SUBSET (1..Len(p))
  BY DEF LastOf
<1>2. i \in I /\ Cardinality({j \in I : j <= i}) = k
  BY <1>1, NthIs
<1>3. J = {j \in I : j < i}
  BY DEF EndsBefore
<1> HIDE DEF I, i
<1>4. {j \in I : j <= i} = J \cup {i} /\ i \notin J /\ J \in SUBSET (1..Len(p))
  <2>1. \A j \in I : j \in Int
    BY <1>1
  <2>2. i \in Int
    BY <1>2, <2>1
  <2>3. \A j \in I : j <= i <=> j < i \/ j = i
    BY <2>1, <2>2
  <2>4. ~(i < i)
    BY <2>2
  <2>5. {j \in I : j <= i} = J \cup {i}
    BY <1>2, <1>3, <2>3
  <2>6. QED BY <1>1, <1>3, <2>4, <2>5
<1> HIDE DEF J
<1>5. IsFiniteSet(J) /\ Cardinality(J) \in Nat
  BY <1>1, <1>4, CountOfPart
<1>6. Cardinality(J \cup {i}) = Cardinality(J) + 1
  BY <1>4, <1>5, FS_AddElement
<1>7. Cardinality(J) + 1 = k
  BY <1>2, <1>4, <1>6
<1>8. p[i].f = (n + Cardinality(J)) + 1
  BY <1>1, <1>2 DEF Numbered, J
<1>9. p[i].f = n + k
  <2> DEFINE e == Cardinality(J)
             g == p[i].f
  <2>1. e \in Nat /\ e + 1 = k /\ g = (n + e) + 1
    BY <1>5, <1>7, <1>8
  <2> HIDE DEF e, g
  <2>2. g = n + k
    BY <2>1
  <2> QED BY <2>2 DEF g
<1>10. QED BY <1>9 DEF i, I

LEMMA Remainder ==
  ASSUME NEW a \in Nat, NEW c \in Nat, 1 <= a, a <= c
  PROVE  a % c = IF a = c THEN 0 ELSE a
<1>1. CASE a = c
  <2>1. 1 * c = c /\ a - c = 0
    BY <1>1
  <2>2. QED BY <1>1, <2>1
<1>2. CASE a < c
  BY <1>2
<1>3. QED BY <1>1, <1>2

(* Where a reader is that was given p of p \o v.                           *)
LEMMA ReadOn ==
  ASSUME NEW D, NEW Z \in [D -> Nat \ {0}], NEW p \in Seq(Bytes(Z)), p # <<>>,
         NEW v \in Seq(Bytes(Z))
  PROVE  LET l == p[Len(p)]
             g == l.at % Z[l.f]
         IN /\ g \in Nat
            /\ Len(p) \in LastOf(p, Z) => g = 0
            /\ Steps(p \o v, Z) => Steps(v, Z) /\ (v # <<>> => v[1].at = g + 1)
<1> DEFINE l == p[Len(p)]
           g == l.at % Z[l.f]
<1>1. Len(p) \in 1..Len(p)
  BY EmptySeq
<1>2. l.at \in Nat /\ Z[l.f] \in Nat /\ 1 <= l.at /\ l.at <= Z[l.f]
  BY <1>1, ByteParts
<1>3. g = IF l.at = Z[l.f] THEN 0 ELSE l.at
  BY <1>2, Remainder
<1> HIDE DEF g
<1>4. NextPlace(l, Z) = g + 1 /\ g \in Nat
  <2> HIDE DEF l
  <2>1. QED BY <1>2, <1>3 DEF NextPlace
<1>5. Len(p) \in LastOf(p, Z) => g = 0
  BY <1>3 DEF LastOf
<1>6. Steps(p \o v, Z) => Steps(v, Z) /\ (v # <<>> => v[1].at = NextPlace(l, Z))
  BY StepsJoined
<1>7. QED BY <1>4, <1>5, <1>6 DEF g

-----------------------------------------------------------------------------
(* What is on the way, behind n units that the reader has whole and g bytes *)
(* of the next, of m that were sent.                                       *)

Counts(w, n, m, Z) ==
  /\ Numbered(w, n, Z) /\ n + Cardinality(LastOf(w, Z)) <= m
  /\ \A i \in 1..Len(w) : w[i].f <= m

(* All of it is there.                                                     *)
RunsOut(w, n, m, g, Z) ==
  /\ n + Cardinality(LastOf(w, Z)) = m
  /\ IF w = <<>> THEN g = 0 ELSE Len(w) \in LastOf(w, Z)

(* None of it twice.                                                       *)
Intact(w, g, Z) == Steps(w, Z) /\ (w # <<>> => w[1].at = g + 1)

LEMMA NothingOnTheWay ==
  ASSUME NEW Z
  PROVE  Counts(<<>>, 0, 0, Z) /\ RunsOut(<<>>, 0, 0, 0, Z) /\ Intact(<<>>, 0, Z)
<1> DEFINE w == <<>>
<1>1. w = <<>> /\ Len(w) = 0
  OBVIOUS
<1> HIDE DEF w
<1>2. LastOf(w, Z) = {} /\ \A i \in 1..Len(w) : FALSE
  BY <1>1 DEF LastOf
<1>3. Cardinality(LastOf(w, Z)) = 0
  BY <1>2, FS_EmptySet
<1>4. Numbered(w, 0, Z) /\ Steps(w, Z)
  BY <1>1, <1>2 DEF Numbered, Steps
<1>5. Counts(w, 0, 0, Z) /\ RunsOut(w, 0, 0, 0, Z) /\ Intact(w, 0, Z)
  BY <1>1, <1>2, <1>3, <1>4 DEF Counts, RunsOut, Intact
<1>6. QED BY <1>5 DEF w

(* A unit is sent.                                                         *)
LEMMA UnitSetsOut ==
  ASSUME NEW D \in SUBSET Nat, NEW Z \in [D -> Nat \ {0}], NEW n \in Nat, NEW m \in Nat, NEW g \in Nat,
         NEW w \in Seq(Bytes(Z)), Counts(w, n, m, Z), RunsOut(w, n, m, g, Z),
         m + 1 \in D, NEW u \in Seq(Bytes(Z)), u # <<>>, IsTail(u, m + 1, Z), u[1].at = 1
  PROVE  LET v == w \o u
         IN /\ v \in Seq(Bytes(Z)) /\ Counts(v, n, m + 1, Z) /\ RunsOut(v, n, m + 1, g, Z)
            /\ Intact(w, g, Z) => Intact(v, g, Z)
<1> DEFINE v == w \o u
           c == Cardinality(LastOf(w, Z))
           S == Bytes(Z)
<1>1. /\ v \in Seq(S)
      /\ Len(v) = Len(w) + Len(u) /\ Len(w) \in Nat /\ Len(u) \in Nat
      /\ \A i \in 1..Len(w) : v[i] = w[i]
      /\ \A i \in 1..Len(u) : v[Len(w) + i] = u[i]
  <2>1. w \in Seq(S) /\ u \in Seq(S)
    OBVIOUS
  <2> HIDE DEF S
  <2> QED BY <2>1, JoinedParts
<1>2. Z[m + 1] \in Nat \ {0} /\ Len(u) >= 1 /\ 1 \in 1..Len(u)
  BY EmptySeq
<1>3. /\ Cardinality(LastOf(u, Z)) = 1 /\ Len(u) \in LastOf(u, Z)
      /\ \A k \in Nat : Numbered(u, k, Z) <=> m + 1 = k + 1
      /\ Steps(u, Z)
  <2> DEFINE x == m + 1
  <2>1. x \in Nat /\ Z[x] \in Nat /\ IsTail(u, x, Z)
    BY <1>2
  <2> HIDE DEF x
  <2>2. /\ Cardinality(LastOf(u, Z)) = 1 /\ Len(u) \in LastOf(u, Z)
        /\ \A k \in Nat : Numbered(u, k, Z) <=> x = k + 1
        /\ Steps(u, Z)
    BY <1>2, <2>1, TailIs
  <2>3. QED BY <2>2 DEF x
<1>4. \A i \in 1..Len(u) : u[i].f = m + 1
  BY DEF IsTail
<1>5. c \in Nat /\ n + c = m
  BY <1>1, EndsAreCounted DEF RunsOut
<1>6. Cardinality(LastOf(v, Z)) = c + 1
  BY <1>3, EndsJoined
<1>7. Len(v) \in LastOf(v, Z)
  BY <1>1, <1>2, <1>3, EndsJoined
<1>8. Numbered(v, n, Z)
  BY <1>3, <1>5, NumberedJoined DEF Counts
<1>9. \A i \in 1..Len(v) : v[i].f <= m + 1
  <2> TAKE i \in 1..Len(v)
  <2>1. CASE i \in 1..Len(w)
    <3>1. v[i] = w[i] /\ w[i].f <= m /\ w[i].f \in D
      BY <1>1, <2>1, ByteParts DEF Counts
    <3>2. \A x \in Nat : x <= m => x <= m + 1
      OBVIOUS
    <3> HIDE DEF v
    <3>3. QED BY <3>1, <3>2
  <2>2. CASE i \notin 1..Len(w)
    <3>1. i - Len(w) \in 1..Len(u) /\ i = Len(w) + (i - Len(w))
      BY <1>1, <2>2
    <3>2. v[i] = u[i - Len(w)]
      BY <1>1, <3>1
    <3>3. v[i].f = m + 1
      BY <1>4, <3>1, <3>2
    <3> HIDE DEF v
    <3>4. QED BY <3>3
  <2>3. QED BY <2>1, <2>2
<1>10. v # <<>>
  BY <1>1, <1>2, EmptySeq
<1>11. ASSUME Intact(w, g, Z) PROVE Intact(v, g, Z)
  <2>1. CASE w = <<>>
    <3>1. g = 0 /\ Len(w) = 0
      BY <2>1 DEF RunsOut
    <3>2. v[1] = u[1]
      BY <1>1, <1>2, <3>1
    <3>3. v[1].at = g + 1
      BY <1>2, <1>4, <3>1, <3>2
    <3>4. Steps(v, Z)
      BY <1>3, <1>11, <2>1, StepsJoined DEF Intact
    <3>5. QED BY <3>3, <3>4 DEF Intact
  <2>2. CASE w # <<>>
    <3>1. Len(w) \in LastOf(w, Z) /\ 1 \in 1..Len(w)
      BY <1>1, <2>2, EmptySeq DEF RunsOut
    <3>2. NextPlace(w[Len(w)], Z) = 1 /\ u[1].at = 1
      BY <1>2, <1>4, <3>1 DEF LastOf, NextPlace
    <3>3. Steps(v, Z)
      BY <1>3, <1>11, <3>2, StepsJoined DEF Intact
    <3>4. v[1].at = g + 1
      BY <1>1, <1>11, <2>2, <3>1 DEF Intact
    <3>5. QED BY <3>3, <3>4 DEF Intact
  <2>3. QED BY <2>1, <2>2
<1> HIDE DEF v, c
<1>12. Counts(v, n, m + 1, Z) /\ RunsOut(v, n, m + 1, g, Z)
  <2>1. n + Cardinality(LastOf(v, Z)) = m + 1 /\ m + 1 <= m + 1
    BY <1>5, <1>6
  <2>2. QED BY <1>7, <1>8, <1>9, <1>10, <2>1 DEF Counts, RunsOut
<1>13. QED BY <1>1, <1>11, <1>12 DEF v

(* The end of a unit is sent again, from another byte on.                  *)
LEMMA UnitSetsOutAgain ==
  ASSUME NEW D \in SUBSET Nat, NEW Z \in [D -> Nat \ {0}], NEW n \in Nat, NEW m \in Nat, NEW g \in Nat,
         NEW h \in Seq(Bytes(Z)), NEW s \in Seq(Bytes(Z)), NEW u \in Seq(Bytes(Z)), NEW f \in D,
         s # <<>>, IsTail(s, f, Z), u # <<>>, IsTail(u, f, Z),
         Counts(h \o s, n, m, Z), RunsOut(h \o s, n, m, g, Z)
  PROVE  h \o u \in Seq(Bytes(Z)) /\ Counts(h \o u, n, m, Z) /\ RunsOut(h \o u, n, m, g, Z)
<1> DEFINE w == h \o s
           v == h \o u
           c == Cardinality(LastOf(h, Z))
<1>1. /\ v \in Seq(Bytes(Z)) /\ Len(h) \in Nat /\ Len(s) \in Nat /\ Len(u) \in Nat
      /\ Len(w) = Len(h) + Len(s) /\ Len(v) = Len(h) + Len(u)
      /\ \A i \in 1..Len(h) : w[i] = h[i] /\ v[i] = h[i]
      /\ \A i \in 1..Len(s) : w[Len(h) + i] = s[i]
      /\ \A i \in 1..Len(u) : v[Len(h) + i] = u[i]
  <2> DEFINE S == Bytes(Z)
  <2>1. h \in Seq(S) /\ s \in Seq(S) /\ u \in Seq(S)
    OBVIOUS
  <2> HIDE DEF S
  <2>2. /\ Len(h) \in Nat /\ Len(s) \in Nat /\ Len(w) = Len(h) + Len(s)
        /\ \A i \in 1..Len(h) : w[i] = h[i]
        /\ \A i \in 1..Len(s) : w[Len(h) + i] = s[i]
    BY <2>1, JoinedParts
  <2>3. /\ v \in Seq(S) /\ Len(u) \in Nat /\ Len(v) = Len(h) + Len(u)
        /\ \A i \in 1..Len(h) : v[i] = h[i]
        /\ \A i \in 1..Len(u) : v[Len(h) + i] = u[i]
    BY <2>1, JoinedParts
  <2> QED BY <2>2, <2>3 DEF S
<1>2. Len(s) >= 1 /\ Len(u) >= 1 /\ v # <<>>
  BY <1>1, EmptySeq
<1>3. /\ Cardinality(LastOf(s, Z)) = 1 /\ Cardinality(LastOf(u, Z)) = 1
      /\ \A k \in Nat : (Numbered(s, k, Z) <=> f = k + 1) /\ (Numbered(u, k, Z) <=> f = k + 1)
      /\ Len(u) \in LastOf(u, Z)
  <2>0. f \in Nat /\ Z[f] \in Nat
    OBVIOUS
  <2>1. Cardinality(LastOf(s, Z)) = 1 /\ \A k \in Nat : Numbered(s, k, Z) <=> f = k + 1
    BY <2>0, TailIs
  <2>2. /\ Cardinality(LastOf(u, Z)) = 1 /\ Len(u) \in LastOf(u, Z)
        /\ \A k \in Nat : Numbered(u, k, Z) <=> f = k + 1
    BY <2>0, TailIs
  <2>3. QED BY <2>1, <2>2
<1>4. Cardinality(LastOf(w, Z)) = c + 1 /\ Cardinality(LastOf(v, Z)) = c + 1 /\ c \in Nat
  <2> DEFINE S == Bytes(Z)
  <2>1. h \in Seq(S) /\ s \in Seq(S) /\ u \in Seq(S)
    OBVIOUS
  <2> HIDE DEF S
  <2>2. Cardinality(LastOf(w, Z)) = c + Cardinality(LastOf(s, Z))
    BY <2>1, EndsJoined
  <2>3. Cardinality(LastOf(v, Z)) = c + Cardinality(LastOf(u, Z))
    BY <2>1, EndsJoined
  <2>4. c \in Nat
    BY <1>1, EndsAreCounted
  <2> QED BY <1>3, <2>2, <2>3, <2>4
<1>5. Numbered(v, n, Z)
  <2>1. Numbered(h, n, Z) /\ Numbered(s, n + c, Z) /\ n + c \in Nat
    BY <1>4, NumberedJoined DEF Counts
  <2>2. Numbered(u, n + c, Z)
    BY <1>3, <2>1
  <2>3. QED BY <2>1, <2>2, NumberedJoined
<1>6. Len(v) \in LastOf(v, Z)
  BY <1>1, <1>2, <1>3, EndsJoined
<1>7. f <= m
  <2>1. 1 \in 1..Len(s) /\ Len(h) + 1 \in 1..Len(w)
    BY <1>1, <1>2
  <2>2. w[Len(h) + 1].f = f
    BY <1>1, <2>1 DEF IsTail
  <2> HIDE DEF w
  <2>3. w[Len(h) + 1].f <= m
    BY <2>1 DEF Counts, w
  <2>4. QED BY <2>2, <2>3
<1>8. \A i \in 1..Len(v) : v[i].f <= m
  <2> TAKE i \in 1..Len(v)
  <2>1. CASE i \in 1..Len(h)
    <3>1. i \in 1..Len(w) /\ w[i] = v[i]
      BY <1>1, <2>1
    <3> HIDE DEF w, v
    <3>2. w[i].f <= m
      BY <3>1 DEF Counts, w
    <3>3. QED BY <3>1, <3>2
  <2>2. CASE i \notin 1..Len(h)
    <3>1. i - Len(h) \in 1..Len(u) /\ i = Len(h) + (i - Len(h))
      BY <1>1, <2>2
    <3>2. v[i] = u[i - Len(h)]
      BY <1>1, <3>1
    <3>3. v[i].f = f
      BY <3>1, <3>2 DEF IsTail
    <3> HIDE DEF v
    <3>4. QED BY <1>7, <3>3
  <2>3. QED BY <2>1, <2>2
<1>9. n + Cardinality(LastOf(w, Z)) = m /\ n + Cardinality(LastOf(w, Z)) <= m
  BY DEF Counts, RunsOut
<1> HIDE DEF w, v
<1>10. Counts(v, n, m, Z) /\ RunsOut(v, n, m, g, Z)
  BY <1>2, <1>4, <1>5, <1>6, <1>8, <1>9 DEF Counts, RunsOut
<1>11. QED BY <1>1, <1>10 DEF v

(* The end is lost.                                                        *)
LEMMA EndIsLost ==
  ASSUME NEW D \in SUBSET Nat, NEW Z \in [D -> Nat \ {0}], NEW n \in Nat, NEW m \in Nat, NEW g \in Nat,
         NEW a \in Seq(Bytes(Z)), NEW b \in Seq(Bytes(Z)), Counts(a \o b, n, m, Z)
  PROVE  Counts(a, n, m, Z) /\ (Intact(a \o b, g, Z) => Intact(a, g, Z))
<1> DEFINE w == a \o b
<1>1. /\ Len(w) = Len(a) + Len(b) /\ Len(a) \in Nat /\ Len(b) \in Nat
      /\ \A i \in 1..Len(a) : w[i] = a[i]
  BY JoinedParts
<1>2. /\ Cardinality(LastOf(a, Z)) \in Nat /\ Cardinality(LastOf(b, Z)) \in Nat
      /\ Cardinality(LastOf(w, Z)) = Cardinality(LastOf(a, Z)) + Cardinality(LastOf(b, Z))
  BY <1>1, EndsJoined, EndsAreCounted
<1>3. Numbered(a, n, Z)
  BY NumberedJoined DEF Counts
<1>4. \A i \in 1..Len(a) : i \in 1..Len(w)
  BY <1>1
<1>5. Counts(w, n, m, Z)
  OBVIOUS
<1>6. ASSUME Intact(w, g, Z) PROVE Intact(a, g, Z)
  <2>1. Steps(a, Z)
    BY <1>6, StepsJoined DEF Intact
  <2>2. a # <<>> => w # <<>> /\ 1 \in 1..Len(a)
    BY <1>1, EmptySeq
  <2> HIDE DEF w
  <2>3. a # <<>> => a[1].at = g + 1
    BY <1>1, <1>6, <2>2 DEF Intact
  <2>4. QED BY <2>1, <2>3 DEF Intact
<1> HIDE DEF w
<1>7. Counts(a, n, m, Z)
  <2>1. \A i \in 1..Len(a) : a[i].f <= m
    BY <1>1, <1>4, <1>5 DEF Counts
  <2>2. n + Cardinality(LastOf(a, Z)) <= m
    <3>1. n + Cardinality(LastOf(w, Z)) <= m
      BY <1>5 DEF Counts
    <3>2. \A x, y, z \in Nat : z = x + y /\ n + z <= m => n + x <= m
      OBVIOUS
    <3>3. Cardinality(LastOf(w, Z)) \in Nat
      BY <1>2
    <3>4. QED BY <1>2, <3>1, <3>2, <3>3
  <2>3. QED BY <1>3, <2>1, <2>2 DEF Counts
<1>8. QED BY <1>6, <1>7 DEF w

(* A reader is given the first bytes.                                      *)
LEMMA PieceIsGiven ==
  ASSUME NEW D \in SUBSET Nat, NEW Z \in [D -> Nat \ {0}], NEW n \in Nat, NEW m \in Nat, NEW g \in Nat,
         NEW p \in Seq(Bytes(Z)), NEW v \in Seq(Bytes(Z)), p # <<>>, Counts(p \o v, n, m, Z)
  PROVE  LET k == n + Cardinality(LastOf(p, Z))
             h == p[Len(p)].at % Z[p[Len(p)].f]
         IN /\ k \in Nat /\ h \in Nat /\ k <= m
            /\ \A j \in 1..Cardinality(LastOf(p, Z)) : p[Nth(LastOf(p, Z), j)].f = n + j
            /\ Counts(v, k, m, Z)
            /\ RunsOut(p \o v, n, m, g, Z) => RunsOut(v, k, m, h, Z)
            /\ Intact(p \o v, g, Z) => Intact(v, h, Z)
<1> DEFINE w == p \o v
           c == Cardinality(LastOf(p, Z))
           k == n + c
           h == p[Len(p)].at % Z[p[Len(p)].f]
<1>1. /\ Len(w) = Len(p) + Len(v) /\ Len(p) \in Nat /\ Len(v) \in Nat
      /\ \A i \in 1..Len(v) : w[Len(p) + i] = v[i]
  BY JoinedParts
<1>2. /\ c \in Nat /\ Cardinality(LastOf(v, Z)) \in Nat /\ k \in Nat
      /\ Cardinality(LastOf(w, Z)) = c + Cardinality(LastOf(v, Z))
      /\ \A i \in 1..Len(v) : Len(p) + i \in LastOf(w, Z) <=> i \in LastOf(v, Z)
  BY <1>1, EndsJoined, EndsAreCounted
<1>3. /\ h \in Nat /\ (Len(p) \in LastOf(p, Z) => h = 0)
      /\ Steps(w, Z) => Steps(v, Z) /\ (v # <<>> => v[1].at = h + 1)
  BY ReadOn
<1>4. Numbered(p, n, Z) /\ Numbered(v, k, Z)
  BY NumberedJoined DEF Counts
<1>5. \A j \in 1..c : p[Nth(LastOf(p, Z), j)].f = n + j
  BY <1>4, UnitsInTurn
<1>6. Counts(w, n, m, Z)
  OBVIOUS
<1>7. v = <<>> => w = p
  BY ConcatEmptySeq
<1>8. v # <<>> => Len(v) \in 1..Len(v)
  BY <1>1, EmptySeq
<1>9. w # <<>>
  BY <1>1, EmptySeq
<1> HIDE DEF w, c, h
<1>10. Counts(v, k, m, Z) /\ k <= m
  <2>1. ASSUME NEW i \in 1..Len(v) PROVE v[i].f <= m
    <3>1. Len(p) + i \in 1..Len(w)
      BY <1>1
    <3>2. QED BY <1>1, <1>6, <3>1 DEF Counts
  <2>2. n + Cardinality(LastOf(w, Z)) <= m
    BY <1>6 DEF Counts
  <2>3. k + Cardinality(LastOf(v, Z)) <= m /\ k <= m
    BY <1>2, <2>2
  <2>4. QED BY <1>4, <2>1, <2>3 DEF Counts
<1>11. ASSUME RunsOut(w, n, m, g, Z) PROVE RunsOut(v, k, m, h, Z)
  <2>1. n + Cardinality(LastOf(w, Z)) = m /\ Len(w) \in LastOf(w, Z)
    BY <1>9, <1>11 DEF RunsOut
  <2>2. k + Cardinality(LastOf(v, Z)) = m
    BY <1>2, <2>1
  <2>3. v # <<>> => Len(v) \in LastOf(v, Z)
    BY <1>1, <1>2, <1>8, <2>1
  <2>4. v = <<>> => h = 0
    BY <1>3, <1>7, <2>1
  <2>5. QED BY <2>2, <2>3, <2>4 DEF RunsOut
<1>12. Intact(w, g, Z) => Intact(v, h, Z)
  BY <1>3 DEF Intact
<1>13. QED BY <1>2, <1>3, <1>5, <1>10, <1>11, <1>12 DEF w, c, h

(* Neighbours, and the ends.                                               *)
UnitByUnit(w, n, Z) ==
  /\ \A i \in 1..(Len(w) - 1) :
       w[i + 1].f = IF w[i].at = Z[w[i].f] THEN w[i].f + 1 ELSE w[i].f
  /\ w # <<>> => w[1].f = n + 1
  /\ w # <<>> /\ Len(w) \in LastOf(w, Z) => w[Len(w)].f = n + Cardinality(LastOf(w, Z))

LEMMA NumberedOn ==
  ASSUME NEW Z, NEW n \in Nat, NEW S, NEW w \in Seq(S), Numbered(w, n, Z)
  PROVE  UnitByUnit(w, n, Z)
<1>1. Len(w) \in Nat /\ (w # <<>> => Len(w) >= 1)
  BY EmptySeq
<1>2. \A i : /\ EndsBefore(w, i, Z) \in SUBSET (1..Len(w)) /\ IsFiniteSet(EndsBefore(w, i, Z))
             /\ Cardinality(EndsBefore(w, i, Z)) \in Nat
  <2>1. \A i : EndsBefore(w, i, Z) \in SUBSET (1..Len(w))
    BY <1>1, EndsAreCounted
  <2>2. QED BY <1>1, <2>1, CountOfPart
<1>3. ASSUME NEW i \in 1..Len(w), i \in LastOf(w, Z), NEW I,
             I = {j \in LastOf(w, Z) : j < i \/ j = i}
      PROVE  Cardinality(I) = Cardinality(EndsBefore(w, i, Z)) + 1
  <2> DEFINE J == EndsBefore(w, i, Z)
  <2>1. I = J \cup {i} /\ i \notin J
    BY <1>3 DEF EndsBefore
  <2>2. IsFiniteSet(J)
    BY <1>2
  <2> HIDE DEF J
  <2>3. Cardinality(J \cup {i}) = Cardinality(J) + 1
    BY <2>1, <2>2, FS_AddElement
  <2>4. QED BY <2>1, <2>3 DEF J
<1>4. ASSUME NEW i \in 1..(Len(w) - 1)
      PROVE  w[i + 1].f = IF w[i].at = Z[w[i].f] THEN w[i].f + 1 ELSE w[i].f
  <2>1. i \in 1..Len(w) /\ i + 1 \in 1..Len(w)
    BY <1>1
  <2>2. \A j \in 1..Len(w) : j < i + 1 <=> j < i \/ j = i
    BY <1>1, <2>1
  <2>3. EndsBefore(w, i + 1, Z) = {j \in LastOf(w, Z) : j < i \/ j = i}
    BY <2>2 DEF EndsBefore, LastOf
  <2>4. /\ w[i].f = (n + Cardinality(EndsBefore(w, i, Z))) + 1
        /\ w[i + 1].f = (n + Cardinality(EndsBefore(w, i + 1, Z))) + 1
    BY <2>1 DEF Numbered
  <2>5. CASE i \in LastOf(w, Z)
    <3>1. Cardinality(EndsBefore(w, i + 1, Z)) = Cardinality(EndsBefore(w, i, Z)) + 1
      BY <1>3, <2>1, <2>3, <2>5
    <3>2. w[i].at = Z[w[i].f]
      BY <2>5 DEF LastOf
    <3>3. QED BY <1>2, <2>4, <3>1, <3>2
  <2>6. CASE i \notin LastOf(w, Z)
    <3>1. EndsBefore(w, i + 1, Z) = EndsBefore(w, i, Z)
      BY <2>3, <2>6 DEF EndsBefore
    <3>2. w[i].at # Z[w[i].f]
      BY <2>1, <2>6 DEF LastOf
    <3>3. QED BY <2>4, <3>1, <3>2
  <2>7. QED BY <2>5, <2>6
<1>5. ASSUME w # <<>> PROVE w[1].f = n + 1
  <2>1. 1 \in 1..Len(w) /\ \A j \in 1..Len(w) : ~(j < 1)
    BY <1>1, <1>5
  <2>2. EndsBefore(w, 1, Z) = {}
    BY <2>1 DEF EndsBefore, LastOf
  <2>3. Cardinality(EndsBefore(w, 1, Z)) = 0
    BY <2>2, FS_EmptySet
  <2>4. w[1].f = (n + Cardinality(EndsBefore(w, 1, Z))) + 1
    BY <2>1 DEF Numbered
  <2>5. QED BY <2>3, <2>4
<1>6. ASSUME w # <<>>, Len(w) \in LastOf(w, Z)
      PROVE  w[Len(w)].f = n + Cardinality(LastOf(w, Z))
  <2>1. Len(w) \in 1..Len(w) /\ \A j \in 1..Len(w) : j < Len(w) \/ j = Len(w)
    BY <1>1, <1>6
  <2>2. LastOf(w, Z) = {j \in LastOf(w, Z) : j < Len(w) \/ j = Len(w)}
    BY <2>1 DEF LastOf
  <2>3. Cardinality(LastOf(w, Z)) = Cardinality(EndsBefore(w, Len(w), Z)) + 1
    BY <1>3, <1>6, <2>1, <2>2
  <2>4. w[Len(w)].f = (n + Cardinality(EndsBefore(w, Len(w), Z))) + 1
    BY <2>1 DEF Numbered
  <2>5. QED BY <1>2, <2>3, <2>4
<1>7. QED BY <1>4, <1>5, <1>6 DEF UnitByUnit

-----------------------------------------------------------------------------
(* The inductive invariant, for the bridge.  Its bytes are in three        *)
(* places, and its units are numbered in the order they are sent.          *)

BridgeSettings ==
  /\ codec = "bridge" /\ transport \in Streams /\ lens \in Lengths /\ checks = FALSE
  /\ \A f \in DOMAIN lens : lens[f] > 0
  /\ inbox = <<>> /\ pending = <<>> /\ prefix = <<>> /\ closed = FALSE
  /\ queue = <<>> /\ bytes = 0 /\ depth = 0 /\ hand = NoFrame /\ refused = FALSE /\ cut = {}
  /\ stage \in {"connect", "frames", "failed", "unconnected"}
  /\ open \in BOOLEAN /\ resent \in BOOLEAN

Way == Cat(rbuf, Cat(net, sending))

(* A write that waits is the last unit, from some byte on.                 *)
WriterInv ==
  /\ next \in 1..(Len(lens) + 1)
  /\ sent = [i \in 1..(next - 1) |-> i]
  /\ rbuf \in Seq(Byte) /\ net \in Seq(Byte) /\ sending \in Seq(Byte)
  /\ sending # <<>> => open /\ next > 1 /\ IsTail(sending, next - 1, Sizes)
  /\ transport = "tcp" => Len(net) <= NetCap
  /\ Len(rbuf) < ReadChunk

(* What is on the way follows what the reader has, none of it twice unless *)
(* the head of a write was sent again.                                     *)
ReaderInv ==
  /\ Len(out) \in Nat /\ got \in Nat /\ out = [i \in 1..Len(out) |-> i]
  /\ Counts(Way, Len(out), next - 1, Sizes)
  /\ open => RunsOut(Way, Len(out), next - 1, got, Sizes)
  /\ ~resent => Intact(Way, got, Sizes)
  /\ stage = "failed" => ~open /\ net = <<>> /\ rbuf = <<>>

BridgeInv == BridgeSettings /\ WriterInv /\ ReaderInv

LEMMA BridgeSizes ==
  ASSUME BridgeSettings
  PROVE  /\ Sizes \in [DOMAIN lens -> Nat \ {0}]
         /\ DOMAIN lens = 1..Len(lens) /\ Len(lens) \in Nat /\ DOMAIN lens \in SUBSET Nat
         /\ Byte = Bytes(Sizes)
         /\ \A f \in DOMAIN lens : /\ lens[f] \in Nat /\ Sizes[f] = Size(f)
                                   /\ Size(f) \in Nat \ {0} /\ Unit(f) \in Seq(Byte)
                                   /\ Len(Unit(f)) = Size(f)
<1>1. lens \in Seq(Nat)
  BY TransportAssumption DEF BridgeSettings
<1>2. \A f \in DOMAIN lens : Size(f) \in Nat \ {0}
  <2> TAKE f \in DOMAIN lens
  <2>1. lens[f] \in Nat /\ lens[f] > 0
    BY <1>1 DEF BridgeSettings
  <2>2. Size(f) = lens[f]
    BY DEF Size, BridgeSettings
  <2> QED BY <2>1, <2>2
<1> QED
  BY <1>2, SizesFrom DEF BridgeSettings

LEMMA UnitIsTail ==
  ASSUME BridgeSettings, NEW f \in DOMAIN lens
  PROVE  Unit(f) # <<>> /\ IsTail(Unit(f), f, Sizes) /\ Unit(f)[1].at = 1
<1> DEFINE u == Unit(f)
           z == Size(f)
<1>1. z \in Nat \ {0} /\ Sizes[f] = z /\ u \in Seq(Byte) /\ Len(u) = z
  BY BridgeSizes
<1>2. \A i \in 1..z : u[i] = [f |-> f, at |-> i]
  BY DEF Unit
<1> HIDE DEF u, z
<1>3. \A i \in 1..z : u[i].f = f /\ u[i].at = i /\ (z - z) + i = i
  BY <1>1, <1>2
<1>4. 1 \in 1..z
  BY <1>1
<1>5. u # <<>>
  BY <1>1, EmptySeq
<1>6. IsTail(u, f, Sizes)
  BY <1>1, <1>3 DEF IsTail
<1>7. u[1].at = 1
  BY <1>3, <1>4
<1> QED
  BY <1>5, <1>6, <1>7 DEF u

(* Where the bytes are.                                                    *)
LEMMA WayParts ==
  ASSUME BridgeInv
  PROVE  /\ Cat(net, sending) \in Seq(Byte) /\ Way \in Seq(Byte) /\ Stream = Way
         /\ next - 1 \in Nat /\ Len(sent) = next - 1
         /\ \A i \in 1..(next - 1) : sent[i] = i
         /\ \A i \in 1..(next - 1) : i \in DOMAIN lens
         /\ ~open => sending = <<>>
<1>1. /\ rbuf \in Seq(Byte) /\ net \in Seq(Byte) /\ sending \in Seq(Byte)
      /\ inbox = <<>> /\ pending = <<>> /\ prefix = <<>>
  BY DEF BridgeInv, WriterInv, BridgeSettings
<1>2. Cat(net, sending) \in Seq(Byte) /\ Way \in Seq(Byte)
  BY <1>1, CatIsAssociative DEF Way
<1>3. Stream = Way
  <2>1. Parts \subseteq Seq(Byte)
    BY <1>1, EmptySeq DEF Parts
  <2>2. Stream = Cat(rbuf, Cat(<<>>, Cat(<<>>, Cat(<<>>, Cat(net, sending)))))
    BY <1>1, <2>1, StreamParts
  <2> QED BY <1>2, <2>2, CatEmpty DEF Way
<1>4. Len(lens) \in Nat /\ DOMAIN lens = 1..Len(lens) /\ next \in 1..(Len(lens) + 1)
  BY BridgeSizes DEF BridgeInv, WriterInv
<1>5. next - 1 \in Nat /\ \A i \in 1..(next - 1) : i \in DOMAIN lens
  BY <1>4
<1>6. Len(sent) = next - 1 /\ \A i \in 1..(next - 1) : sent[i] = i
  <2> DEFINE m == next - 1
  <2>1. sent = [i \in 1..m |-> i] /\ m \in Nat
    BY <1>5 DEF BridgeInv, WriterInv
  <2> HIDE DEF m
  <2>2. Len(sent) = m /\ \A i \in 1..m : sent[i] = i
    BY <2>1
  <2> QED BY <2>2 DEF m
<1>7. ~open => sending = <<>>
  BY DEF BridgeInv, WriterInv
<1> QED
  BY <1>2, <1>3, <1>5, <1>6, <1>7

BridgeOthers == <<fixed, inbox, closed, pending, prefix, cut, hand, refused, queue, bytes, depth>>

LEMMA BridgeKept ==
  ASSUME BridgeInv, UNCHANGED BridgeOthers, open' \in BOOLEAN, resent' \in BOOLEAN,
         stage' \in {"connect", "frames", "failed", "unconnected"},
         WriterInv', ReaderInv'
  PROVE  BridgeInv'
<1>1. /\ UNCHANGED <<transport, codec, lens, checks, inbox, closed, pending, prefix, cut, hand>>
      /\ UNCHANGED <<refused, queue, bytes, depth>>
  BY DEF BridgeOthers, fixed, config
<1>2. BridgeSettings'
  BY <1>1 DEF BridgeInv, BridgeSettings
<1> QED
  BY <1>2 DEF BridgeInv

LEMMA BridgeFixed ==
  ASSUME UNCHANGED BridgeOthers
  PROVE  Sizes' = Sizes /\ Byte' = Byte /\ UNCHANGED <<lens, transport, codec>>
<1>1. UNCHANGED <<transport, codec, lens>>
  BY DEF BridgeOthers, fixed, config
<1> QED
  BY <1>1, SizesKept DEF Byte, Size

(* A step that changes neither what is on the way nor who has what.        *)
LEMMA ReaderKept ==
  ASSUME BridgeInv, UNCHANGED BridgeOthers, UNCHANGED <<out, got, next, open, resent>>, Way' = Way,
         stage' = "failed" => stage = "failed" /\ UNCHANGED <<net, rbuf>>
  PROVE  ReaderInv'
<1>1. Sizes' = Sizes
  BY BridgeFixed
<1>2. ReaderInv
  BY DEF BridgeInv
<1>3. /\ Len(out') \in Nat /\ got' \in Nat /\ out' = [i \in 1..Len(out') |-> i]
      /\ Counts(Way', Len(out'), next' - 1, Sizes')
      /\ open' => RunsOut(Way', Len(out'), next' - 1, got', Sizes')
      /\ ~resent' => Intact(Way', got', Sizes')
  BY <1>1, <1>2 DEF ReaderInv
<1>4. stage' = "failed" => ~open' /\ net' = <<>> /\ rbuf' = <<>>
  BY <1>2 DEF ReaderInv
<1> QED
  BY <1>3, <1>4 DEF ReaderInv

LEMMA BridgeSends ==
  ASSUME BridgeInv, Send
  PROVE  BridgeInv'
<1>1. /\ UNCHANGED BridgeOthers /\ UNCHANGED <<rbuf, net, open, resent, out, got, stage>>
      /\ open /\ sending = <<>> /\ next <= Len(lens) /\ next' = next + 1
      /\ sent' = Append(sent, next) /\ sending' = Unit(next)
  BY DEF Send, BridgeInv, BridgeSettings, BridgeOthers, fixed, recvVars, bufVars
<1>2. /\ BridgeSettings /\ WriterInv /\ ReaderInv
  BY DEF BridgeInv
<1>3. Sizes' = Sizes /\ Byte' = Byte /\ UNCHANGED <<lens, transport, codec>>
  BY <1>1, BridgeFixed
<1>4. Len(lens) \in Nat /\ DOMAIN lens = 1..Len(lens) /\ next \in 1..(Len(lens) + 1)
  BY <1>2, BridgeSizes DEF WriterInv
<1>5. next \in DOMAIN lens
  BY <1>1, <1>4
<1> DEFINE u == Unit(next)
           m == next - 1
           n == Len(out)
<1>6. u \in Seq(Byte) /\ u # <<>> /\ IsTail(u, next, Sizes) /\ u[1].at = 1
  BY <1>2, <1>5, BridgeSizes, UnitIsTail
<1>7. m \in Nat /\ m + 1 = next /\ next' - 1 = m + 1
  BY <1>1, <1>4
<1>8. /\ Way \in Seq(Byte) /\ rbuf \in Seq(Byte) /\ net \in Seq(Byte)
  BY <1>2, WayParts DEF WriterInv
<1>9. Way' = Way \o u
  <2>1. Way = Cat(rbuf, net)
    BY <1>1, <1>8, CatEmpty DEF Way
  <2>2. Way' = Cat(rbuf, Cat(net, u))
    BY <1>1 DEF Way
  <2>3. Cat(rbuf, Cat(net, u)) = Cat(Cat(rbuf, net), u)
    BY <1>6, <1>8, CatIsAssociative
  <2> QED BY <2>1, <2>2, <2>3 DEF Cat
<1>10. /\ Counts(Way, n, m, Sizes) /\ RunsOut(Way, n, m, got, Sizes) /\ n \in Nat /\ got \in Nat
       /\ ~resent => Intact(Way, got, Sizes)
  BY <1>1, <1>2 DEF ReaderInv
<1>11. /\ Counts(Way \o u, n, m + 1, Sizes) /\ RunsOut(Way \o u, n, m + 1, got, Sizes)
       /\ Intact(Way, got, Sizes) => Intact(Way \o u, got, Sizes)
  <2>1. Sizes \in [DOMAIN lens -> Nat \ {0}] /\ DOMAIN lens \in SUBSET Nat /\ Byte = Bytes(Sizes)
    BY <1>2, BridgeSizes
  <2>2. m + 1 \in DOMAIN lens /\ IsTail(u, m + 1, Sizes)
    BY <1>5, <1>6, <1>7
  <2>3. Way \in Seq(Bytes(Sizes)) /\ u \in Seq(Bytes(Sizes))
    BY <1>6, <1>8, <2>1
  <2> HIDE DEF u, m, n
  <2> QED BY <1>6, <1>7, <1>10, <2>1, <2>2, <2>3, UnitSetsOut
<1>12. ReaderInv'
  <2> DEFINE w == Way \o u
  <2>1. /\ n \in Nat /\ got \in Nat /\ out = [i \in 1..Len(out) |-> i]
        /\ Counts(w, n, m + 1, Sizes) /\ RunsOut(w, n, m + 1, got, Sizes)
        /\ ~resent => Intact(w, got, Sizes)
        /\ stage = "failed" => ~open
    BY <1>2, <1>10, <1>11 DEF ReaderInv
  <2> HIDE DEF w, u
  <2>2. Way' = w
    BY <1>9 DEF w, u
  <2> QED BY <1>1, <1>3, <1>7, <2>1, <2>2 DEF ReaderInv
<1>13. WriterInv'
  <2>1. sent' = [i \in 1..(next' - 1) |-> i]
    <3>1. sent = [i \in 1..m |-> i]
      BY <1>2 DEF WriterInv
    <3>2. Len(sent) = m /\ DOMAIN sent = 1..m /\ \A i \in 1..m : sent[i] = i
      BY <1>7, <3>1
    <3>3. sent \in Seq(Nat) /\ next \in Nat
      BY <1>4, <1>7, <3>1
    <3> HIDE DEF m
    <3> DEFINE t == Append(sent, next)
    <3>4. /\ t \in Seq(Nat) /\ Len(t) = m + 1 /\ t[m + 1] = next
          /\ \A i \in 1..m : t[i] = sent[i]
      BY <3>2, <3>3, AppendProperties
    <3> HIDE DEF t
    <3>5. \A i \in 1..(m + 1) : t[i] = i
      BY <1>7, <3>2, <3>4
    <3>6. t = [i \in 1..(m + 1) |-> i]
      BY <3>4, <3>5
    <3>7. sent' = t
      BY <1>1 DEF t
    <3> QED BY <1>7, <3>6, <3>7
  <2>2. next' \in 1..(Len(lens) + 1) /\ next' > 1
    BY <1>1, <1>4
  <2>3. sending' # <<>> => open' /\ next' > 1 /\ IsTail(sending', next' - 1, Sizes')
    BY <1>1, <1>3, <1>6, <1>7, <2>2
  <2>4. rbuf' \in Seq(Byte) /\ net' \in Seq(Byte) /\ sending' \in Seq(Byte)
    BY <1>1, <1>6, <1>8
  <2> HIDE DEF m, u
  <2> QED BY <1>1, <1>2, <1>3, <2>1, <2>2, <2>3, <2>4 DEF WriterInv
<1> QED
  BY <1>1, <1>2, <1>12, <1>13, BridgeKept DEF BridgeSettings

(* What is cut off a tail leaves a tail.                                   *)
LEMMA TailOfTail ==
  ASSUME NEW Z, NEW f \in Nat, Z[f] \in Nat, NEW S, NEW s \in Seq(S), IsTail(s, f, Z),
         NEW n \in 0..Len(s)
  PROVE  IsTail(Rest(s, n), f, Z)
<1> DEFINE q == Rest(s, n)
           z == Z[f]
<1>1. q \in Seq(S) /\ Len(q) = Len(s) - n /\ \A i \in 1..Len(s) - n : q[i] = s[n + i]
  BY CutInTwo
<1>2. Len(s) \in Nat /\ Len(s) <= z /\ z \in Nat /\ n \in Nat
      /\ \A i \in 1..Len(s) : s[i].f = f /\ s[i].at = (z - Len(s)) + i
  BY DEF IsTail
<1> HIDE DEF q, z
<1>3. \A i \in 1..Len(q) : q[i].f = f /\ q[i].at = (z - Len(q)) + i
  <2> TAKE i \in 1..Len(q)
  <2> DEFINE j == n + i
  <2>1. i \in 1..Len(s) - n /\ j \in 1..Len(s) /\ (z - Len(s)) + j = (z - Len(q)) + i
    BY <1>1, <1>2
  <2>2. q[i] = s[j]
    BY <1>1, <2>1
  <2> HIDE DEF j
  <2> QED BY <1>2, <2>1, <2>2
<1>4. Len(q) <= z
  BY <1>1, <1>2
<1> QED
  BY <1>3, <1>4 DEF IsTail, q, z

LEMMA BridgeWrites ==
  ASSUME BridgeInv, Wire(Write)
  PROVE  BridgeInv'
<1>0. BridgeSettings /\ WriterInv /\ ReaderInv
  BY DEF BridgeInv
<1>1. /\ UNCHANGED <<fixed, sendVars, recvVars, hand, bufVars>>
      /\ UNCHANGED <<open, inbox, closed, pending>> /\ open /\ sending # <<>> /\ Len(net) < NetCap
  BY DEF Wire, Write, WriteSome, WriteAssumedWhole, SyncWrite, SendMessage, SendOnChannel, Whole
<1>2. /\ UNCHANGED BridgeOthers
      /\ UNCHANGED <<rbuf, stage, next, sent, resent, out, got>>
  BY <1>1 DEF BridgeOthers, recvVars, sendVars, bufVars
<1>3. Sizes' = Sizes /\ Byte' = Byte /\ UNCHANGED <<lens, transport, codec>>
  BY <1>2, BridgeFixed
<1>4. /\ net \in Seq(Byte) /\ sending \in Seq(Byte) /\ rbuf \in Seq(Byte)
      /\ next > 1 /\ IsTail(sending, next - 1, Sizes)
  BY <1>0, <1>1 DEF WriterInv
<1>5. next - 1 \in DOMAIN lens /\ next - 1 \in Nat /\ Sizes[next - 1] \in Nat
  <2> DEFINE m == next - 1
  <2>0. m \in Nat /\ \A i \in 1..m : i \in DOMAIN lens
    BY WayParts
  <2>1. m > 0
    <3>1. next \in 1..(Len(lens) + 1) /\ Len(lens) \in Nat
      BY <1>0, BridgeSizes DEF WriterInv
    <3> QED BY <1>4, <3>1
  <2> HIDE DEF m
  <2>2. m \in Nat /\ m \in DOMAIN lens
    BY <2>0, <2>1
  <2>3. Sizes[m] \in Nat
    BY <1>0, <2>2, BridgeSizes
  <2> QED BY <2>2, <2>3 DEF m
<1>6. /\ net' \in Seq(Byte) /\ sending' \in Seq(Byte)
      /\ Cat(net', sending') = Cat(net, sending)
      /\ transport = "tcp" => Len(net') <= NetCap
      /\ sending' # <<>> => IsTail(sending', next - 1, Sizes)
  <2>1. CASE Whole /\ transport # "tcp"
    <3>1. net' = net \o sending /\ sending' = <<>>
      BY <2>1 DEF Whole
    <3>2. net \o sending \in Seq(Byte) /\ (net \o sending) \o <<>> = net \o sending
      BY <1>4, ConcatProperties, ConcatEmptySeq
    <3> QED BY <2>1, <3>1, <3>2, EmptySeq DEF Cat
  <2>2. CASE WriteSome
    <3>1. PICK n \in 1..UpTo(NetCap - Len(net), sending) :
             net' = net \o First(sending, n) /\ sending' = Rest(sending, n)
      BY <2>2 DEF WriteSome
    <3>2. NetCap \in Nat /\ Len(net) \in Nat /\ NetCap - Len(net) \in Nat /\ Len(sending) \in Nat
      BY <1>1, <1>4, TransportAssumption
    <3>3. n \in 0..Len(sending) /\ n <= NetCap - Len(net)
      <4>1. /\ UpTo(NetCap - Len(net), sending) \in 0..Len(sending)
            /\ UpTo(NetCap - Len(net), sending) <= NetCap - Len(net)
        BY <1>4, <3>2, UpToIsLeast
      <4> QED BY <3>2, <4>1
    <3>4. /\ First(sending, n) \in Seq(Byte) /\ Len(First(sending, n)) = n
          /\ Rest(sending, n) \in Seq(Byte) /\ First(sending, n) \o Rest(sending, n) = sending
      BY <1>4, <3>3, CutInTwo
    <3>5. Cat(Cat(net, First(sending, n)), Rest(sending, n)) = Cat(net, Cat(First(sending, n), Rest(sending, n)))
      BY <1>4, <3>4, CatIsAssociative
    <3>6. net \o First(sending, n) \in Seq(Byte) /\ Len(net \o First(sending, n)) = Len(net) + n
      BY <1>4, <3>4, ConcatProperties
    <3>7. Cat(net', sending') = Cat(net, sending)
      BY <3>1, <3>4, <3>5 DEF Cat
    <3>8. IsTail(Rest(sending, n), next - 1, Sizes)
      <4> DEFINE m == next - 1
                 Z == Sizes
      <4>1. m \in Nat /\ Z[m] \in Nat /\ IsTail(sending, m, Z)
        BY <1>4, <1>5
      <4> HIDE DEF m, Z
      <4> QED BY <1>4, <3>3, <4>1, TailOfTail DEF m, Z
    <3>9. Len(net') <= NetCap
      BY <3>1, <3>2, <3>3, <3>6
    <3> QED BY <3>1, <3>4, <3>6, <3>7, <3>8, <3>9
  <2> QED BY <2>1, <2>2 DEF Wire, Write, WriteAssumedWhole, SyncWrite, SendMessage, SendOnChannel,
                Callbacks
<1>7. Way' = Way
  BY <1>2, <1>6 DEF Way
<1>8. stage # "failed"
  BY <1>0, <1>1 DEF ReaderInv
<1>9. ReaderInv'
  BY <1>1, <1>2, <1>7, <1>8, ReaderKept
<1>10. WriterInv'
  BY <1>0, <1>1, <1>2, <1>3, <1>4, <1>6 DEF WriterInv
<1> QED
  BY <1>0, <1>1, <1>2, <1>9, <1>10, BridgeKept DEF BridgeSettings

LEMMA BridgeWritesAgain ==
  ASSUME BridgeInv, PollWritePending
  PROVE  BridgeInv'
<1>0. BridgeSettings /\ WriterInv /\ ReaderInv
  BY DEF BridgeInv
<1>1. /\ UNCHANGED BridgeOthers /\ UNCHANGED <<rbuf, net, open, next, sent, out, got, stage>>
      /\ open /\ sending # <<>> /\ sending' = Unit(next - 1) /\ resent' = TRUE
  BY DEF PollWritePending, BridgeOthers, recvVars, bufVars
<1>2. Sizes' = Sizes /\ Byte' = Byte /\ UNCHANGED <<lens, transport, codec>>
  BY <1>1, BridgeFixed
<1> DEFINE m == next - 1
           n == Len(out)
           u == Unit(m)
           h == Cat(rbuf, net)
           Z == Sizes
<1>3. /\ net \in Seq(Byte) /\ sending \in Seq(Byte) /\ rbuf \in Seq(Byte)
      /\ next > 1 /\ IsTail(sending, m, Z) /\ h \in Seq(Byte)
  BY <1>0, <1>1, CatIsAssociative DEF WriterInv
<1>4. m \in DOMAIN lens /\ m \in Nat
  <2>0. m \in Nat /\ \A i \in 1..m : i \in DOMAIN lens
    BY WayParts
  <2>1. m > 0
    <3>1. next \in 1..(Len(lens) + 1) /\ Len(lens) \in Nat
      BY <1>0, BridgeSizes DEF WriterInv
    <3> QED BY <1>3, <3>1
  <2> HIDE DEF m
  <2> QED BY <2>0, <2>1
<1>5. u \in Seq(Byte) /\ u # <<>> /\ IsTail(u, m, Z)
  <2> HIDE DEF m
  <2> QED BY <1>0, <1>4, BridgeSizes, UnitIsTail
<1>6. Way = h \o sending /\ Way' = h \o u
  <2>1. Way = Cat(h, sending)
    BY <1>3, CatIsAssociative DEF Way
  <2>2. Way' = Cat(rbuf, Cat(net, u))
    BY <1>1 DEF Way
  <2>3. Cat(rbuf, Cat(net, u)) = Cat(h, u)
    BY <1>3, <1>5, CatIsAssociative
  <2> QED BY <2>1, <2>2, <2>3 DEF Cat
<1>7. /\ n \in Nat /\ got \in Nat /\ out = [i \in 1..n |-> i] /\ stage # "failed"
      /\ Counts(h \o sending, n, m, Z) /\ RunsOut(h \o sending, n, m, got, Z)
  BY <1>0, <1>1, <1>6 DEF ReaderInv
<1>8. /\ Z \in [DOMAIN lens -> Nat \ {0}] /\ DOMAIN lens \in SUBSET Nat
      /\ h \in Seq(Bytes(Z)) /\ sending \in Seq(Bytes(Z)) /\ u \in Seq(Bytes(Z))
  BY <1>0, <1>3, <1>5, BridgeSizes
<1>9. Counts(h \o u, n, m, Z) /\ RunsOut(h \o u, n, m, got, Z)
  <2> HIDE DEF m, n, u, h, Z
  <2> QED BY <1>1, <1>3, <1>4, <1>5, <1>7, <1>8, UnitSetsOutAgain
<1>10. ReaderInv'
  <2> DEFINE w == h \o u
  <2>1. Way' = w /\ Counts(w, n, m, Z) /\ RunsOut(w, n, m, got, Z)
    BY <1>6, <1>9
  <2> HIDE DEF w
  <2> QED BY <1>1, <1>2, <1>7, <2>1 DEF ReaderInv
<1>11. WriterInv'
  BY <1>0, <1>1, <1>2, <1>3, <1>5 DEF WriterInv
<1> QED
  BY <1>0, <1>1, <1>10, <1>11, BridgeKept DEF BridgeSettings

LEMMA BridgeBreaks ==
  ASSUME BridgeInv, Wire(Break)
  PROVE  BridgeInv'
<1>0. BridgeSettings /\ WriterInv /\ ReaderInv
  BY DEF BridgeInv
<1>1. /\ UNCHANGED <<fixed, sendVars, recvVars, hand, bufVars>>
      /\ UNCHANGED <<inbox, closed, pending>> /\ open /\ open' = FALSE /\ sending' = <<>>
      /\ net' = net \/ net' = <<>>
  BY DEF Wire, Break
<1>2. UNCHANGED BridgeOthers /\ UNCHANGED <<rbuf, next, sent, resent, out, got, stage>>
  BY <1>1 DEF BridgeOthers, recvVars, sendVars, bufVars
<1>3. Sizes' = Sizes /\ Byte' = Byte /\ UNCHANGED <<lens, transport, codec>>
  BY <1>2, BridgeFixed
<1>4. net \in Seq(Byte) /\ sending \in Seq(Byte) /\ rbuf \in Seq(Byte) /\ <<>> \in Seq(Byte)
  BY <1>0, EmptySeq DEF WriterInv
<1>5. PICK b \in Seq(Byte) : Way = Way' \o b /\ Way' \in Seq(Byte)
  <2>1. CASE net' = net
    <3>1. Way' = Cat(rbuf, net) /\ Way = Cat(Cat(rbuf, net), sending) /\ Cat(rbuf, net) \in Seq(Byte)
      BY <1>1, <1>2, <1>4, <2>1, CatEmpty, CatIsAssociative DEF Way
    <3> QED BY <1>4, <3>1 DEF Cat
  <2>2. CASE net' = <<>>
    <3>1. Way' = rbuf
      BY <1>1, <1>2, <1>4, <2>2, CatEmpty DEF Way
    <3>2. Cat(net, sending) \in Seq(Byte) /\ Way = Cat(rbuf, Cat(net, sending))
      BY <1>4, CatIsAssociative DEF Way
    <3> QED BY <1>4, <3>1, <3>2 DEF Cat
  <2> QED BY <1>1, <2>1, <2>2
<1> DEFINE m == next - 1
           n == Len(out)
           a == Way'
           Z == Sizes
<1>6. /\ n \in Nat /\ got \in Nat /\ m \in Nat /\ out = [i \in 1..n |-> i] /\ stage # "failed"
      /\ Counts(a \o b, n, m, Z) /\ (~resent => Intact(a \o b, got, Z))
  BY <1>0, <1>1, <1>5, WayParts DEF ReaderInv
<1>7. /\ Z \in [DOMAIN lens -> Nat \ {0}] /\ DOMAIN lens \in SUBSET Nat
      /\ a \in Seq(Bytes(Z)) /\ b \in Seq(Bytes(Z))
  BY <1>0, <1>5, BridgeSizes
<1>8. Counts(a, n, m, Z) /\ (Intact(a \o b, got, Z) => Intact(a, got, Z))
  <2> HIDE DEF m, n, a, Z
  <2> QED BY <1>6, <1>7, EndIsLost
<1>9. ReaderInv'
  BY <1>1, <1>2, <1>3, <1>6, <1>8 DEF ReaderInv
<1>10. WriterInv'
  <2>1. transport = "tcp" => Len(net') <= NetCap
    <3>1. Len(<<>>) <= NetCap
      BY TransportAssumption
    <3> QED BY <1>0, <1>1, <3>1 DEF WriterInv
  <2> QED BY <1>0, <1>1, <1>2, <1>3, <1>4, <2>1 DEF WriterInv
<1> QED
  BY <1>0, <1>1, <1>2, <1>9, <1>10, BridgeKept DEF BridgeSettings

(* The receiver connects, gives up or does nothing.                        *)
LEMMA BridgeGoesOn ==
  ASSUME BridgeInv, Connected \/ ConnectFails \/ RecvFails \/ UNCHANGED vars
  PROVE  BridgeInv'
<1>0. BridgeSettings /\ WriterInv /\ ReaderInv
  BY DEF BridgeInv
<1>1. /\ UNCHANGED <<fixed, wireVars, sendVars, prefix, rbuf, cut, got, hand, bufVars>>
      /\ stage' \in {"frames", "unconnected", "failed", stage}
  BY DEF Connected, ConnectFails, RecvFails, vars, recvVars
<1>2. UNCHANGED BridgeOthers /\ UNCHANGED <<rbuf, net, sending, next, sent, resent, out, got, open>>
  BY <1>1 DEF BridgeOthers, wireVars, sendVars, bufVars
<1>3. Sizes' = Sizes /\ Byte' = Byte /\ UNCHANGED <<lens, transport, codec>>
  BY <1>2, BridgeFixed
<1>4. stage' = "failed" => ~open /\ net = <<>> /\ rbuf = <<>>
  <2>1. CASE RecvFails
    <3>1. Wanting /\ AtEnd
      <4>1. ~TooLarge /\ stage # "detect"
        BY <1>0 DEF TooLarge, HeaderComplete, BridgeSettings
      <4> QED BY <2>1, <4>1 DEF RecvFails
    <3>2. rbuf = <<>>
      BY <1>0, <3>1 DEF Wanting, Complete, BridgeSettings
    <3>3. ~open /\ net = <<>>
      <4>1. transport \notin {"rtc", "browser"}
        BY <1>0 DEF BridgeSettings, Streams
      <4> QED BY <3>1, <4>1 DEF AtEnd
    <3> QED BY <3>2, <3>3
  <2>2. CASE Connected \/ ConnectFails
    BY <2>2 DEF Connected, ConnectFails
  <2>3. CASE UNCHANGED vars
    <3>1. stage' = stage
      BY <2>3 DEF vars, recvVars
    <3> QED BY <1>0, <3>1 DEF ReaderInv
  <2> QED BY <2>1, <2>2, <2>3
<1>5. Way' = Way
  BY <1>2 DEF Way
<1>6. ReaderInv'
  BY <1>0, <1>2, <1>3, <1>4, <1>5 DEF ReaderInv
<1>7. WriterInv'
  BY <1>0, <1>2, <1>3 DEF WriterInv
<1> QED
  BY <1>0, <1>1, <1>2, <1>6, <1>7, BridgeKept DEF BridgeSettings

LEMMA LastBytesAre ==
  ASSUME BridgeSettings, NEW s \in Seq(Byte)
  PROVE  /\ LastBytes(s) = LastOf(s, Sizes)
         /\ \A i \in 1..Len(s) : s[i].f \in DOMAIN lens /\ Sizes[s[i].f] = Size(s[i].f)
                                 /\ s[i] = [f |-> s[i].f, at |-> s[i].at]
<1>1. \A i \in 1..Len(s) : s[i].f \in DOMAIN lens /\ s[i] = [f |-> s[i].f, at |-> s[i].at]
  <2> TAKE i \in 1..Len(s)
  <2>1. s[i] \in Bytes(Sizes)
    BY ElementOfSeq, BridgeSizes
  <2>2. DOMAIN Sizes = DOMAIN lens
    BY DEF Sizes
  <2> DEFINE b == s[i]
  <2> HIDE DEF b
  <2>3. b \in Bytes(Sizes) => b.f \in DOMAIN lens /\ b = [f |-> b.f, at |-> b.at]
    BY <2>2 DEF Bytes
  <2> QED BY <2>1, <2>3 DEF b
<1>2. \A i \in 1..Len(s) : Sizes[s[i].f] = Size(s[i].f)
  BY <1>1, BridgeSizes
<1>3. DOMAIN s = 1..Len(s)
  OBVIOUS
<1>4. LastBytes(s) = LastOf(s, Sizes)
  BY <1>2, <1>3 DEF LastBytes, LastOf
<1> QED
  BY <1>1, <1>2, <1>4

(* The reader has the first units, and gets the next c.                    *)
LEMMA NextInTurn ==
  ASSUME NEW n \in Nat, NEW c \in Nat, NEW t, t = [i \in 1..n |-> i],
         NEW e, e = [j \in 1..c |-> n + j]
  PROVE  t \o e = [i \in 1..(n + c) |-> i] /\ t \in Seq(Nat) /\ e \in Seq(Nat)
<1>1. /\ t \in Seq(Nat) /\ e \in Seq(Nat) /\ Len(t) = n /\ Len(e) = c
      /\ \A i \in 1..n : t[i] = i
      /\ \A j \in 1..c : e[j] = n + j
  OBVIOUS
<1> DEFINE w == t \o e
<1>2. /\ w \in Seq(Nat) /\ Len(w) = n + c
      /\ \A i \in 1..n : w[i] = t[i]
      /\ \A j \in 1..c : w[n + j] = e[j]
  BY <1>1, JoinedParts
<1> HIDE DEF w
<1>3. \A i \in 1..(n + c) : w[i] = i
  <2> TAKE i \in 1..(n + c)
  <2>1. CASE i \in 1..n
    BY <1>1, <1>2, <2>1
  <2>2. CASE i \notin 1..n
    <3>1. i - n \in 1..c /\ n + (i - n) = i
      BY <2>2
    <3> QED BY <1>1, <1>2, <3>1
  <2> QED BY <2>1, <2>2
<1>4. w = [i \in 1..(n + c) |-> i]
  BY <1>2, <1>3
<1> QED
  BY <1>1, <1>4 DEF w

(* Serve gives the reader the next of what is on the way: p of p \o v.     *)
ServedPiece(s) == First(s, UpTo(AppBuf, s))
ServedUnits(p) == Cardinality(LastOf(p, Sizes))

LEMMA ServeGives ==
  ASSUME BridgeInv, NEW s \in Seq(Byte), s # <<>>, Len(s) <= ReadChunk, Serve(s),
         NEW y \in Seq(Byte), Cat(s, y) = Way
  PROVE  LET p == ServedPiece(s)
             c == ServedUnits(p)
             n == Len(out)
             v == Cat(rbuf', y)
         IN /\ rbuf' \in Seq(Byte) /\ Len(rbuf') < ReadChunk
            /\ n \in Nat /\ c \in Nat /\ n + c \in Nat /\ n + c <= next - 1
            /\ out' = [i \in 1..(n + c) |-> i] /\ out = [i \in 1..n |-> i]
            /\ out' = out \o [j \in 1..c |-> n + j]
            /\ got' \in Nat /\ Counts(v, n + c, next - 1, Sizes)
            /\ open => RunsOut(v, n + c, next - 1, got', Sizes)
            /\ ~resent => Intact(v, got', Sizes)
<1> DEFINE k == UpTo(AppBuf, s)
           p == First(s, k)
           q == Rest(s, k)
           v == Cat(q, y)
           n == Len(out)
           m == next - 1
           Z == Sizes
           ends == LastOf(p, Z)
           c == Cardinality(ends)
           g == p[Len(p)].at % Z[p[Len(p)].f]
<1>0. BridgeSettings /\ WriterInv /\ ReaderInv
  BY DEF BridgeInv
<1>1. k \in 0..Len(s) /\ k > 0 /\ Len(s) \in Nat
  <2>1. AppBuf \in Nat /\ AppBuf > 0
    BY StreamAssumption
  <2> HIDE DEF k, p, q, v, n, m, Z, ends, c, g
  <2>2. s \in Seq(Byte) /\ s # <<>> /\ Len(s) \in Nat
    OBVIOUS
  <2>3. UpTo(AppBuf, s) \in 0..Len(s)
    BY <2>1, <2>2, UpToIsLeast
  <2>4. UpTo(AppBuf, s) > 0
    BY <2>1, <2>2, UpToIsLeast
  <2> QED BY <2>2, <2>3, <2>4 DEF k
<1>2. /\ p \in Seq(Byte) /\ Len(p) = k /\ q \in Seq(Byte) /\ Len(q) = Len(s) - k /\ Cat(p, q) = s
  <2> HIDE DEF k
  <2> QED BY <1>1, CutInTwo DEF Cat
<1>3. p # <<>> /\ Len(p) \in 1..Len(p)
  <2> HIDE DEF p, k
  <2> QED BY <1>1, <1>2, EmptySeq
<1>4. v \in Seq(Byte) /\ Way = p \o v
  <2> HIDE DEF p, q
  <2>1. Cat(q, y) \in Seq(Byte) /\ Cat(Cat(p, q), y) = Cat(p, Cat(q, y))
    BY <1>2, CatIsAssociative
  <2> QED BY <1>2, <2>1 DEF Cat
<1>5. /\ n \in Nat /\ got \in Nat /\ m \in Nat /\ out = [i \in 1..n |-> i]
      /\ Counts(p \o v, n, m, Z)
      /\ open => RunsOut(p \o v, n, m, got, Z)
      /\ ~resent => Intact(p \o v, got, Z)
  <2> HIDE DEF p, v
  <2> QED BY <1>0, <1>4, WayParts DEF ReaderInv
<1>6. /\ Z \in [DOMAIN lens -> Nat \ {0}] /\ DOMAIN lens \in SUBSET Nat
      /\ p \in Seq(Bytes(Z)) /\ v \in Seq(Bytes(Z))
  <2> HIDE DEF p, v
  <2> QED BY <1>0, <1>2, <1>4, BridgeSizes
<1>7. /\ n + c \in Nat /\ g \in Nat /\ n + c <= m
      /\ \A j \in 1..c : p[Nth(ends, j)].f = n + j
      /\ Counts(v, n + c, m, Z)
      /\ RunsOut(p \o v, n, m, got, Z) => RunsOut(v, n + c, m, g, Z)
      /\ Intact(p \o v, got, Z) => Intact(v, g, Z)
  <2> HIDE DEF p, v, n, m, Z
  <2> QED BY <1>3, <1>5, <1>6, PieceIsGiven
<1>8. c \in Nat
  <2>1. Len(p) \in Nat
    BY <1>1, <1>2
  <2> HIDE DEF p, Z
  <2> QED BY <2>1, EndsAreCounted
<1>9. LastBytes(p) = ends /\ Z[p[Len(p)].f] = Size(p[Len(p)].f)
  <2> HIDE DEF p
  <2> QED BY <1>0, <1>2, <1>3, LastBytesAre
<1>10. /\ rbuf' = Rest(s, Len(p))
       /\ out' = out \o [j \in 1..Cardinality(LastBytes(p)) |-> p[Nth(LastBytes(p), j)].f]
       /\ got' = p[Len(p)].at % Size(p[Len(p)].f)
  BY DEF Serve
<1>11. rbuf' = q /\ got' = g
  BY <1>2, <1>9, <1>10
<1>12. out' = out \o [j \in 1..c |-> n + j]
  <2>1. out' = out \o [j \in 1..c |-> p[Nth(ends, j)].f]
    BY <1>9, <1>10
  <2> DEFINE d == [j \in 1..c |-> p[Nth(ends, j)].f]
             e == [j \in 1..c |-> n + j]
  <2>2. d = e
    <3> HIDE DEF ends, c, n, p
    <3> QED BY <1>7
  <2>3. out' = out \o d
    BY <2>1
  <2> HIDE DEF d, e
  <2>4. out' = out \o e
    BY <2>2, <2>3
  <2> QED BY <2>4 DEF e
<1>13. out' = [i \in 1..(n + c) |-> i]
  <2> HIDE DEF n, c
  <2> DEFINE t == out
             e == [j \in 1..c |-> n + j]
  <2>1. t = [i \in 1..n |-> i] /\ e = [j \in 1..c |-> n + j]
    BY <1>5
  <2> HIDE DEF t, e
  <2>2. t \o e = [i \in 1..(n + c) |-> i]
    BY <1>5, <1>8, <2>1, NextInTurn
  <2> QED BY <1>12, <2>2 DEF t, e
<1>14. Len(q) < ReadChunk
  <2>1. ReadChunk \in Nat
    BY TransportAssumption
  <2> HIDE DEF q, k
  <2> QED BY <1>1, <1>2, <2>1
<1>15. v = Cat(rbuf', y)
  BY <1>11
<1>16. p = ServedPiece(s) /\ c = ServedUnits(p)
  BY DEF ServedPiece, ServedUnits
<1> HIDE DEF k, p, q, v, n, m, Z, ends, c, g
<1>17. /\ rbuf' \in Seq(Byte) /\ Len(rbuf') < ReadChunk /\ got' \in Nat
       /\ Counts(v, n + c, m, Z)
       /\ open => RunsOut(v, n + c, m, got', Z)
       /\ ~resent => Intact(v, got', Z)
  BY <1>2, <1>5, <1>7, <1>11, <1>14
<1>18. n = Len(out) /\ m = next - 1 /\ Z = Sizes
  BY DEF n, m, Z
<1> QED
  BY <1>5, <1>7, <1>8, <1>12, <1>13, <1>15, <1>16, <1>17, <1>18, Zenon

(* What it is given of, and what it leaves.                                *)
LEMMA PollReadIs ==
  ASSUME BridgeInv, PollRead
  PROVE  \E s \in Seq(Byte) :
           /\ s # <<>> /\ Len(s) <= ReadChunk /\ Serve(s)
           /\ net' \in Seq(Byte) /\ Cat(s, Cat(net', sending)) = Way
           /\ Cat(net', sending) \in Seq(Byte)
           /\ transport = "tcp" => Len(net') <= NetCap
           /\ UNCHANGED <<inbox, pending>>
<1>0. /\ BridgeSettings /\ WriterInv
      /\ rbuf \in Seq(Byte) /\ net \in Seq(Byte) /\ sending \in Seq(Byte)
      /\ pending = <<>> /\ inbox = <<>> /\ ReadChunk \in Nat \ {0} /\ Len(rbuf) \in Nat
  BY TransportAssumption DEF BridgeInv, WriterInv, BridgeSettings
<1>1. CASE rbuf # <<>> /\ Serve(rbuf) /\ UNCHANGED <<inbox, net, pending>>
  <2>1. Len(rbuf) < ReadChunk /\ (transport = "tcp" => Len(net) <= NetCap)
    BY <1>0 DEF WriterInv
  <2>2. Cat(net, sending) \in Seq(Byte) /\ Cat(rbuf, Cat(net, sending)) = Way
    BY <1>0, CatIsAssociative DEF Way
  <2>3. /\ rbuf # <<>> /\ Len(rbuf) <= ReadChunk /\ Serve(rbuf)
        /\ net' \in Seq(Byte) /\ Cat(rbuf, Cat(net', sending)) = Way
        /\ Cat(net', sending) \in Seq(Byte)
        /\ transport = "tcp" => Len(net') <= NetCap
        /\ UNCHANGED <<inbox, pending>>
    BY <1>0, <1>1, <2>1, <2>2
  <2> QED BY <1>0, <2>3, Zenon
<1>2. CASE rbuf = <<>> /\ \E r \in Reads(ReadChunk) : Serve(r.piece) /\ Receives(r)
  <2>1. PICK r \in Reads(ReadChunk) : Serve(r.piece) /\ Receives(r)
    BY <1>2
  <2>2. r \in ReadStream(ReadChunk)
    <3>1. pending = <<>> /\ transport \in {"tcp", "tcp_wasi"}
      BY <1>0 DEF BridgeSettings, Streams
    <3> QED BY <2>1, <3>1 DEF Reads, Streams
  <2>3. PICK k \in 1..UpTo(ReadChunk, net) :
           r = Delivered(First(net, k), ReadChunk, inbox, Rest(net, k))
    BY <2>1, <2>2 DEF ReadStream
  <2>4. k \in 0..Len(net) /\ k >= 1 /\ k <= ReadChunk /\ k \in Nat /\ Len(net) \in Nat
    <3>1. UpTo(ReadChunk, net) \in 0..Len(net) /\ UpTo(ReadChunk, net) <= ReadChunk
      BY <1>0, UpToIsLeast
    <3>2. Len(net) \in Nat
      BY <1>0
    <3> QED BY <1>0, <3>1, <3>2
  <2> DEFINE s == First(net, k)
             q == Rest(net, k)
  <2>5. /\ s \in Seq(Byte) /\ Len(s) = k /\ q \in Seq(Byte) /\ Len(q) = Len(net) - k
        /\ Cat(s, q) = net
    BY <1>0, <2>4, CutInTwo DEF Cat
  <2> HIDE DEF s, q
  <2>6. s # <<>> /\ Len(s) <= ReadChunk
    BY <2>4, <2>5, EmptySeq
  <2>7. r = Delivered(s, ReadChunk, inbox, q)
    BY <2>3 DEF s, q
  <2>8. /\ r.piece \in Seq(Byte) /\ r.tail = <<>> /\ r.inbox = inbox /\ r.net = q
        /\ \A x \in Seq(Byte) : Cat(r.piece, Cat(r.tail, x)) = Cat(s, x)
    <3> DEFINE box == inbox
    <3> HIDE DEF box
    <3>1. r = Delivered(s, ReadChunk, box, q)
      BY <2>7 DEF box
    <3>2. ReadChunk \in Nat /\ ReadChunk >= Len(s)
      BY <1>0, <2>6
    <3>3. /\ r.piece \in Seq(Byte) /\ r.tail = <<>> /\ r.inbox = box /\ r.net = q
          /\ \A x \in Seq(Byte) : Cat(r.piece, Cat(r.tail, x)) = Cat(s, x)
      BY <2>5, <3>1, <3>2, DeliveredParts
    <3> QED BY <3>3 DEF box
  <2>9. r.piece = s
    <3> DEFINE none == <<>>
    <3>1. none \in Seq(Byte) /\ \A x \in Seq(Byte) : Cat(none, x) = x /\ Cat(x, none) = x
      BY CatEmpty, EmptySeq
    <3>2. r.tail = none
      BY <2>8
    <3> HIDE DEF none
    <3> QED BY <2>5, <2>8, <3>1, <3>2
  <2>10. pending' = <<>> /\ inbox' = inbox /\ net' = q
    BY <2>1, <2>8 DEF Receives
  <2>11. Cat(q, sending) \in Seq(Byte) /\ Cat(s, Cat(q, sending)) = Way
    <3>1. Cat(q, sending) \in Seq(Byte) /\ Cat(Cat(s, q), sending) = Cat(s, Cat(q, sending))
      BY <1>0, <2>5, CatIsAssociative
    <3>2. Cat(net, sending) \in Seq(Byte)
      BY <1>0, CatIsAssociative
    <3>3. Way = Cat(net, sending)
      BY <1>2, <3>2, CatEmpty DEF Way
    <3> QED BY <2>5, <3>1, <3>3
  <2>12. transport = "tcp" => Len(q) <= NetCap
    <3>1. transport = "tcp" => Len(net) <= NetCap
      BY <1>0 DEF WriterInv
    <3>2. NetCap \in Nat
      BY TransportAssumption
    <3> QED BY <2>4, <2>5, <3>1, <3>2
  <2>13. Serve(s)
    BY <2>1, <2>9
  <2>14. /\ s # <<>> /\ Len(s) <= ReadChunk /\ Serve(s)
         /\ net' \in Seq(Byte) /\ Cat(s, Cat(net', sending)) = Way
         /\ Cat(net', sending) \in Seq(Byte)
         /\ transport = "tcp" => Len(net') <= NetCap
         /\ UNCHANGED <<inbox, pending>>
    BY <1>0, <2>5, <2>6, <2>10, <2>11, <2>12, <2>13
  <2> QED BY <2>5, <2>14, Zenon
<1> QED
  BY <1>1, <1>2 DEF PollRead

LEMMA BridgeReads ==
  ASSUME BridgeInv, PollRead
  PROVE  /\ BridgeInv'
         /\ \E c \in Nat : /\ Len(out) + c <= next - 1
                           /\ out' = out \o [j \in 1..c |-> Len(out) + j]
<1>0. BridgeSettings /\ WriterInv /\ ReaderInv
  BY DEF BridgeInv
<1>1. PICK s \in Seq(Byte) :
           /\ s # <<>> /\ Len(s) <= ReadChunk /\ Serve(s)
           /\ net' \in Seq(Byte) /\ Cat(s, Cat(net', sending)) = Way
           /\ Cat(net', sending) \in Seq(Byte)
           /\ transport = "tcp" => Len(net') <= NetCap
           /\ UNCHANGED <<inbox, pending>>
  BY PollReadIs
<1>2. /\ UNCHANGED BridgeOthers /\ UNCHANGED <<sending, open, next, sent, resent, stage>>
      /\ stage = "frames"
  BY <1>1 DEF PollRead, BridgeOthers, sendVars, Receiving
<1>3. Sizes' = Sizes /\ Byte' = Byte /\ UNCHANGED <<lens, transport, codec>>
  BY <1>2, BridgeFixed
<1> DEFINE c == ServedUnits(ServedPiece(s))
           n == Len(out)
           y == Cat(net', sending)
<1>4. y \in Seq(Byte) /\ Cat(s, y) = Way
  BY <1>1
<1>5. /\ rbuf' \in Seq(Byte) /\ Len(rbuf') < ReadChunk
      /\ n \in Nat /\ c \in Nat /\ n + c \in Nat /\ n + c <= next - 1
      /\ out' = [i \in 1..(n + c) |-> i]
      /\ out' = out \o [j \in 1..c |-> n + j]
      /\ got' \in Nat /\ Counts(Cat(rbuf', y), n + c, next - 1, Sizes)
      /\ open => RunsOut(Cat(rbuf', y), n + c, next - 1, got', Sizes)
      /\ ~resent => Intact(Cat(rbuf', y), got', Sizes)
  <2> HIDE DEF y
  <2> QED BY <1>1, <1>4, ServeGives
<1>6. Way' = Cat(rbuf', y)
  BY <1>2 DEF Way
<1>7. Len(out') = n + c
  <2> HIDE DEF n, c
  <2>1. Len([i \in 1..(n + c) |-> i]) = n + c
    BY <1>5
  <2> QED BY <1>5, <2>1
<1> HIDE DEF c, n, y
<1>8. ReaderInv'
  <2> DEFINE w == Way'
  <2>1. w = Way' /\ w = Cat(rbuf', y)
    BY <1>6
  <2> HIDE DEF w
  <2> QED BY <1>2, <1>3, <1>5, <1>7, <2>1 DEF ReaderInv
<1>9. WriterInv'
  BY <1>0, <1>1, <1>2, <1>3, <1>5 DEF WriterInv
<1>10. BridgeInv'
  BY <1>0, <1>2, <1>8, <1>9, BridgeKept DEF BridgeSettings
<1>11. n + c <= next - 1 /\ out' = out \o [j \in 1..c |-> n + j] /\ c \in Nat
  BY <1>5
<1> QED
  BY <1>10, <1>11 DEF n

LEMMA BridgeStep ==
  ASSUME BridgeInv, [Next]_vars
  PROVE  BridgeInv'
<1>0. /\ BridgeSettings /\ codec = "bridge" /\ stage # "detect" /\ prefix = <<>> /\ queue = <<>>
      /\ hand = NoFrame /\ transport \notin {"browser", "rtc", "ws_wasi"}
  BY DEF BridgeInv, BridgeSettings, Streams
<1>1. CASE Sender
  BY <1>1, BridgeSends, BridgeWrites DEF Sender
<1>2. CASE PollWritePending
  BY <1>2, BridgeWritesAgain
<1>3. CASE Wire(Break)
  BY <1>3, BridgeBreaks
<1>4. CASE Arrival
  BY <1>0, <1>4 DEF Arrival, Wire, OnMessage, OnClose, Callbacks
<1>5. CASE Dial
  BY <1>5, BridgeGoesOn DEF Dial
<1>6. CASE Detect \/ DetectEnds \/ ReplayPrefix \/ ReadMore
  BY <1>0, <1>6 DEF Detect, DetectEnds, ReplayPrefix, ReadMore
<1>7. CASE ReadAhead \/ RecvFrame \/ RecvSignal
  BY <1>0, <1>7 DEF ReadAhead, Wire, SyncRead, RecvFrame, RecvSignal, FrameComplete, HeaderComplete,
     LineComplete
<1>8. CASE PollRead
  BY <1>8, BridgeReads
<1>9. CASE RecvFails
  BY <1>9, BridgeGoesOn
<1>10. CASE Consumer
  BY <1>0, <1>10 DEF Consumer, TakeSignal, TryPush, TryPop, Offered
<1>11. CASE UNCHANGED vars
  BY <1>11, BridgeGoesOn
<1> QED
  BY <1>1, <1>2, <1>3, <1>4, <1>5, <1>6, <1>7, <1>8, <1>9, <1>10, <1>11, Zenon DEF Next, Receiver

LEMMA BridgeInitial ==
  ASSUME Init, codec = "bridge"
  PROVE  BridgeInv
<1>1. /\ next = 1 /\ sent = <<>> /\ rbuf = <<>> /\ out = <<>> /\ got = 0
      /\ sending = <<>> /\ net = <<>> /\ open = TRUE /\ stage \in {"connect", "frames"}
  BY DEF Init, WireInit, Stages
<1>2. BridgeSettings
  <2>1. transport \in Streams
    BY DEF Init
  <2>2. \A f \in DOMAIN lens : lens[f] > 0
    BY DEF Init
  <2>3. stage \in {"connect", "frames", "failed", "unconnected"}
    BY <1>1
  <2> QED BY <1>1, <2>1, <2>2, <2>3 DEF Init, WireInit, BridgeSettings
<1>3. /\ Len(lens) \in Nat /\ Len(<<>>) = 0 /\ <<>> \in Seq(Byte)
      /\ ReadChunk > 0 /\ NetCap \in Nat /\ ReadChunk \in Nat
  BY <1>2, BridgeSizes, EmptySeq, TransportAssumption
<1>4. WriterInv
  <2>1. next - 1 = 0 /\ <<>> = [i \in 1..0 |-> i]
    BY <1>1
  <2> QED BY <1>1, <1>3, <2>1 DEF WriterInv
<1>5. Way = <<>>
  BY <1>1, <1>3, CatEmpty DEF Way
<1>6. ReaderInv
  <2>1. Len(out) = 0 /\ next - 1 = 0 /\ out = [i \in 1..0 |-> i]
    BY <1>1, <1>3
  <2> QED BY <1>1, <1>3, <1>5, <2>1, NothingOnTheWay DEF ReaderInv
<1> QED
  BY <1>2, <1>4, <1>6 DEF BridgeInv

LEMMA BridgeOrder ==
  ASSUME BridgeInv
  PROVE  BytesInOrder
<1> DEFINE m == next - 1
           n == Len(out)
           Z == Sizes
           w == Way
<1>0. BridgeSettings /\ WriterInv /\ ReaderInv
  BY DEF BridgeInv
<1>1. /\ w \in Seq(Byte) /\ Stream = w /\ m \in Nat /\ Len(sent) = m /\ Len(w) \in Nat
      /\ \A i \in 1..m : sent[i] = i
  BY WayParts
<1>2. /\ n \in Nat /\ got \in Nat /\ Counts(w, n, m, Z)
      /\ open => RunsOut(w, n, m, got, Z)
      /\ ~resent => Intact(w, got, Z)
      /\ stage = "failed" => ~open /\ net = <<>> /\ rbuf = <<>>
  BY <1>0 DEF ReaderInv
<1>3. Taken = n
  BY <1>0, <1>2 DEF Taken, BridgeSettings
<1>4. /\ LastBytes(w) = LastOf(w, Z)
      /\ \A i \in 1..Len(w) : w[i].f \in DOMAIN lens /\ Z[w[i].f] = Size(w[i].f)
                              /\ w[i] = [f |-> w[i].f, at |-> w[i].at]
  BY <1>0, <1>1, LastBytesAre
<1>5. \A i \in 1..Len(w) : w[i].f \in Nat /\ w[i].f <= m /\ 1 <= w[i].f
  <2> TAKE i \in 1..Len(w)
  <2>1. w[i].f \in DOMAIN lens /\ w[i].f <= m
    BY <1>2, <1>4 DEF Counts
  <2>2. DOMAIN lens = 1..Len(lens) /\ Len(lens) \in Nat
    BY <1>0, BridgeSizes
  <2> HIDE DEF w
  <2> QED BY <2>1, <2>2
<1>6. Numbered(w, n, Z) /\ n + Cardinality(LastOf(w, Z)) <= m
  BY <1>2 DEF Counts
<1> HIDE DEF w, m, n, Z
<1>7. /\ \A i \in 1..(Len(w) - 1) :
           w[i + 1].f = IF w[i].at = Z[w[i].f] THEN w[i].f + 1 ELSE w[i].f
      /\ w # <<>> => w[1].f = n + 1
      /\ w # <<>> /\ Len(w) \in LastOf(w, Z) => w[Len(w)].f = n + Cardinality(LastOf(w, Z))
  <2>1. w \in Seq(Byte) /\ n \in Nat /\ Numbered(w, n, Z)
    BY <1>1, <1>2, <1>6
  <2>2. UnitByUnit(w, n, Z)
    BY <2>1, NumberedOn
  <2> QED BY <2>2 DEF UnitByUnit
<1>8. ASSUME ~resent PROVE \A i \in 1..(Len(w) - 1) : Follows(w[i], w[i + 1])
  <2> TAKE i \in 1..(Len(w) - 1)
  <2>0. i \in 1..Len(w) /\ i + 1 \in 1..Len(w)
    BY <1>1
  <2> DEFINE b == w[i]
             c == w[i + 1]
  <2>1. /\ b = [f |-> b.f, at |-> b.at] /\ c = [f |-> c.f, at |-> c.at] /\ Z[b.f] = Size(b.f)
        /\ b.f \in Nat /\ 1 <= b.f /\ c.f <= m /\ c.f \in Nat
    BY <1>4, <1>5, <2>0
  <2>2. c.at = IF b.at = Z[b.f] THEN 1 ELSE b.at + 1
    BY <1>2, <1>8 DEF Intact, Steps, NextPlace
  <2>3. c.f = IF b.at = Z[b.f] THEN b.f + 1 ELSE b.f
    BY <1>7
  <2> HIDE DEF b, c
  <2>4. CASE b.at = Size(b.f)
    <3>1. b.f \in 1..(m - 1) /\ b.f \in 1..m /\ b.f + 1 \in 1..m
      BY <1>1, <2>1, <2>3, <2>4
    <3>2. sent[b.f] = b.f /\ sent[b.f + 1] = c.f
      BY <1>1, <2>1, <2>3, <2>4, <3>1
    <3>3. b.f \in 1..(Len(sent) - 1)
      BY <1>1, <3>1
    <3>4. c.at = 1
      BY <2>1, <2>2, <2>4
    <3> QED BY <2>4, <3>2, <3>3, <3>4 DEF Follows, b, c
  <2>5. CASE b.at # Size(b.f)
    <3>1. c.at = b.at + 1 /\ c.f = b.f
      BY <2>1, <2>2, <2>3, <2>5
    <3>2. [b EXCEPT !.at = @ + 1] = [f |-> b.f, at |-> b.at + 1]
      BY <2>1
    <3>3. c = [b EXCEPT !.at = @ + 1]
      BY <2>1, <3>1, <3>2
    <3> QED BY <3>3 DEF Follows, b, c
  <2> QED BY <2>4, <2>5
<1>9. ASSUME ~resent PROVE BeginsRight
  <2> SUFFICES ASSUME w # <<>>
               PROVE  n < Len(sent) /\ w[1] = [f |-> sent[n + 1], at |-> got + 1]
    BY <1>1, <1>3 DEF BeginsRight
  <2>1. 1 \in 1..Len(w)
    BY <1>1, EmptySeq
  <2>2. w[1].f = n + 1 /\ w[1].at = got + 1 /\ w[1] = [f |-> w[1].f, at |-> w[1].at] /\ w[1].f <= m
    BY <1>2, <1>4, <1>5, <1>7, <1>9, <2>1 DEF Intact
  <2> DEFINE x == w[1].f
  <2>3. x = n + 1 /\ x <= m
    BY <2>2
  <2> HIDE DEF x
  <2>4. n < Len(sent) /\ n + 1 \in 1..m
    BY <1>1, <1>2, <2>3
  <2> QED BY <1>1, <2>2, <2>4
<1>10. ASSUME open
       PROVE  IF w = <<>> THEN n = Len(sent)
              ELSE LET f == sent[Len(sent)] IN w[Len(w)] = [f |-> f, at |-> Size(f)]
  <2>1. n + Cardinality(LastOf(w, Z)) = m /\ (IF w = <<>> THEN got = 0 ELSE Len(w) \in LastOf(w, Z))
    BY <1>2, <1>10 DEF RunsOut
  <2>2. CASE w = <<>>
    <3>1. LastOf(w, Z) = {}
      BY <2>2 DEF LastOf
    <3>2. Cardinality(LastOf(w, Z)) = 0
      BY <3>1, FS_EmptySet
    <3> QED BY <1>1, <1>2, <2>1, <2>2, <3>2
  <2>3. CASE w # <<>>
    <3> DEFINE l == w[Len(w)]
    <3>1. Len(w) \in 1..Len(w)
      BY <1>1, <2>3, EmptySeq
    <3>2. /\ l.f = m /\ l.at = Z[l.f] /\ Z[l.f] = Size(l.f) /\ l = [f |-> l.f, at |-> l.at]
          /\ l.f \in 1..m
      <4>1. l.f = n + Cardinality(LastOf(w, Z))
        BY <1>7, <2>1, <2>3
      <4>2. l.at = Z[l.f]
        BY <2>1, <2>3 DEF LastOf
      <4>3. Z[l.f] = Size(l.f) /\ l = [f |-> l.f, at |-> l.at] /\ l.f \in Nat /\ 1 <= l.f /\ l.f <= m
        BY <1>4, <1>5, <3>1
      <4> HIDE DEF l
      <4> QED BY <1>1, <2>1, <4>1, <4>2, <4>3
    <3> HIDE DEF l
    <3>3. sent[Len(sent)] = m
      BY <1>1, <3>2
    <3>4. l = [f |-> m, at |-> Size(m)]
      BY <3>2
    <3> QED BY <2>3, <3>3, <3>4 DEF l
  <2> QED BY <2>2, <2>3
<1>11. ASSUME stage = "failed"
       PROVE  ~Complete /\ ~HasMessage(inbox) /\ pending = <<>>
  <2>1. codec = "bridge" /\ rbuf = <<>> /\ inbox = <<>> /\ pending = <<>>
    BY <1>0, <1>2, <1>11 DEF BridgeSettings
  <2> QED BY <2>1 DEF Complete, FrameComplete, HeaderComplete, LineComplete, HasMessage
<1>12. cut = {}
  BY <1>0 DEF BridgeSettings
<1>13. open => IF Stream = <<>> THEN Taken = Len(sent)
               ELSE LET f == sent[Len(sent)]
                    IN Stream[Len(Stream)] = [f |-> f, at |-> Size(f)]
  BY <1>1, <1>3, <1>10
<1>14. ~resent => \A i \in 1..(Len(Stream) - 1) : Follows(Stream[i], Stream[i + 1])
  BY <1>1, <1>8
<1> QED
  BY <1>9, <1>11, <1>12, <1>13, <1>14, Zenon DEF BytesInOrder

LEMMA BridgeBounds ==
  ASSUME BridgeInv
  PROVE  MemoryBounded /\ TypeOK
<1>0. /\ BridgeSettings /\ WriterInv /\ ReaderInv
      /\ DOMAIN lens = 1..Len(lens) /\ Len(lens) \in Nat
  BY BridgeSizes DEF BridgeInv
<1>1. /\ codec = "bridge" /\ transport \in {"tcp", "tcp_wasi"} /\ queue = <<>> /\ bytes = 0 /\ depth = 0
      /\ hand = NoFrame /\ inbox = <<>> /\ pending = <<>> /\ prefix = <<>> /\ closed = FALSE
      /\ cut = {} /\ refused = FALSE /\ checks = FALSE /\ Len(<<>>) = 0
      /\ stage \in {"connect", "frames", "failed", "unconnected"}
      /\ open \in BOOLEAN /\ resent \in BOOLEAN /\ lens \in Lengths
  BY <1>0 DEF BridgeSettings, Streams
<1>2. /\ max_bytes \in Nat /\ max_messages \in Nat /\ DetectLen \in Nat
  BY StreamAssumption
<1>3. IsTotal(bytes, queue)
  <2>1. Counted(0, <<>>, Sizes)
    BY NothingCounted
  <2>2. DOMAIN (<<>>) = {} /\ Len(<<>>) = 0
    OBVIOUS
  <2>3. \E left \in [1..(Len(<<>>) + 1) -> 0..0] :
           left[1] = 0 /\ left[Len(<<>>) + 1] = 0
    <3> DEFINE left == [i \in 1..(Len(<<>>) + 1) |-> 0]
    <3>1. left \in [1..(Len(<<>>) + 1) -> 0..0] /\ left[1] = 0 /\ left[Len(<<>>) + 1] = 0
      BY <2>2
    <3> QED BY <3>1
  <2> QED BY <1>1, <2>2, <2>3 DEF IsTotal
<1>4. MemoryBounded
  <2>1. Len(rbuf) < ReadChunk
    BY <1>0 DEF WriterInv
  <2> QED BY <1>1, <1>2, <1>3, <2>1 DEF MemoryBounded
<1>5. /\ rbuf \in Seq(Byte) /\ net \in Seq(Byte) /\ sending \in Seq(Byte) /\ <<>> \in Seq(Byte)
      /\ <<>> \in Seq(DOMAIN lens) /\ (transport = "tcp" => Len(net) <= NetCap)
      /\ next \in 1..(Len(lens) + 1) /\ got \in Nat
  BY <1>0, EmptySeq DEF WriterInv, ReaderInv
<1>6. sent \in Seq(DOMAIN lens) /\ out \in Seq(DOMAIN lens)
  <2> DEFINE m == next - 1
             n == Len(out)
  <2>1. m \in Nat /\ m <= Len(lens)
    BY <1>0, <1>5
  <2>2. n \in Nat /\ n <= m
    <3>1. n \in Nat /\ n + Cardinality(LastOf(Way, Sizes)) <= m
      BY <1>0 DEF ReaderInv, Counts
    <3>2. Cardinality(LastOf(Way, Sizes)) \in Nat
      <4>1. Len(Way) \in Nat
        <5>1. Way \in Seq(Byte)
          BY WayParts
        <5> QED BY <5>1
      <4> QED BY <4>1, EndsAreCounted
    <3> HIDE DEF m, n
    <3> QED BY <2>1, <3>1, <3>2
  <2>3. sent = [i \in 1..m |-> i] /\ out = [i \in 1..n |-> i]
    BY <1>0 DEF WriterInv, ReaderInv
  <2> HIDE DEF m, n
  <2>4. (\A i \in 1..m : i \in DOMAIN lens) /\ (\A i \in 1..n : i \in DOMAIN lens)
    BY <1>0, <2>1, <2>2
  <2>5. [i \in 1..m |-> i] \in Seq(DOMAIN lens) /\ [i \in 1..n |-> i] \in Seq(DOMAIN lens)
    BY <2>1, <2>2, <2>4
  <2> QED BY <2>3, <2>5
<1>7. WireOK
  BY <1>1, <1>5 DEF WireOK, Transports
<1>8. TypeOK
  <2>1. {sent, out, queue} \subseteq Seq(DOMAIN lens) /\ {prefix, rbuf} \subseteq Seq(Byte)
    BY <1>1, <1>5, <1>6
  <2>2. Len(prefix) <= DetectLen /\ bytes \in 0..max_bytes /\ depth \in 0..max_messages
    BY <1>1, <1>2
  <2>3. /\ hand \in DOMAIN lens \cup {NoFrame} /\ cut \subseteq DOMAIN lens
        /\ (refused => hand # NoFrame) /\ checks \in BOOLEAN /\ refused \in BOOLEAN
        /\ stage \in {"connect", "detect", "frames", "failed", "unconnected"}
    BY <1>1
  <2> QED BY <1>1, <1>5, <1>7, <2>1, <2>2, <2>3, Zenon DEF TypeOK
<1> QED
  BY <1>4, <1>8

LEMMA BridgeQueueStep ==
  ASSUME BridgeInv, [Next]_vars
  PROVE  [Queue!Next]_(Queue!vars)
<1>0. /\ BridgeSettings /\ WriterInv /\ ReaderInv
      /\ DOMAIN lens = 1..Len(lens) /\ Len(lens) \in Nat
  BY BridgeSizes DEF BridgeInv
<1>1. CASE Send
  <2>1. UNCHANGED out /\ sent' = Append(sent, next) /\ next <= Len(lens)
    BY <1>0, <1>1 DEF Send, bufVars, BridgeSettings
  <2>2. next \in DOMAIN lens
    BY <1>0, <2>1 DEF WriterInv
  <2>3. next \in Frame
    BY <1>0, <2>2 DEF Frame, BridgeSettings
  <2> QED BY <2>1, <2>3 DEF Queue!Next, Queue!Send
<1>2. CASE PollRead
  <2> DEFINE n == Len(out)
             m == Len(sent)
  <2>1. PICK c \in Nat : n + c <= next - 1 /\ out' = out \o [j \in 1..c |-> n + j]
    BY <1>2, BridgeReads
  <2>2. UNCHANGED sent
    BY <1>2 DEF PollRead, sendVars
  <2>3. m = next - 1 /\ m \in Nat /\ (\A i \in 1..m : sent[i] = i) /\ n \in Nat
    BY <1>0, WayParts DEF ReaderInv
  <2>4. sent \in Seq(Nat)
    <3>1. sent = [i \in 1..(next - 1) |-> i]
      BY <1>0 DEF WriterInv
    <3> QED BY <2>3, <3>1
  <2>5. CASE c = 0
    <3>1. [j \in 1..c |-> n + j] = <<>>
      BY <2>5
    <3>2. out \in Seq(Nat)
      <4>1. out = [i \in 1..n |-> i]
        BY <1>0 DEF ReaderInv
      <4> HIDE DEF n
      <4> QED BY <2>3, <4>1
    <3>3. out' = out
      BY <2>1, <3>1, <3>2, ConcatEmptySeq
    <3> QED BY <2>2, <3>3 DEF Queue!vars
  <2>6. CASE c > 0
    <3> DEFINE p == SubSeq(sent, n + 1, n + c)
               e == [j \in 1..c |-> n + j]
    <3> HIDE DEF m, n
    <3>1. n + c \in (n + 1)..m /\ n + 1 \in 1..(m + 1) /\ n + c \in n..m
      BY <2>1, <2>3, <2>6
    <3>2. /\ p \in Seq(Nat) /\ Len(p) = c
          /\ \A j \in 1..c : p[j] = sent[n + j]
      <4>1. /\ p \in Seq(Nat)
            /\ Len(p) = IF n + 1 <= n + c THEN (n + c) - (n + 1) + 1 ELSE 0
            /\ \A j \in 1..((n + c) - (n + 1) + 1) : p[j] = sent[(n + 1) + j - 1]
        <5>1. /\ n + 1 \in Int /\ n + c \in Int
              /\ \A j \in (n + 1)..(n + c) : sent[j] \in Nat
          <6>1. \A j \in (n + 1)..(n + c) : j \in 1..m
            BY <2>3, <3>1
          <6> QED BY <2>3, <6>1
        <5> QED BY <2>4, <5>1, SubSeqProperties
      <4> HIDE DEF p
      <4>2. (n + c) - (n + 1) + 1 = c /\ n + 1 <= n + c
        BY <2>3, <2>6
      <4>3. \A j \in 1..c : (n + 1) + j - 1 = n + j
        BY <2>3
      <4> QED BY <4>1, <4>2, <4>3
    <3>3. \A j \in 1..c : p[j] = n + j
      <4> HIDE DEF p
      <4>1. \A j \in 1..c : n + j \in 1..m
        BY <2>3, <3>1
      <4> QED BY <2>3, <3>2, <4>1
    <3>4. p = e
      <4> HIDE DEF p
      <4>1. p = [j \in 1..c |-> p[j]]
        BY <3>2
      <4> QED BY <3>3, <4>1
    <3>5. out' = out \o p
      BY <2>1, <3>4
    <3>6. \E k \in (Len(out) + 1)..Len(sent) : out' = out \o SubSeq(sent, Len(out) + 1, k)
      BY <3>1, <3>5 DEF n, m
    <3> QED BY <2>2, <3>6 DEF Queue!Next, Queue!Deliver
  <2> QED BY <2>5, <2>6
<1>3. CASE UNCHANGED <<sent, out>>
  BY <1>3 DEF Queue!vars
<1>4. Send \/ PollRead \/ UNCHANGED <<sent, out>>
  <2>0. codec = "bridge" /\ queue = <<>>
    BY <1>0 DEF BridgeSettings
  <2>1. CASE Next
    BY <2>0, <2>1 DEF Next, Sender, Wire, PollWritePending, Arrival, Dial, Connected, ConnectFails,
       Receiver, Detect, DetectEnds, ReplayPrefix, ReadMore, ReadAhead, RecvFrame, RecvSignal,
       RecvFails, Consumer, TakeSignal, TryPush, TryPop, sendVars, bufVars
  <2>2. CASE UNCHANGED vars
    BY <2>2 DEF vars, sendVars, bufVars
  <2> QED BY <2>1, <2>2
<1> QED
  BY <1>1, <1>2, <1>3, <1>4

-----------------------------------------------------------------------------
(* Frames and lines, and the bridge. *)

StackInv == (FrameInv /\ MemoryInv) \/ BridgeInv

LEMMA StackInitial ==
  ASSUME Init
  PROVE  StackInv
<1>1. CASE codec = "bridge"
  BY <1>1, BridgeInitial DEF StackInv
<1>2. CASE codec # "bridge"
  BY <1>2, FrameInitial, MemoryInitial DEF StackInv
<1> QED
  BY <1>1, <1>2

LEMMA StackStep ==
  ASSUME StackInv, [Next]_vars
  PROVE  StackInv'
<1>1. CASE FrameInv /\ MemoryInv
  BY <1>1, FrameStep, MemoryStep DEF StackInv
<1>2. CASE BridgeInv
  BY <1>2, BridgeStep DEF StackInv
<1> QED
  BY <1>1, <1>2 DEF StackInv

(* Whatever the connection does, and however writes and reads cut them,    *)
(* the bytes between the sender and the receiver are those of the units    *)
(* sent and not yet returned, in order (FramedTransport, recv_signal,      *)
(* MessageBuffer); those of a bridge too, unless a write that was dropped  *)
(* half way has been sent again (TransportBridge::poll_write).             *)
THEOREM StreamIsIntact == Spec => []BytesInOrder
<1>1. Init => StackInv
  BY StackInitial
<1>2. StackInv /\ [Next]_vars => StackInv'
  BY StackStep
<1>3. StackInv => BytesInOrder
  BY OrderFollows, BridgeOrder DEF StackInv
<1> QED
  BY <1>1, <1>2, <1>3, PTL DEF Spec

(* What was accepted comes out whole, in order and once, or, when the      *)
(* connection fails, not at all from some unit on: try_push, try_pop,      *)
(* poll_read and everything under them lose nothing, and invent nothing.   *)
(* A bridge's reader is told of each unit once even when bytes of it were  *)
(* sent again.                                                             *)
THEOREM StackImplementsQueue == Spec => FrameQueueSpec
<1>1. Init => StackInv
  BY StackInitial
<1>2. StackInv /\ [Next]_vars => StackInv'
  BY StackStep
<1>3. Init => Queue!Init
  BY DEF Init, Queue!Init
<1>4. StackInv /\ [Next]_vars => [Queue!Next]_(Queue!vars)
  <2>1. FrameInv /\ [Next]_vars => [Queue!Next]_(Queue!vars)
    BY QueueStep
  <2>2. BridgeInv /\ [Next]_vars => [Queue!Next]_(Queue!vars)
    BY BridgeQueueStep
  <2> QED BY <2>1, <2>2, Zenon DEF StackInv
<1> QED
  BY <1>1, <1>2, <1>3, <1>4, PTL DEF Spec, FrameQueueSpec, Queue!Spec

(* recv_frame never buffers more than one read past the largest frame it   *)
(* accepts, nor a bridge a whole read; the inbound buffer keeps both its   *)
(* caps and its books, and a callback's queue has room before it is        *)
(* filled.                                                                 *)
THEOREM MemoryIsBounded == Spec => []MemoryBounded
<1>1. Init => StackInv
  BY StackInitial
<1>2. StackInv /\ [Next]_vars => StackInv'
  BY StackStep
<1>3. StackInv => MemoryBounded
  BY MemoryFollows, BridgeBounds DEF StackInv
<1> QED
  BY <1>1, <1>2, <1>3, PTL DEF Spec

(* The types of the stream, for any units and caps.                        *)
THEOREM StreamTypeCorrect == Spec => []TypeOK
<1>1. Init => StackInv
  BY StackInitial
<1>2. StackInv /\ [Next]_vars => StackInv'
  BY StackStep
<1>3. StackInv => TypeOK
  BY MemoryFollows, BridgeBounds DEF StackInv
<1> QED
  BY <1>1, <1>2, <1>3, PTL DEF Spec
=============================================================================
