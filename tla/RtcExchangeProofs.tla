-------------------------- MODULE RtcExchangeProofs --------------------------
(* Proofs about RtcExchange, for any pairs of implementations and any      *)
(* numbers of candidates and messages.                                     *)
EXTENDS RtcExchange, SequenceTheorems, TLAPS

-----------------------------------------------------------------------------
(* Lines of messages: what is in them, and in which order.                 *)

KindsIn(s) == {s[i].kind : i \in DOMAIN s}
IceIn(s) == {s[i].n : i \in {j \in DOMAIN s : s[j].kind = "ICE"}}

(* Every message of kind b comes before every message of kind a.           *)
Precedes(s, b, a) ==
  \A i, j \in DOMAIN s : s[i].kind = a /\ s[j].kind = b => j < i

(* Candidates and ICE_DONE come behind an answer.                          *)
BehindAnswer(s) ==
  \A i \in DOMAIN s : s[i].kind \in {"ICE", "ICE_DONE"} =>
    \E j \in DOMAIN s : j < i /\ s[j].kind = "ANSWER"

(* With the candidates in got, those in front of an ICE_DONE are all n.    *)
DoneIsLast(s, got, n) ==
  \A i \in DOMAIN s : s[i].kind = "ICE_DONE" =>
    \A m \in 1..n : m \in got \/ \E j \in DOMAIN s : j < i /\ s[j].kind = "ICE" /\ s[j].n = m

(* The data is numbered upwards, above lo and not above hi.                *)
DataRises(s, lo, hi) ==
  /\ \A i \in DOMAIN s : s[i].kind = "DATA" => s[i].n \in (lo + 1)..hi
  /\ \A i, j \in DOMAIN s : s[i].kind = "DATA" /\ s[j].kind = "DATA" /\ i < j => s[i].n < s[j].n

LEMMA EmptyLine ==
  /\ KindsIn(<<>>) = {} /\ IceIn(<<>>) = {} /\ BehindAnswer(<<>>)
  /\ \A a, b : Precedes(<<>>, b, a)
  /\ \A got, n : DoneIsLast(<<>>, got, n)
  /\ \A lo, hi : DataRises(<<>>, lo, hi)
  BY DEF KindsIn, IceIn, BehindAnswer, Precedes, DoneIsLast, DataRises

LEMMA IceMember ==
  ASSUME NEW s, NEW m
  PROVE  m \in IceIn(s) <=> \E i \in DOMAIN s : s[i].kind = "ICE" /\ s[i].n = m
  BY DEF IceIn

LEMMA PlacesInConcat ==
  ASSUME NEW S, NEW s \in Seq(S), NEW t \in Seq(S)
  PROVE  /\ s \o t \in Seq(S) /\ DOMAIN s \subseteq Nat /\ DOMAIN t \subseteq Nat
         /\ Len(s) \in Nat /\ \A i \in DOMAIN s : i <= Len(s)
         /\ \A i \in DOMAIN s : i \in DOMAIN (s \o t) /\ (s \o t)[i] = s[i]
         /\ \A i \in DOMAIN t : /\ Len(s) + i \in DOMAIN (s \o t)
                                /\ (s \o t)[Len(s) + i] = t[i] /\ i > 0
         /\ \A i \in DOMAIN (s \o t) :
              \/ i \in DOMAIN s
              \/ \E j \in DOMAIN t : i = Len(s) + j
<1>1. /\ DOMAIN s = 1..Len(s) /\ DOMAIN t = 1..Len(t) /\ Len(s) \in Nat /\ Len(t) \in Nat
  OBVIOUS
<1>2. s \o t \in Seq(S) /\ Len(s \o t) = Len(s) + Len(t)
  BY ConcatProperties
<1>3. DOMAIN (s \o t) = 1..(Len(s) + Len(t))
  BY <1>2
<1>4. \A i \in 1..(Len(s) + Len(t)) :
        (s \o t)[i] = IF i <= Len(s) THEN s[i] ELSE t[i - Len(s)]
  BY ConcatProperties
<1>5. \A i \in DOMAIN s : i \in DOMAIN (s \o t) /\ (s \o t)[i] = s[i]
  BY <1>1, <1>3, <1>4
<1>6. ASSUME NEW i \in DOMAIN t
      PROVE  /\ Len(s) + i \in DOMAIN (s \o t)
             /\ (s \o t)[Len(s) + i] = t[i] /\ i > 0
  <2>1. Len(s) + i \in 1..(Len(s) + Len(t)) /\ ~(Len(s) + i <= Len(s)) /\ (Len(s) + i) - Len(s) = i
    BY <1>1
  <2>2. QED BY <1>1, <1>3, <1>4, <2>1
<1>7. ASSUME NEW i \in DOMAIN (s \o t), i \notin DOMAIN s
      PROVE  \E j \in DOMAIN t : i = Len(s) + j
  <2>1. i - Len(s) \in 1..Len(t) /\ i = Len(s) + (i - Len(s))
    BY <1>1, <1>3, <1>7
  <2>2. QED BY <1>1, <2>1
<1>8. QED BY <1>1, <1>2, <1>5, <1>6, <1>7

LEMMA PlacesInTail ==
  ASSUME NEW S, NEW s \in Seq(S), s # <<>>
  PROVE  /\ Tail(s) \in Seq(S) /\ DOMAIN s \subseteq Nat /\ DOMAIN Tail(s) \subseteq Nat
         /\ 1 \in DOMAIN s /\ Head(s) = s[1]
         /\ \A i \in DOMAIN Tail(s) : i + 1 \in DOMAIN s /\ Tail(s)[i] = s[i + 1]
         /\ \A i \in DOMAIN s : i = 1 \/ (i - 1 \in DOMAIN Tail(s) /\ Tail(s)[i - 1] = s[i])
<1>1. DOMAIN s = 1..Len(s) /\ Len(s) \in Nat /\ Len(s) >= 1 /\ Head(s) = s[1]
  OBVIOUS
<1>2. /\ Tail(s) \in Seq(S) /\ Len(Tail(s)) = Len(s) - 1
      /\ \A i \in 1..Len(Tail(s)) : Tail(s)[i] = s[i + 1]
  BY HeadTailProperties
<1>3. DOMAIN Tail(s) = 1..(Len(s) - 1)
  BY <1>2
<1>4. \A i \in DOMAIN Tail(s) : i + 1 \in DOMAIN s /\ Tail(s)[i] = s[i + 1]
  BY <1>1, <1>2, <1>3
<1>5. ASSUME NEW i \in DOMAIN s, i # 1
      PROVE  i - 1 \in DOMAIN Tail(s) /\ Tail(s)[i - 1] = s[i]
  <2>1. i - 1 \in 1..(Len(s) - 1) /\ (i - 1) + 1 = i
    BY <1>1, <1>5
  <2>2. QED BY <1>3, <1>4, <2>1
<1>6. QED BY <1>1, <1>2, <1>3, <1>4, <1>5

LEMMA PlacesInPrefix ==
  ASSUME NEW S, NEW s \in Seq(S), NEW n \in 0..Len(s)
  PROVE  /\ SubSeq(s, 1, n) \in Seq(S) /\ DOMAIN s \subseteq Nat
         /\ \A i \in DOMAIN SubSeq(s, 1, n) : i \in DOMAIN s /\ SubSeq(s, 1, n)[i] = s[i]
         /\ \A i \in DOMAIN SubSeq(s, 1, n), j \in DOMAIN s :
              j < i => j \in DOMAIN SubSeq(s, 1, n)
<1>1. DOMAIN s = 1..Len(s) /\ Len(s) \in Nat
  OBVIOUS
<1>2. \A i \in 1..n : s[i] \in S
  BY <1>1
<1>3. /\ SubSeq(s, 1, n) \in Seq(S) /\ Len(SubSeq(s, 1, n)) = n
      /\ \A i \in 1..n : SubSeq(s, 1, n)[i] = s[i]
  BY <1>1, <1>2, SubSeqProperties
<1>4. DOMAIN SubSeq(s, 1, n) = 1..n
  BY <1>3
<1>5. QED BY <1>1, <1>3, <1>4

(* What a line holds when messages are added behind, ... *)
LEMMA ConcatHolds ==
  ASSUME NEW S, NEW s \in Seq(S), NEW t \in Seq(S)
  PROVE  /\ KindsIn(s \o t) = KindsIn(s) \cup KindsIn(t)
         /\ IceIn(s \o t) = IceIn(s) \cup IceIn(t)
<1>1. /\ \A i \in DOMAIN s : i \in DOMAIN (s \o t) /\ (s \o t)[i] = s[i]
      /\ \A i \in DOMAIN t : Len(s) + i \in DOMAIN (s \o t) /\ (s \o t)[Len(s) + i] = t[i]
      /\ \A i \in DOMAIN (s \o t) : i \in DOMAIN s \/ \E j \in DOMAIN t : i = Len(s) + j
  BY PlacesInConcat, SMTT(30)
<1>2. KindsIn(s \o t) = KindsIn(s) \cup KindsIn(t)
  <2>1. \A k \in KindsIn(s \o t) : k \in KindsIn(s) \cup KindsIn(t)
    BY <1>1 DEF KindsIn
  <2>2. \A k \in KindsIn(s) \cup KindsIn(t) : k \in KindsIn(s \o t)
    BY <1>1, ZenonT(40) DEF KindsIn
  <2>3. QED BY <2>1, <2>2
<1>3. IceIn(s \o t) = IceIn(s) \cup IceIn(t)
  <2>1. \A k \in IceIn(s \o t) : k \in IceIn(s) \cup IceIn(t)
    BY <1>1 DEF IceIn
  <2>2. ASSUME NEW k \in IceIn(s) PROVE k \in IceIn(s \o t)
    <3>1. PICK i \in DOMAIN s : s[i].kind = "ICE" /\ s[i].n = k
      BY <2>2, IceMember
    <3>2. i \in DOMAIN (s \o t) /\ (s \o t)[i] = s[i]
      BY <1>1, <3>1
    <3>3. QED BY <3>1, <3>2, IceMember, ZenonT(40)
  <2>3. ASSUME NEW k \in IceIn(t) PROVE k \in IceIn(s \o t)
    <3>1. PICK i \in DOMAIN t : t[i].kind = "ICE" /\ t[i].n = k
      BY <2>3, IceMember
    <3> DEFINE x == Len(s) + i
    <3>2. x \in DOMAIN (s \o t) /\ (s \o t)[x] = t[i]
      BY <1>1, <3>1
    <3> HIDE DEF x
    <3>3. QED BY <3>1, <3>2, IceMember, ZenonT(40)
  <2>4. QED BY <2>1, <2>2, <2>3
<1>4. QED BY <1>2, <1>3

(* ... when the first one is taken, ... *)
LEMMA TailHolds ==
  ASSUME NEW S, NEW s \in Seq(S), s # <<>>
  PROVE  /\ KindsIn(s) = {Head(s).kind} \cup KindsIn(Tail(s))
         /\ IceIn(s) = (IF Head(s).kind = "ICE" THEN {Head(s).n} ELSE {}) \cup IceIn(Tail(s))
<1>1. /\ 1 \in DOMAIN s /\ Head(s) = s[1]
      /\ \A i \in DOMAIN Tail(s) : i + 1 \in DOMAIN s /\ Tail(s)[i] = s[i + 1]
      /\ \A i \in DOMAIN s : i = 1 \/ (i - 1 \in DOMAIN Tail(s) /\ Tail(s)[i - 1] = s[i])
  BY PlacesInTail
<1>2. KindsIn(s) = {Head(s).kind} \cup KindsIn(Tail(s))
  <2>1. \A k \in KindsIn(s) : k \in {Head(s).kind} \cup KindsIn(Tail(s))
    BY <1>1, SMTT(30) DEF KindsIn
  <2>2. \A k \in {Head(s).kind} \cup KindsIn(Tail(s)) : k \in KindsIn(s)
    BY <1>1 DEF KindsIn
  <2>3. QED BY <2>1, <2>2
<1>3. IceIn(s) = (IF Head(s).kind = "ICE" THEN {Head(s).n} ELSE {}) \cup IceIn(Tail(s))
  <2>1. \A k \in IceIn(s) :
          k \in (IF Head(s).kind = "ICE" THEN {Head(s).n} ELSE {}) \cup IceIn(Tail(s))
    <3> TAKE k \in IceIn(s)
    <3>1. PICK i \in DOMAIN s : s[i].kind = "ICE" /\ s[i].n = k
      BY IceMember
    <3>2. CASE i = 1
      BY <1>1, <3>1, <3>2
    <3>3. CASE i # 1
      <4> DEFINE x == i - 1
      <4>1. x \in DOMAIN Tail(s) /\ Tail(s)[x] = s[i]
        BY <1>1, <3>1, <3>3
      <4> HIDE DEF x
      <4>2. k \in IceIn(Tail(s))
        BY <3>1, <4>1, IceMember, ZenonT(40)
      <4>3. QED BY <4>2
    <3>4. QED BY <3>2, <3>3
  <2>2. \A k \in IceIn(Tail(s)) : k \in IceIn(s)
    BY <1>1 DEF IceIn
  <2>3. Head(s).kind = "ICE" => Head(s).n \in IceIn(s)
    BY <1>1 DEF IceIn
  <2>4. QED BY <2>1, <2>2, <2>3
<1>4. QED BY <1>2, <1>3

(* ... and when the end is lost. *)
LEMMA PrefixHolds ==
  ASSUME NEW S, NEW s \in Seq(S), NEW n \in 0..Len(s)
  PROVE  /\ KindsIn(SubSeq(s, 1, n)) \subseteq KindsIn(s)
         /\ IceIn(SubSeq(s, 1, n)) \subseteq IceIn(s)
  BY PlacesInPrefix DEF KindsIn, IceIn

LEMMA ConcatPrecedes ==
  ASSUME NEW S, NEW s \in Seq(S), NEW t \in Seq(S), NEW a, NEW b
  PROVE  /\ Precedes(s, b, a) /\ b \notin KindsIn(t) => Precedes(s \o t, b, a)
         /\ a \notin KindsIn(s) /\ Precedes(t, b, a) => Precedes(s \o t, b, a)
<1>1. /\ DOMAIN s \subseteq Nat /\ DOMAIN t \subseteq Nat /\ Len(s) \in Nat
      /\ \A i \in DOMAIN s : i <= Len(s) /\ (s \o t)[i] = s[i]
      /\ \A i \in DOMAIN t : (s \o t)[Len(s) + i] = t[i] /\ i > 0
      /\ \A i \in DOMAIN (s \o t) : i \in DOMAIN s \/ \E j \in DOMAIN t : i = Len(s) + j
  BY PlacesInConcat, SMTT(30)
<1>2. ASSUME Precedes(s, b, a), b \notin KindsIn(t)
      PROVE  Precedes(s \o t, b, a)
  <2> SUFFICES ASSUME NEW i \in DOMAIN (s \o t), NEW j \in DOMAIN (s \o t),
                      (s \o t)[i].kind = a, (s \o t)[j].kind = b
               PROVE  j < i
    BY DEF Precedes
  <2>1. j \in DOMAIN s
    BY <1>1, <1>2 DEF KindsIn
  <2>2. CASE i \in DOMAIN s
    BY <1>1, <1>2, <2>1, <2>2 DEF Precedes
  <2>3. CASE i \notin DOMAIN s
    BY <1>1, <2>1, <2>3
  <2>4. QED BY <2>2, <2>3
<1>3. ASSUME a \notin KindsIn(s), Precedes(t, b, a)
      PROVE  Precedes(s \o t, b, a)
  <2> SUFFICES ASSUME NEW i \in DOMAIN (s \o t), NEW j \in DOMAIN (s \o t),
                      (s \o t)[i].kind = a, (s \o t)[j].kind = b
               PROVE  j < i
    BY DEF Precedes
  <2>1. PICK x \in DOMAIN t : i = Len(s) + x
    BY <1>1, <1>3 DEF KindsIn
  <2>2. CASE j \in DOMAIN s
    BY <1>1, <2>1, <2>2
  <2>3. CASE j \notin DOMAIN s
    <3>1. PICK y \in DOMAIN t : j = Len(s) + y
      BY <1>1, <2>3
    <3>2. y < x
      BY <1>1, <1>3, <2>1, <3>1 DEF Precedes
    <3>3. QED BY <1>1, <2>1, <3>1, <3>2
  <2>4. QED BY <2>2, <2>3
<1>4. QED BY <1>2, <1>3

LEMMA TailPrecedes ==
  ASSUME NEW S, NEW s \in Seq(S), s # <<>>, NEW a, NEW b, Precedes(s, b, a)
  PROVE  Precedes(Tail(s), b, a)
<1>1. /\ DOMAIN Tail(s) \subseteq Nat
      /\ \A i \in DOMAIN Tail(s) : i + 1 \in DOMAIN s /\ Tail(s)[i] = s[i + 1]
  BY PlacesInTail
<1> SUFFICES ASSUME NEW i \in DOMAIN Tail(s), NEW j \in DOMAIN Tail(s),
                    Tail(s)[i].kind = a, Tail(s)[j].kind = b
             PROVE  j < i
  BY DEF Precedes
<1>2. j + 1 < i + 1
  BY <1>1 DEF Precedes
<1>3. QED BY <1>1, <1>2

LEMMA PrefixPrecedes ==
  ASSUME NEW S, NEW s \in Seq(S), NEW n \in 0..Len(s), NEW a, NEW b, Precedes(s, b, a)
  PROVE  Precedes(SubSeq(s, 1, n), b, a)
  BY PlacesInPrefix DEF Precedes

LEMMA NothingBefore ==
  ASSUME NEW S, NEW s \in Seq(S), s # <<>>, NEW a, NEW b, Precedes(s, b, a), Head(s).kind = a
  PROVE  b \notin KindsIn(s)
<1>1. 1 \in DOMAIN s /\ Head(s) = s[1]
  BY PlacesInTail
<1>2. \A i \in DOMAIN s : ~(i < 1)
  OBVIOUS
<1>3. QED BY <1>1, <1>2 DEF Precedes, KindsIn

LEMMA ConcatBehind ==
  ASSUME NEW S, NEW s \in Seq(S), NEW t \in Seq(S), BehindAnswer(s)
  PROVE  /\ "ANSWER" \in KindsIn(s) => BehindAnswer(s \o t)
         /\ BehindAnswer(t) => BehindAnswer(s \o t)
<1>1. /\ DOMAIN s \subseteq Nat /\ DOMAIN t \subseteq Nat /\ Len(s) \in Nat
      /\ \A i \in DOMAIN s : i <= Len(s) /\ i \in DOMAIN (s \o t) /\ (s \o t)[i] = s[i]
      /\ \A i \in DOMAIN t : /\ Len(s) + i \in DOMAIN (s \o t)
                             /\ (s \o t)[Len(s) + i] = t[i] /\ i > 0
      /\ \A i \in DOMAIN (s \o t) : i \in DOMAIN s \/ \E j \in DOMAIN t : i = Len(s) + j
  BY PlacesInConcat, SMTT(30)
<1>2. ASSUME NEW i \in DOMAIN s, s[i].kind \in {"ICE", "ICE_DONE"}
      PROVE  \E j \in DOMAIN (s \o t) : j < i /\ (s \o t)[j].kind = "ANSWER"
  BY <1>1, <1>2 DEF BehindAnswer
<1>3. ASSUME "ANSWER" \in KindsIn(s) PROVE BehindAnswer(s \o t)
  <2>1. PICK j \in DOMAIN s : s[j].kind = "ANSWER"
    BY <1>3 DEF KindsIn
  <2>2. \A x \in DOMAIN t : j < Len(s) + x
    BY <1>1, <2>1
  <2>3. QED BY <1>1, <1>2, <2>1, <2>2 DEF BehindAnswer
<1>4. ASSUME BehindAnswer(t) PROVE BehindAnswer(s \o t)
  <2>1. ASSUME NEW x \in DOMAIN t, t[x].kind \in {"ICE", "ICE_DONE"}
        PROVE  \E j \in DOMAIN (s \o t) : j < Len(s) + x /\ (s \o t)[j].kind = "ANSWER"
    <3>1. PICK y \in DOMAIN t : y < x /\ t[y].kind = "ANSWER"
      BY <1>4, <2>1 DEF BehindAnswer
    <3>2. Len(s) + y < Len(s) + x
      BY <1>1, <3>1
    <3>3. QED BY <1>1, <3>1, <3>2
  <2>2. QED BY <1>1, <1>2, <2>1 DEF BehindAnswer
<1>5. QED BY <1>3, <1>4

LEMMA TailBehind ==
  ASSUME NEW S, NEW s \in Seq(S), s # <<>>, BehindAnswer(s)
  PROVE  /\ Head(s).kind \notin {"ICE", "ICE_DONE"}
         /\ Head(s).kind # "ANSWER" => BehindAnswer(Tail(s))
<1>1. /\ 1 \in DOMAIN s /\ Head(s) = s[1] /\ DOMAIN s \subseteq Nat /\ DOMAIN Tail(s) \subseteq Nat
      /\ \A i \in DOMAIN Tail(s) : i + 1 \in DOMAIN s /\ Tail(s)[i] = s[i + 1]
      /\ \A i \in DOMAIN s : i = 1 \/ (i - 1 \in DOMAIN Tail(s) /\ Tail(s)[i - 1] = s[i])
  BY PlacesInTail
<1>2. \A i \in DOMAIN s : 1 <= i
  OBVIOUS
<1>3. Head(s).kind \notin {"ICE", "ICE_DONE"}
  BY <1>1, <1>2 DEF BehindAnswer
<1>4. ASSUME Head(s).kind # "ANSWER",
             NEW i \in DOMAIN Tail(s), Tail(s)[i].kind \in {"ICE", "ICE_DONE"}
      PROVE  \E j \in DOMAIN Tail(s) : j < i /\ Tail(s)[j].kind = "ANSWER"
  <2>1. PICK j \in DOMAIN s : j < i + 1 /\ s[j].kind = "ANSWER"
    BY <1>1, <1>4 DEF BehindAnswer
  <2>2. j # 1
    BY <1>1, <1>4, <2>1
  <2>3. j - 1 < i
    BY <1>1, <2>1
  <2>4. QED BY <1>1, <2>1, <2>2, <2>3
<1>5. QED BY <1>3, <1>4 DEF BehindAnswer

LEMMA PrefixBehind ==
  ASSUME NEW S, NEW s \in Seq(S), NEW n \in 0..Len(s), BehindAnswer(s)
  PROVE  BehindAnswer(SubSeq(s, 1, n))
<1>1. /\ \A i \in DOMAIN SubSeq(s, 1, n) : i \in DOMAIN s /\ SubSeq(s, 1, n)[i] = s[i]
      /\ \A i \in DOMAIN SubSeq(s, 1, n), j \in DOMAIN s :
           j < i => j \in DOMAIN SubSeq(s, 1, n)
  BY PlacesInPrefix
<1>2. ASSUME NEW i \in DOMAIN SubSeq(s, 1, n), SubSeq(s, 1, n)[i].kind \in {"ICE", "ICE_DONE"}
      PROVE  \E j \in DOMAIN SubSeq(s, 1, n) : j < i /\ SubSeq(s, 1, n)[j].kind = "ANSWER"
  <2>1. PICK j \in DOMAIN s : j < i /\ s[j].kind = "ANSWER"
    BY <1>1, <1>2 DEF BehindAnswer
  <2>2. QED BY <1>1, <2>1
<1>3. QED BY <1>2 DEF BehindAnswer

LEMMA ConcatDone ==
  ASSUME NEW S, NEW s \in Seq(S), NEW t \in Seq(S), NEW got, NEW n, DoneIsLast(s, got, n)
  PROVE  /\ "ICE_DONE" \notin KindsIn(t) => DoneIsLast(s \o t, got, n)
         /\ 1..n \subseteq got \cup IceIn(s) => DoneIsLast(s \o t, got, n)
<1>1. /\ DOMAIN s \subseteq Nat /\ DOMAIN t \subseteq Nat /\ Len(s) \in Nat
      /\ \A i \in DOMAIN s : i <= Len(s) /\ i \in DOMAIN (s \o t) /\ (s \o t)[i] = s[i]
      /\ \A i \in DOMAIN t : (s \o t)[Len(s) + i] = t[i] /\ i > 0
      /\ \A i \in DOMAIN (s \o t) : i \in DOMAIN s \/ \E j \in DOMAIN t : i = Len(s) + j
  BY PlacesInConcat, SMTT(30)
<1>2. ASSUME NEW i \in DOMAIN s, s[i].kind = "ICE_DONE", NEW m \in 1..n
      PROVE  m \in got \/ \E j \in DOMAIN (s \o t) : /\ j < i /\ (s \o t)[j].kind = "ICE"
                                                   /\ (s \o t)[j].n = m
  BY <1>1, <1>2 DEF DoneIsLast
<1>3. ASSUME "ICE_DONE" \notin KindsIn(t) PROVE DoneIsLast(s \o t, got, n)
  <2>1. \A i \in DOMAIN (s \o t) : (s \o t)[i].kind = "ICE_DONE" => i \in DOMAIN s /\ s[i].kind = "ICE_DONE"
    BY <1>1, <1>3 DEF KindsIn
  <2>2. QED BY <1>2, <2>1 DEF DoneIsLast
<1>4. ASSUME 1..n \subseteq got \cup IceIn(s) PROVE DoneIsLast(s \o t, got, n)
  <2>1. ASSUME NEW x \in DOMAIN t, NEW m \in 1..n
        PROVE  m \in got \/ \E j \in DOMAIN (s \o t) : /\ j < Len(s) + x
                                                     /\ (s \o t)[j].kind = "ICE"
                                                     /\ (s \o t)[j].n = m
    <3>1. CASE m \in IceIn(s)
      <4>1. PICK j \in DOMAIN s : s[j].kind = "ICE" /\ s[j].n = m
        BY <3>1 DEF IceIn
      <4>2. j < Len(s) + x
        BY <1>1, <4>1
      <4>3. QED BY <1>1, <4>1, <4>2
    <3>2. QED BY <1>4, <3>1
  <2>2. QED BY <1>1, <1>2, <2>1, SMTT(30) DEF DoneIsLast
<1>5. QED BY <1>3, <1>4

LEMMA TailDone ==
  ASSUME NEW S, NEW s \in Seq(S), s # <<>>, NEW got, NEW more, NEW n,
         DoneIsLast(s, got, n), got \subseteq more,
         Head(s).kind = "ICE" => Head(s).n \in more
  PROVE  /\ DoneIsLast(Tail(s), more, n)
         /\ Head(s).kind = "ICE_DONE" => 1..n \subseteq got
<1>1. /\ 1 \in DOMAIN s /\ Head(s) = s[1] /\ DOMAIN s \subseteq Nat /\ DOMAIN Tail(s) \subseteq Nat
      /\ \A i \in DOMAIN Tail(s) : i + 1 \in DOMAIN s /\ Tail(s)[i] = s[i + 1]
      /\ \A i \in DOMAIN s : i = 1 \/ (i - 1 \in DOMAIN Tail(s) /\ Tail(s)[i - 1] = s[i])
  BY PlacesInTail
<1>2. \A i \in DOMAIN s : 1 <= i
  OBVIOUS
<1>3. ASSUME NEW i \in DOMAIN Tail(s), Tail(s)[i].kind = "ICE_DONE", NEW m \in 1..n, m \notin more
      PROVE  \E j \in DOMAIN Tail(s) : j < i /\ Tail(s)[j].kind = "ICE" /\ Tail(s)[j].n = m
  <2>1. PICK j \in DOMAIN s : j < i + 1 /\ s[j].kind = "ICE" /\ s[j].n = m
    BY <1>1, <1>3 DEF DoneIsLast
  <2>2. j # 1
    BY <1>1, <1>3, <2>1
  <2>3. j - 1 < i
    BY <1>1, <2>1
  <2>4. QED BY <1>1, <2>1, <2>2, <2>3
<1>4. DoneIsLast(Tail(s), more, n)
  BY <1>3 DEF DoneIsLast
<1>5. ASSUME Head(s).kind = "ICE_DONE", NEW m \in 1..n PROVE m \in got
  <2>1. \A j \in DOMAIN s : ~(j < 1)
    BY <1>1, <1>2
  <2>2. QED BY <1>1, <1>5, <2>1 DEF DoneIsLast
<1>6. QED BY <1>4, <1>5

LEMMA PrefixDone ==
  ASSUME NEW S, NEW s \in Seq(S), NEW k \in 0..Len(s), NEW got, NEW n, DoneIsLast(s, got, n)
  PROVE  DoneIsLast(SubSeq(s, 1, k), got, n)
<1>1. /\ \A i \in DOMAIN SubSeq(s, 1, k) : i \in DOMAIN s /\ SubSeq(s, 1, k)[i] = s[i]
      /\ \A i \in DOMAIN SubSeq(s, 1, k), j \in DOMAIN s :
           j < i => j \in DOMAIN SubSeq(s, 1, k)
  BY PlacesInPrefix
<1>2. ASSUME NEW i \in DOMAIN SubSeq(s, 1, k), SubSeq(s, 1, k)[i].kind = "ICE_DONE",
             NEW m \in 1..n, m \notin got
      PROVE  \E j \in DOMAIN SubSeq(s, 1, k) :
               j < i /\ SubSeq(s, 1, k)[j].kind = "ICE" /\ SubSeq(s, 1, k)[j].n = m
  <2>1. PICK j \in DOMAIN s : j < i /\ s[j].kind = "ICE" /\ s[j].n = m
    BY <1>1, <1>2 DEF DoneIsLast
  <2>2. QED BY <1>1, <2>1
<1>3. QED BY <1>2 DEF DoneIsLast

LEMMA ConcatRises ==
  ASSUME NEW S, NEW s \in Seq(S), NEW t \in Seq(S), NEW lo \in Nat, NEW hi \in Nat,
         DataRises(s, lo, hi)
  PROVE  /\ "DATA" \notin KindsIn(t) => DataRises(s \o t, lo, hi)
         /\ (/\ lo <= hi
             /\ \A i \in DOMAIN t : t[i].kind = "DATA" => t[i].n = hi + 1
             /\ \A i, j \in DOMAIN t : t[i].kind = "DATA" /\ t[j].kind = "DATA" => i = j)
            => DataRises(s \o t, lo, hi + 1)
<1>1. /\ DOMAIN s \subseteq Nat /\ DOMAIN t \subseteq Nat /\ Len(s) \in Nat
      /\ \A i \in DOMAIN s : i <= Len(s) /\ (s \o t)[i] = s[i]
      /\ \A i \in DOMAIN t : (s \o t)[Len(s) + i] = t[i] /\ i > 0
      /\ \A i \in DOMAIN (s \o t) : i \in DOMAIN s \/ \E j \in DOMAIN t : i = Len(s) + j
  BY PlacesInConcat, SMTT(30)
<1>2. /\ \A i \in DOMAIN s : s[i].kind = "DATA" => s[i].n \in (lo + 1)..hi
      /\ \A i, j \in DOMAIN s :
           s[i].kind = "DATA" /\ s[j].kind = "DATA" /\ i < j => s[i].n < s[j].n
  BY DEF DataRises
<1>3. ASSUME "DATA" \notin KindsIn(t) PROVE DataRises(s \o t, lo, hi)
  <2>1. \A i \in DOMAIN (s \o t) : (s \o t)[i].kind = "DATA" => i \in DOMAIN s
    BY <1>1, <1>3 DEF KindsIn
  <2>2. QED BY <1>1, <1>2, <2>1 DEF DataRises
<1>4. ASSUME lo <= hi, \A i \in DOMAIN t : t[i].kind = "DATA" => t[i].n = hi + 1,
             \A i, j \in DOMAIN t : t[i].kind = "DATA" /\ t[j].kind = "DATA" => i = j
      PROVE  DataRises(s \o t, lo, hi + 1)
  <2>1. ASSUME NEW i \in DOMAIN (s \o t), (s \o t)[i].kind = "DATA"
        PROVE  (s \o t)[i].n \in (lo + 1)..(hi + 1)
    <3>1. CASE i \in DOMAIN s
      BY <1>1, <1>2, <2>1, <3>1
    <3>2. CASE i \notin DOMAIN s
      BY <1>1, <1>4, <2>1, <3>2
    <3>3. QED BY <3>1, <3>2
  <2>2. ASSUME NEW i \in DOMAIN (s \o t), NEW j \in DOMAIN (s \o t), i < j,
               (s \o t)[i].kind = "DATA", (s \o t)[j].kind = "DATA"
        PROVE  (s \o t)[i].n < (s \o t)[j].n
    <3>1. CASE j \in DOMAIN s
      <4>1. i \in DOMAIN s
        BY <1>1, <2>2, <3>1
      <4>2. QED BY <1>1, <1>2, <2>2, <3>1, <4>1
    <3>2. CASE j \notin DOMAIN s
      <4>1. PICK y \in DOMAIN t : j = Len(s) + y
        BY <1>1, <3>2
      <4>2. t[y].kind = "DATA" /\ (s \o t)[j].n = hi + 1
        BY <1>1, <1>4, <2>2, <4>1
      <4>3. i \in DOMAIN s
        <5>1. SUFFICES ASSUME NEW x \in DOMAIN t, i = Len(s) + x PROVE FALSE
          BY <1>1
        <5>2. t[x].kind = "DATA"
          BY <1>1, <2>2, <5>1
        <5>3. x = y
          BY <1>4, <4>2, <5>2
        <5>4. QED BY <1>1, <2>2, <4>1, <5>1, <5>3
      <4>4. (s \o t)[i].n \in (lo + 1)..hi
        BY <1>1, <1>2, <2>2, <4>3
      <4>5. QED BY <4>2, <4>4
    <3>3. QED BY <3>1, <3>2
  <2>3. QED BY <2>1, <2>2 DEF DataRises
<1>5. QED BY <1>3, <1>4

LEMMA TailRises ==
  ASSUME NEW S, NEW s \in Seq(S), s # <<>>, NEW lo \in Nat, NEW hi \in Nat, DataRises(s, lo, hi)
  PROVE  /\ DataRises(Tail(s), lo, hi)
         /\ Head(s).kind = "DATA" => lo + 1 <= hi /\ DataRises(Tail(s), lo + 1, hi)
<1>1. /\ DOMAIN Tail(s) \subseteq Nat /\ 1 \in DOMAIN s /\ Head(s) = s[1]
      /\ \A i \in DOMAIN Tail(s) : i + 1 \in DOMAIN s /\ Tail(s)[i] = s[i + 1] /\ 1 < i + 1
  <2>1. Tail(s) \in Seq(S)
    BY PlacesInTail
  <2>2. \A i \in DOMAIN Tail(s) : 1 < i + 1
    BY <2>1
  <2>3. QED BY <2>2, PlacesInTail
<1>2. /\ \A i \in DOMAIN s : s[i].kind = "DATA" => s[i].n \in (lo + 1)..hi
      /\ \A i, j \in DOMAIN s :
           s[i].kind = "DATA" /\ s[j].kind = "DATA" /\ i < j => s[i].n < s[j].n
  BY DEF DataRises
<1>3. \A i, j \in DOMAIN Tail(s) :
        Tail(s)[i].kind = "DATA" /\ Tail(s)[j].kind = "DATA" /\ i < j => Tail(s)[i].n < Tail(s)[j].n
  <2> TAKE i, j \in DOMAIN Tail(s)
  <2>1. i < j => i + 1 < j + 1
    BY <1>1
  <2>2. QED BY <1>1, <1>2, <2>1
<1>4. DataRises(Tail(s), lo, hi)
  BY <1>1, <1>2, <1>3 DEF DataRises
<1>5. ASSUME Head(s).kind = "DATA" PROVE lo + 1 <= hi /\ DataRises(Tail(s), lo + 1, hi)
  <2>1. s[1].kind = "DATA" /\ s[1].n \in (lo + 1)..hi
    BY <1>1, <1>2, <1>5
  <2>2. \A i \in DOMAIN Tail(s) : Tail(s)[i].kind = "DATA" => s[1].n < Tail(s)[i].n
    BY <1>1, <1>2, <2>1
  <2>3. \A i \in DOMAIN Tail(s) : Tail(s)[i].kind = "DATA" => Tail(s)[i].n \in (lo + 1)..hi
    BY <1>1, <1>2
  <2>4. \A i \in DOMAIN Tail(s) : Tail(s)[i].kind = "DATA" =>
                                     Tail(s)[i].n \in ((lo + 1) + 1)..hi
    BY <2>1, <2>2, <2>3
  <2>5. QED BY <1>3, <2>1, <2>4 DEF DataRises
<1>6. QED BY <1>4, <1>5

LEMMA PrefixRises ==
  ASSUME NEW S, NEW s \in Seq(S), NEW k \in 0..Len(s), NEW lo, NEW hi, DataRises(s, lo, hi)
  PROVE  DataRises(SubSeq(s, 1, k), lo, hi)
  BY PlacesInPrefix DEF DataRises

-----------------------------------------------------------------------------
(* The inductive invariant.                                                *)

(* The candidates a peer can make use of once they have crossed the relay. *)
Arriving == IF RelayAppendsNewline THEN {} ELSE 1..MaxIce

(* A candidate on its way is one of those that were gathered, and usable   *)
(* when the relay left it as it was.                                       *)
Message ==
  {m \in [kind : Kinds, n : 0..(MaxIce + MaxData), ok : BOOLEAN] :
     m.kind = "ICE" => m.n \in 1..MaxIce /\ m.ok = ~RelayAppendsNewline}

(* All of TypeOK except the lines. *)
StateTyped ==
  /\ platform \in [Peer -> Platform]
  /\ stage \in [Peer -> Stages]
  /\ why \in [Peer -> Reasons]
  /\ \A p \in Peer : (why[p] # "none") <=> (stage[p] = "failed")
  /\ link \in [Peer -> {"open", "cut", "left"}]
  /\ orphan \in [Peer -> BOOLEAN]
  /\ gather \in [Peer -> {"idle", "running", "over"}]
  /\ gathered \in [Peer -> 0..MaxIce]
  /\ forwarded \in [Peer -> 0..MaxIce]
  /\ \A p \in Peer : forwarded[p] <= gathered[p]
  /\ described \in [Peer -> BOOLEAN]
  /\ local_done \in [Peer -> BOOLEAN]
  /\ remote_done \in [Peer -> BOOLEAN]
  /\ pending_ice \in [Peer -> SUBSET Arriving]
  /\ applied \in [Peer -> SUBSET Arriving]
  /\ open \in BOOLEAN
  /\ said \in [Peer -> 0..MaxData]
  /\ heard \in [Peer -> 0..MaxData]

LinesTyped == chan \in [Peer -> Seq(Message)]

(* How far connect has got tells what it has done.                         *)
Control(p) ==
  /\ stage[p] \notin (IF p = "offerer" THEN {"await", "answering"}
                      ELSE {"describe", "offering"})
  /\ stage[p] \in {"describe", "await"} => gathered[p] = 0 /\ gather[p] = "idle"
  /\ stage[p] \in {"describe", "await", "offering", "answering"} =>
       forwarded[p] = 0 /\ ~local_done[p]
  /\ stage[p] \in {"describe", "await", "offering"} => ~described[p]
  /\ stage[p] \in {"answering", "channel", "connected"} => described[p]
  /\ p = "answerer" /\ stage[p] = "exchange" => described[p]
  /\ stage[p] \in {"channel", "connected"} => local_done[p] /\ (remote_done[p] \/ Browser(p))
  /\ local_done[p] =>
       IF Browser(p) THEN stage[p] \in {"channel", "connected", "failed"}
       ELSE forwarded[p] = gathered[p] /\ gather[p] = "over"
  /\ described[p] \/ stage[p] \notin {"await", "failed"} => pending_ice[p] = {}
  /\ open => described[p] /\ ~Wasi(p)

(* Who has dropped its signaling connection, and who has noticed.          *)
Links(p) ==
  /\ link[p] = "left" =>
       stage[p] = "failed" \/ (stage[p] = "connected" /\ ~Wasi(p) /\ open)
  /\ stage[p] = "failed" => link[p] = "left"
  /\ link[p] = "cut" => orphan[p]
  /\ orphan[p] => link[Other(p)] = "left"
  /\ "PEER_LEFT" \in KindsIn(chan[p]) => link[Other(p)] = "left"
  /\ Precedes(chan[p], "ICE_DONE", "PEER_LEFT")
  /\ "ICE_DONE" \in KindsIn(chan[p]) \/ remote_done[p] => local_done[Other(p)]

(* The answer is sent before any candidate of the answerer, and unless the *)
(* connection is lost it is on its way or has been taken.                  *)
AnswerInv ==
  LET line == chan["offerer"] IN
  /\ stage["answerer"] \in {"await", "answering"} =>
       KindsIn(line) \cap {"ANSWER", "ICE", "ICE_DONE"} = {}
  /\ Precedes(line, "ANSWER", "ICE")
  /\ ~described["offerer"] => BehindAnswer(line)
  /\ \/ stage["answerer"] \in {"await", "answering"}
     \/ link["offerer"] # "open" \/ link["answerer"] # "open"
     \/ described["offerer"] \/ "ANSWER" \in KindsIn(line)

(* A peer that left in good order: it is connected, and knows that the     *)
(* other has no more candidates.                                           *)
LeftWell(p) == stage[p] = "connected" /\ ~Wasi(p) /\ remote_done[p]

(* A peer whose ICE_DONE is recorded or on its way has left in good order. *)
LossInv(p) ==
  /\ orphan[p] /\ LeftWell(Other(p)) => Browser(p) /\ local_done[p]
  /\ (/\ Native(p) /\ stage[p] \notin {"channel", "connected", "failed"} /\ ~orphan[p]
      /\ local_done[Other(p)] /\ stage[Other(p)] # "failed")
     => remote_done[p] \/ "ICE_DONE" \in KindsIn(chan[p])
  /\ why[p] \in {"peer left", "closed"} =>
       \/ stage[Other(p)] = "failed"
       \/ stage[Other(p)] = "connected" /\ Browser(Other(p)) /\ ~remote_done[Other(p)]

(* The candidates a peer has, whether or not its agent has them yet.       *)
Got(p) == applied[p] \cup pending_ice[p]

(* Of a peer that sends ICE_DONE last: every candidate it has sent has     *)
(* arrived or is on its way, in front of its ICE_DONE.                     *)
CandInv(p) ==
  LET q == Other(p) IN
  ~RelayAppendsNewline /\ ~Wasi(p) /\ ~Browser(q) =>
    /\ \A i \in DOMAIN chan[p] : chan[p][i].ok
    /\ Got(p) \cup IceIn(chan[p]) \subseteq 1..gathered[q]
    /\ link[p] = "open" /\ link[q] = "open" =>
         1..forwarded[q] \subseteq Got(p) \cup IceIn(chan[p])
    /\ DoneIsLast(chan[p], Got(p), gathered[q])
    /\ remote_done[p] => 1..gathered[q] \subseteq Got(p)

(* What is heard was said: the DATA on its way to p are new to it.          *)
DataInv(p) ==
  /\ heard[p] <= said[Other(p)]
  /\ DataRises(chan[p], heard[p], said[Other(p)])

RtcInv ==
  /\ StateTyped /\ LinesTyped /\ AnswerInv
  /\ \A p \in Peer : Control(p) /\ Links(p) /\ LossInv(p) /\ CandInv(p) /\ DataInv(p)

-----------------------------------------------------------------------------
(* The types, peer by peer.                                                *)

LEMMA TwoPeers ==
  ASSUME NEW p \in Peer
  PROVE  /\ Other(p) \in Peer /\ Other(p) # p /\ Other(Other(p)) = p
         /\ \A r \in Peer : r = p \/ r = Other(p)
         /\ p = "offerer" <=> Other(p) = "answerer"
         /\ p = "answerer" <=> Other(p) = "offerer"
  BY DEF Peer, Other

LEMMA PeersAre == "offerer" \in Peer /\ "answerer" \in Peer
  BY DEF Peer

LEMMA TypesHold == ASSUME StateTyped, LinesTyped PROVE TypeOK
<1> DEFINE T == [kind : Kinds, n : 0..(MaxIce + MaxData), ok : BOOLEAN]
<1>1. Message \subseteq T
  BY DEF Message
<1> HIDE DEF T
<1>2. \A s \in Seq(Message) : s \in Seq(T)
  BY <1>1
<1>3. chan \in [Peer -> Seq(T)]
  BY <1>2 DEF LinesTyped
<1>4. Arriving \subseteq 1..MaxIce
  BY DEF Arriving
<1>5. pending_ice \in [Peer -> SUBSET (1..MaxIce)] /\ applied \in [Peer -> SUBSET (1..MaxIce)]
  BY <1>4 DEF StateTyped
<1>6. QED BY <1>3, <1>5 DEF TypeOK, StateTyped, T

LEMMA InitRtc == ASSUME Init PROVE RtcInv
<1> USE RtcAssumption
<1>0. \A p \in Peer :
        \/ /\ stage[p] = (IF p = "offerer" THEN "describe" ELSE "await")
           /\ why[p] = "none" /\ link[p] = "open"
        \/ stage[p] = "failed" /\ why[p] = "unannounced" /\ link[p] = "left"
  BY DEF Init
<1>1. \A p \in Peer : /\ orphan[p] = FALSE
                      /\ chan[p] = <<>> /\ gather[p] = "idle" /\ gathered[p] = 0
                      /\ forwarded[p] = 0 /\ described[p] = FALSE /\ local_done[p] = FALSE
                      /\ remote_done[p] = FALSE /\ pending_ice[p] = {} /\ applied[p] = {}
  BY DEF Init
<1>2. StateTyped
  <2>1. platform \in [Peer -> Platform]
    <3>1. PICK pair \in Pairings :
            platform = [p \in Peer |-> IF p = "offerer" THEN pair[1] ELSE pair[2]]
      BY DEF Init
    <3>2. pair[1] \in Platform /\ pair[2] \in Platform
      OBVIOUS
    <3>3. QED BY <3>1, <3>2
  <2>2. stage \in [Peer -> Stages] /\ why \in [Peer -> Reasons]
    <3>1. PICK gone \in GoneAtMatch :
            /\ stage = [p \in Peer |-> IF p \in gone THEN "failed"
                                       ELSE IF p = "offerer" THEN "describe" ELSE "await"]
            /\ why = [p \in Peer |-> IF p \in gone THEN "unannounced" ELSE "none"]
      BY DEF Init
    <3>2. QED BY <3>1 DEF Stages, Reasons
  <2>3. gathered \in [Peer -> 0..MaxIce] /\ forwarded \in [Peer -> 0..MaxIce]
        /\ said \in [Peer -> 0..MaxData] /\ heard \in [Peer -> 0..MaxData]
    BY DEF Init
  <2>4. link \in [Peer -> {"open", "cut", "left"}] /\ orphan \in [Peer -> BOOLEAN]
        /\ gather \in [Peer -> {"idle", "running", "over"}]
        /\ described \in [Peer -> BOOLEAN] /\ local_done \in [Peer -> BOOLEAN]
        /\ remote_done \in [Peer -> BOOLEAN] /\ open \in BOOLEAN
        /\ pending_ice \in [Peer -> SUBSET Arriving]
        /\ applied \in [Peer -> SUBSET Arriving]
    BY DEF Init
  <2>5. \A p \in Peer : forwarded[p] <= gathered[p]
    BY <1>1
  <2>6. \A p \in Peer : (why[p] # "none") <=> (stage[p] = "failed")
    BY <1>0
  <2>7. QED BY <2>1, <2>2, <2>3, <2>4, <2>5, <2>6 DEF StateTyped
<1>3. LinesTyped
  BY DEF Init, LinesTyped
<1>4. KindsIn(<<>>) = {} /\ IceIn(<<>>) = {} /\ BehindAnswer(<<>>)
      /\ \A a, b : Precedes(<<>>, b, a)
      /\ \A got, n : DoneIsLast(<<>>, got, n)
      /\ \A lo, hi : DataRises(<<>>, lo, hi)
  BY EmptyLine
<1>5. AnswerInv
  BY <1>0, <1>1, <1>4, PeersAre DEF AnswerInv
<1>6. ASSUME NEW p \in Peer PROVE Control(p)
  <2>1. open = FALSE
    BY DEF Init
  <2>2. QED BY <1>0, <1>1, <2>1 DEF Control, Peer
<1>7. ASSUME NEW p \in Peer PROVE Links(p) /\ LossInv(p)
  <2>1. /\ (link[p] = "left") <=> (stage[p] = "failed")
        /\ link[p] # "cut" /\ ~orphan[p]
        /\ chan[p] = <<>> /\ ~remote_done[p] /\ why[p] \notin {"peer left", "closed"}
        /\ ~local_done[Other(p)]
    BY <1>0, <1>1, TwoPeers
  <2>2. KindsIn(chan[p]) = {} /\ Precedes(chan[p], "ICE_DONE", "PEER_LEFT")
    BY <1>4, <2>1
  <2>3. Links(p)
    BY <2>1, <2>2 DEF Links
  <2>4. LossInv(p)
    BY <2>1 DEF LossInv
  <2>5. QED BY <2>3, <2>4
<1>8. ASSUME NEW p \in Peer PROVE CandInv(p)
  <2>1. Other(p) \in Peer /\ DOMAIN chan[p] = {}
    BY <1>1, TwoPeers
  <2>2. gathered[Other(p)] = 0 /\ forwarded[Other(p)] = 0 /\ ~remote_done[p] /\ Got(p) = {}
        /\ chan[p] = <<>>
    BY <1>1, <2>1 DEF Got
  <2>3. \A n : DoneIsLast(chan[p], Got(p), n)
    BY <1>4, <2>2
  <2>4. 1..forwarded[Other(p)] = {} /\ IceIn(chan[p]) = {}
    BY <1>4, <2>2
  <2>5. QED BY <2>1, <2>2, <2>3, <2>4 DEF CandInv
<1>9. ASSUME NEW p \in Peer PROVE DataInv(p)
  <2>1. chan[p] = <<>> /\ heard[p] = 0 /\ said[Other(p)] = 0
    BY <1>1, TwoPeers DEF Init
  <2>2. QED BY <1>4, <2>1 DEF DataInv
<1>10. QED BY <1>2, <1>3, <1>5, <1>6, <1>7, <1>8, <1>9 DEF RtcInv

-----------------------------------------------------------------------------
(* The steps in which a peer talks: it may take its next message, and sends *)
(* at most one message of its own in front of a batch of candidates.       *)

Batch(p, n) == [i \in 1..(n - forwarded[p]) |-> Payload("ICE", forwarded[p] + i)]

Opening == {<<>>} \cup {<<Msg(k)>> : k \in {"OFFER", "ANSWER", "ICE_DONE"}}
                  \cup {<<Payload("DATA", n)>> : n \in 1..MaxData}

Bystander(q) ==
  /\ stage'[q] = stage[q] /\ why'[q] = why[q]
  /\ gather'[q] = gather[q] /\ gathered'[q] = gathered[q] /\ forwarded'[q] = forwarded[q]
  /\ described'[q] = described[q] /\ local_done'[q] = local_done[q]
  /\ remote_done'[q] = remote_done[q]
  /\ pending_ice'[q] = pending_ice[q] /\ applied'[q] = applied[q]

(* Where connect may get to while the peer talks. *)
Proceeds(p) ==
  /\ why'[p] = why[p] /\ stage[p] # "failed" /\ stage'[p] # "failed"
  /\ stage[p] = "connected" \/ stage'[p] = "connected" => Wasi(p) /\ stage'[p] = stage[p]
  /\ stage[p] = "channel" => stage'[p] = "channel"
  /\ stage'[p] \in {"await", "answering"} => stage[p] \in {"await", "answering"}
  /\ stage[p] = "await" => stage'[p] \in {"await", "answering"}
  /\ (described[p] => described'[p]) /\ (remote_done[p] => remote_done'[p])

Speaks(p, first) ==
  /\ first \in Opening /\ forwarded'[p] \in forwarded[p]..gathered[p]
  /\ stage[p] = "await" => first = <<>> /\ forwarded'[p] = forwarded[p]
  /\ stage[p] = "answering" => first = <<Msg("ANSWER")>> /\ stage'[p] = "exchange"
  /\ first = <<Msg("ANSWER")>> => stage[p] = "answering"
  /\ local_done'[p] <=> (local_done[p] \/ first = <<Msg("ICE_DONE")>>)
  /\ first = <<Msg("ICE_DONE")>> /\ ~Browser(p) => forwarded[p] = gathered[p]
  /\ local_done[p] /\ Native(p) => first = <<>> /\ forwarded'[p] = forwarded[p]
  /\ \/ gathered'[p] = gathered[p]
     \/ gathered'[p] \in Nat /\ gathered[p] <= gathered'[p] /\ ~local_done'[p]

Listens(p, takes) ==
  LET m == Head(chan[p]) IN
  /\ ~takes => remote_done'[p] = remote_done[p] /\ Got(p)' = Got(p)
  /\ takes =>
       /\ chan[p] # <<>>
       /\ m.kind = "ANSWER" /\ p = "offerer" => described'[p]
       /\ remote_done'[p] => remote_done[p] \/ m.kind = "ICE_DONE"
       /\ Native(p) /\ m.kind = "ICE_DONE" => remote_done'[p]
       /\ m.kind # "ICE" => Got(p)' = Got(p)
       /\ ~Wasi(p) => stage[p] \in {"await", "exchange"}
       /\ ~Wasi(p) /\ m.kind = "ICE" /\ m.ok /\ (described[p] \/ stage[p] = "await") =>
            Got(p)' = Got(p) \cup {m.n}

Talks(p, takes, first) ==
  /\ platform' = platform /\ open' = open /\ Bystander(Other(p))
  /\ takes \in BOOLEAN
  /\ Proceeds(p) /\ Speaks(p, first) /\ Listens(p, takes)
  /\ Transmit(p, IF takes THEN Tail(chan[p]) ELSE chan[p], first \o Batch(p, forwarded'[p]))

LEMMA CandidatesAre ==
  ASSUME NEW b, NEW f \in Nat, NEW n \in Nat, f <= n, n <= MaxIce, NEW k \in Nat,
         k = n - f, NEW yes \in BOOLEAN, b \in [1..k -> Message],
         \A i \in 1..k : b[i] = [kind |-> "ICE", n |-> f + i, ok |-> yes]
  PROVE  /\ b \in Seq(Message)
         /\ KindsIn(b) \subseteq {"ICE"} /\ IceIn(b) = (f + 1)..n
         /\ \A i \in DOMAIN b : b[i].ok = yes
         /\ n = f => b = <<>>
<1>1. \A i \in 1..k : b[i].kind = "ICE" /\ b[i].n = f + i /\ b[i].ok = yes
  OBVIOUS
<1>2. \A i \in 1..k : f + i \in (f + 1)..n
  OBVIOUS
<1>3. b \in Seq(Message) /\ DOMAIN b = 1..k
  OBVIOUS
<1>4. KindsIn(b) \subseteq {"ICE"}
  BY <1>1, <1>3 DEF KindsIn
<1>5. IceIn(b) = (f + 1)..n
  <2>1. ASSUME NEW m \in IceIn(b) PROVE \E i \in 1..k : m = f + i
    <3>1. PICK i \in DOMAIN b : b[i].n = m
      BY <2>1, IceMember
    <3>2. QED BY <1>1, <1>3, <3>1
  <2>2. \A m \in IceIn(b) : m \in (f + 1)..n
    BY <1>2, <2>1
  <2>3. ASSUME NEW m \in (f + 1)..n PROVE m \in IceIn(b)
    <3>1. m - f \in 1..k /\ f + (m - f) = m
      BY <2>3
    <3>2. PICK i \in 1..k : f + i = m
      BY <3>1
    <3>3. i \in DOMAIN b /\ b[i].kind = "ICE" /\ b[i].n = m
      BY <1>1, <1>3, <3>2
    <3>4. QED BY <3>3, IceMember
  <2>4. QED BY <2>2, <2>3
<1>6. n = f => b = <<>>
  <2>1. n = f => DOMAIN b = {}
    OBVIOUS
  <2>2. QED BY <1>3, <2>1
<1>7. QED BY <1>1, <1>3, <1>4, <1>5, <1>6

LEMMA BatchIs ==
  ASSUME NEW p, forwarded[p] \in Nat, NEW n \in forwarded[p]..MaxIce
  PROVE  /\ Batch(p, n) \in Seq(Message)
         /\ KindsIn(Batch(p, n)) \subseteq {"ICE"}
         /\ IceIn(Batch(p, n)) = (forwarded[p] + 1)..n
         /\ \A i \in DOMAIN Batch(p, n) : Batch(p, n)[i].ok = ~RelayAppendsNewline
         /\ n = forwarded[p] => Batch(p, n) = <<>>
<1> DEFINE k == n - forwarded[p]
           f == forwarded[p]
           b == Batch(p, n)
           yes == ~RelayAppendsNewline
<1>1. /\ k \in Nat /\ f \in Nat /\ n \in Nat /\ f <= n /\ n <= MaxIce /\ k = n - f
      /\ yes \in BOOLEAN /\ n <= MaxIce + MaxData
  BY RtcAssumption
<1>2. b = [i \in 1..k |-> [kind |-> "ICE", n |-> f + i, ok |-> yes]]
  BY DEF Batch, Payload
<1>3. k \in Nat /\ "ICE" \in Kinds
  BY <1>1 DEF Kinds
<1> HIDE DEF k, f, b, yes
<1>4. \A i \in 1..k : [kind |-> "ICE", n |-> f + i, ok |-> yes] \in Message
  <2>1. \A i \in 1..k : f + i \in 0..(MaxIce + MaxData) /\ f + i \in 1..MaxIce
    BY <1>1, RtcAssumption
  <2>2. QED BY <1>1, <1>3, <2>1 DEF Message, yes
<1>5. b \in [1..k -> Message]
  BY <1>2, <1>4
<1>6. \A i \in 1..k : b[i] = [kind |-> "ICE", n |-> f + i, ok |-> yes]
  BY <1>2
<1>7. /\ b \in Seq(Message)
      /\ KindsIn(b) \subseteq {"ICE"} /\ IceIn(b) = (f + 1)..n
      /\ \A i \in DOMAIN b : b[i].ok = yes
      /\ n = f => b = <<>>
  BY <1>1, <1>3, <1>5, <1>6, CandidatesAre
<1>8. QED BY <1>7 DEF f, b, yes

LEMMA OpeningIs ==
  ASSUME NEW first \in Opening
  PROVE  /\ first \in Seq(Message)
         /\ KindsIn(first) \subseteq {"OFFER", "ANSWER", "ICE_DONE", "DATA"}
         /\ IceIn(first) = {}
         /\ "ANSWER" \in KindsIn(first) <=> first = <<Msg("ANSWER")>>
         /\ "ICE_DONE" \in KindsIn(first) <=> first = <<Msg("ICE_DONE")>>
         /\ ~RelayAppendsNewline => \A i \in DOMAIN first : first[i].ok
<1>1. CASE first = <<>>
  BY <1>1, EmptyLine
<1>2. ASSUME NEW m \in Message, first = <<m>>
      PROVE  /\ first \in Seq(Message) /\ KindsIn(first) = {m.kind}
             /\ m.kind # "ICE" => IceIn(first) = {}
             /\ DOMAIN first = {1} /\ first[1] = m
  <2>1. first \in Seq(Message) /\ DOMAIN first = {1} /\ first[1] = m
    BY <1>2
  <2>2. QED BY <2>1 DEF KindsIn, IceIn
<1>3. ASSUME NEW k \in {"OFFER", "ANSWER", "ICE_DONE"}
      PROVE  Msg(k) \in Message /\ Msg(k).kind = k /\ Msg(k).ok
  BY RtcAssumption DEF Msg, Message, Kinds
<1>4. CASE \E k \in {"OFFER", "ANSWER", "ICE_DONE"} : first = <<Msg(k)>>
  <2>1. PICK k \in {"OFFER", "ANSWER", "ICE_DONE"} : first = <<Msg(k)>>
    BY <1>4
  <2>2. \A j \in {"ANSWER", "ICE_DONE"} : first = <<Msg(j)>> => j = k
    <3>1. \A j : first = <<Msg(j)>> => Msg(j) = Msg(k)
      BY <2>1
    <3>2. QED BY <3>1 DEF Msg
  <2>3. QED BY <1>2, <1>3, <2>1, <2>2
<1>5. CASE \E n \in 1..MaxData : first = <<Payload("DATA", n)>>
  <2>1. PICK n \in 1..MaxData : first = <<Payload("DATA", n)>>
    BY <1>5
  <2>2. /\ Payload("DATA", n) \in Message /\ Payload("DATA", n).kind = "DATA"
        /\ Payload("DATA", n).ok = ~RelayAppendsNewline
    BY RtcAssumption DEF Payload, Message, Kinds
  <2>3. \A j \in {"ANSWER", "ICE_DONE"} : first # <<Msg(j)>>
    <3>1. \A j : first = <<Msg(j)>> => Msg(j) = Payload("DATA", n)
      BY <2>1
    <3>2. QED BY <3>1 DEF Msg, Payload
  <2>4. /\ first \in Seq(Message) /\ KindsIn(first) = {"DATA"} /\ IceIn(first) = {}
        /\ DOMAIN first = {1} /\ first[1].ok = ~RelayAppendsNewline
    BY <1>2, <2>1, <2>2
  <2>5. QED BY <2>3, <2>4
<1>6. QED BY <1>1, <1>4, <1>5 DEF Opening

Sends(p, first) == first \o Batch(p, forwarded'[p])

LEMMA SendsIs ==
  ASSUME NEW p \in Peer, StateTyped, NEW first, Speaks(p, first)
  PROVE  /\ Sends(p, first) \in Seq(Message)
         /\ KindsIn(Sends(p, first)) = KindsIn(first) \cup KindsIn(Batch(p, forwarded'[p]))
         /\ KindsIn(Sends(p, first)) \subseteq {"OFFER", "ANSWER", "ICE", "ICE_DONE", "DATA"}
         /\ IceIn(Sends(p, first)) = (forwarded[p] + 1)..forwarded'[p]
         /\ "ANSWER" \in KindsIn(Sends(p, first)) <=> first = <<Msg("ANSWER")>>
         /\ "ICE_DONE" \in KindsIn(Sends(p, first)) <=> first = <<Msg("ICE_DONE")>>
         /\ ~RelayAppendsNewline => \A i \in DOMAIN Sends(p, first) : Sends(p, first)[i].ok
         /\ first = <<>> /\ forwarded'[p] = forwarded[p] => Sends(p, first) = <<>>
<1> DEFINE b == Batch(p, forwarded'[p])
<1>1. /\ forwarded[p] \in Nat /\ gathered[p] \in 0..MaxIce
      /\ forwarded'[p] \in forwarded[p]..gathered[p]
  BY DEF StateTyped, Speaks
<1>2. forwarded'[p] \in forwarded[p]..MaxIce
  BY <1>1, RtcAssumption
<1>3. /\ b \in Seq(Message) /\ KindsIn(b) \subseteq {"ICE"}
      /\ IceIn(b) = (forwarded[p] + 1)..forwarded'[p]
      /\ \A i \in DOMAIN b : b[i].ok = ~RelayAppendsNewline
      /\ forwarded'[p] = forwarded[p] => b = <<>>
  BY <1>1, <1>2, BatchIs
<1>4. /\ first \in Seq(Message)
      /\ KindsIn(first) \subseteq {"OFFER", "ANSWER", "ICE_DONE", "DATA"}
      /\ IceIn(first) = {}
      /\ "ANSWER" \in KindsIn(first) <=> first = <<Msg("ANSWER")>>
      /\ "ICE_DONE" \in KindsIn(first) <=> first = <<Msg("ICE_DONE")>>
      /\ ~RelayAppendsNewline => \A i \in DOMAIN first : first[i].ok
  BY OpeningIs DEF Speaks
<1>5. Sends(p, first) = first \o b
  BY DEF Sends
<1> HIDE DEF b
<1>a. first \in Seq(Message) /\ b \in Seq(Message)
  BY <1>3, <1>4
<1>6. /\ KindsIn(first \o b) = KindsIn(first) \cup KindsIn(b)
      /\ IceIn(first \o b) = IceIn(first) \cup IceIn(b)
      /\ first \o b \in Seq(Message)
  BY <1>a, ConcatHolds, ConcatProperties
<1>7. ~RelayAppendsNewline => \A i \in DOMAIN (first \o b) : (first \o b)[i].ok
  <2>1. /\ \A i \in DOMAIN first : (first \o b)[i] = first[i]
        /\ \A i \in DOMAIN b : (first \o b)[Len(first) + i] = b[i]
        /\ \A i \in DOMAIN (first \o b) :
             i \in DOMAIN first \/ \E j \in DOMAIN b : i = Len(first) + j
    BY <1>a, PlacesInConcat
  <2>2. QED BY <1>3, <1>4, <2>1, ZenonT(40)
<1>8. first = <<>> /\ b = <<>> => first \o b = <<>>
  BY <1>3, <1>4
<1>9. QED BY <1>3, <1>4, <1>5, <1>6, <1>7, <1>8 DEF b

(* What a talking peer does to the lines.                                  *)
LEMMA TalkMoves ==
  ASSUME NEW p \in Peer, StateTyped, LinesTyped, NEW takes, NEW first, Talks(p, takes, first)
  PROVE  /\ LinesTyped'
         /\ link' = link /\ orphan' \in [Peer -> BOOLEAN]
         /\ orphan'[Other(p)] = orphan[Other(p)]
         /\ orphan'[p] <=> orphan[p] \/ (Sends(p, first) # <<>> /\ link[Other(p)] = "left")
         /\ takes => chan[p] # <<>> /\ chan'[p] = Tail(chan[p])
         /\ ~takes => chan'[p] = chan[p]
         /\ \/ chan'[Other(p)] = chan[Other(p)] /\ ~(link[p] = "open" /\ link[Other(p)] = "open")
            \/ /\ chan'[Other(p)] = chan[Other(p)] \o Sends(p, first)
               /\ link[p] = "open" /\ link[Other(p)] = "open"
<1> DEFINE q == Other(p)
           rest == IF takes THEN Tail(chan[p]) ELSE chan[p]
           msgs == Sends(p, first)
<1>1. q \in Peer /\ q # p /\ \A r \in Peer : r = p \/ r = q
  BY TwoPeers
<1>2. msgs \in Seq(Message)
  BY SendsIs DEF Talks
<1>3. chan \in [Peer -> Seq(Message)] /\ orphan \in [Peer -> BOOLEAN]
  BY DEF LinesTyped, StateTyped
<1>4. takes \in BOOLEAN /\ (takes => chan[p] # <<>>)
  BY DEF Talks, Listens
<1>5. Transmit(p, rest, msgs)
  BY DEF Talks, Sends
<1>6. rest \in Seq(Message)
  BY <1>3, <1>4
<1> HIDE DEF rest, msgs
<1>7. /\ chan' = [chan EXCEPT ![p] = rest,
                   ![q] = IF link[p] = "open" /\ link[q] = "open" THEN @ \o msgs ELSE @]
      /\ orphan' = [orphan EXCEPT ![p] = @ \/ (msgs # <<>> /\ link[q] = "left")]
      /\ link' = link
  BY <1>5 DEF Transmit
<1>8. chan[q] \o msgs \in Seq(Message)
  BY <1>1, <1>2, <1>3
<1> DEFINE line == IF link[p] = "open" /\ link[q] = "open" THEN chan[q] \o msgs ELSE chan[q]
           late == orphan[p] \/ (msgs # <<>> /\ link[q] = "left")
<1>a. line \in Seq(Message) /\ late \in BOOLEAN
  BY <1>1, <1>3, <1>8
<1>b. chan' = [chan EXCEPT ![p] = rest, ![q] = line] /\ orphan' = [orphan EXCEPT ![p] = late]
  BY <1>1, <1>3, <1>7
<1> HIDE DEF line, late
<1>c. /\ chan' \in [Peer -> Seq(Message)] /\ chan'[p] = rest /\ chan'[q] = line
      /\ orphan' \in [Peer -> BOOLEAN] /\ orphan'[q] = orphan[q] /\ orphan'[p] = late
  BY <1>1, <1>3, <1>6, <1>a, <1>b
<1>9. /\ chan' \in [Peer -> Seq(Message)] /\ chan'[p] = rest
      /\ chan'[q] = IF link[p] = "open" /\ link[q] = "open" THEN chan[q] \o msgs ELSE chan[q]
  BY <1>c DEF line
<1>10. /\ orphan' \in [Peer -> BOOLEAN] /\ orphan'[q] = orphan[q]
       /\ orphan'[p] <=> orphan[p] \/ (msgs # <<>> /\ link[q] = "left")
  BY <1>c DEF late
<1>11. QED BY <1>4, <1>7, <1>9, <1>10 DEF rest, msgs, LinesTyped

LEMMA InvOf ==
  ASSUME RtcInv, NEW p \in Peer
  PROVE  /\ StateTyped /\ LinesTyped /\ AnswerInv /\ chan[p] \in Seq(Message)
         /\ Control(p) /\ Links(p) /\ LossInv(p) /\ CandInv(p) /\ DataInv(p)
         /\ Control(Other(p)) /\ Links(Other(p)) /\ LossInv(Other(p)) /\ CandInv(Other(p))
         /\ DataInv(Other(p)) /\ chan[Other(p)] \in Seq(Message)
<1>1. Other(p) \in Peer /\ StateTyped /\ LinesTyped
  BY TwoPeers DEF RtcInv
<1>2. QED BY <1>1 DEF RtcInv, LinesTyped

(* A peer that has left no longer talks.                                   *)
LEMMA TalkerIsHere ==
  ASSUME RtcInv, NEW p \in Peer, Proceeds(p)
  PROVE  /\ link[p] # "left" /\ ~orphan[Other(p)] /\ link[Other(p)] # "cut"
         /\ "PEER_LEFT" \notin KindsIn(chan[Other(p)])
<1>1. Links(p) /\ Links(Other(p)) /\ Other(Other(p)) = p
  BY InvOf, TwoPeers
<1>2. link[p] # "left"
  BY <1>1 DEF Links, Proceeds
<1>3. QED BY <1>1, <1>2 DEF Links

LEMMA TalkLinks ==
  ASSUME RtcInv, NEW p \in Peer, NEW takes, NEW first, Talks(p, takes, first)
  PROVE  Links(p)' /\ Links(Other(p))'
<1> DEFINE q == Other(p)
           msgs == Sends(p, first)
<1>1. /\ StateTyped /\ LinesTyped /\ Links(p) /\ Links(q)
      /\ chan[p] \in Seq(Message) /\ chan[q] \in Seq(Message)
  BY InvOf
<1>2. q \in Peer /\ q # p /\ Other(q) = p
  BY TwoPeers
<1>3. /\ link' = link /\ orphan'[q] = orphan[q]
      /\ orphan'[p] => orphan[p] \/ link[q] = "left"
      /\ takes => chan[p] # <<>> /\ chan'[p] = Tail(chan[p])
      /\ ~takes => chan'[p] = chan[p]
      /\ chan'[q] = chan[q] \/ chan'[q] = chan[q] \o msgs
  BY <1>1, TalkMoves
<1>4. Proceeds(p) /\ Speaks(p, first) /\ Listens(p, takes) /\ Bystander(q)
      /\ open' = open /\ platform' = platform /\ takes \in BOOLEAN
  BY DEF Talks
<1>5. /\ link[p] # "left" /\ ~orphan[q] /\ link[q] # "cut"
      /\ "PEER_LEFT" \notin KindsIn(chan[q])
  BY <1>4, TalkerIsHere
<1>6. msgs \in Seq(Message)
      /\ KindsIn(msgs) \subseteq {"OFFER", "ANSWER", "ICE", "ICE_DONE", "DATA"}
      /\ ("ICE_DONE" \in KindsIn(msgs) <=> first = <<Msg("ICE_DONE")>>)
  BY <1>1, <1>4, SendsIs
<1> HIDE DEF msgs
<1>7. takes => /\ KindsIn(chan[p]) = {Head(chan[p]).kind} \cup KindsIn(Tail(chan[p]))
               /\ Precedes(Tail(chan[p]), "ICE_DONE", "PEER_LEFT")
  BY <1>1, <1>3, TailHolds, TailPrecedes DEF Links
<1>8. /\ KindsIn(chan[q] \o msgs) = KindsIn(chan[q]) \cup KindsIn(msgs)
      /\ Precedes(chan[q] \o msgs, "ICE_DONE", "PEER_LEFT")
  <2>1. "PEER_LEFT" \notin KindsIn(chan[q] \o msgs)
    BY <1>1, <1>5, <1>6, ConcatHolds
  <2>2. Precedes(chan[q] \o msgs, "ICE_DONE", "PEER_LEFT")
    BY <2>1 DEF Precedes, KindsIn
  <2>3. QED BY <1>1, <1>6, <2>2, ConcatHolds
<1>9. Links(p)'
  <2>1. (link'[p] = "left" => stage'[p] = "failed" \/ (stage'[p] = "connected" /\ ~Wasi(p)' /\ open'))
        /\ (stage'[p] = "failed" => link'[p] = "left")
    BY <1>3, <1>4, <1>5 DEF Proceeds
  <2>2. (link'[p] = "cut" => orphan'[p]) /\ (orphan'[p] => link'[q] = "left")
    <3>1. orphan[p] => orphan'[p]
      BY <1>1, TalkMoves
    <3>2. QED BY <1>1, <1>3, <3>1 DEF Links
  <2>3. /\ KindsIn(chan'[p]) \subseteq KindsIn(chan[p])
        /\ Precedes(chan'[p], "ICE_DONE", "PEER_LEFT")
    BY <1>1, <1>3, <1>4, <1>7 DEF Links
  <2>4. remote_done'[p] => remote_done[p] \/ "ICE_DONE" \in KindsIn(chan[p])
    BY <1>4, <1>7 DEF Listens
  <2>5. local_done'[q] = local_done[q]
    BY <1>4 DEF Bystander
  <2>6. QED BY <1>1, <1>3, <2>1, <2>2, <2>3, <2>4, <2>5 DEF Links
<1>10. Links(q)'
  <2>1. /\ stage'[q] = stage[q] /\ Wasi(q)' = Wasi(q) /\ remote_done'[q] = remote_done[q]
    BY <1>4 DEF Bystander, Wasi
  <2>2. (local_done[p] => local_done'[p]) /\ (first = <<Msg("ICE_DONE")>> => local_done'[p])
    BY <1>4 DEF Speaks
  <2>3. /\ "PEER_LEFT" \in KindsIn(chan'[q]) => link[p] = "left"
        /\ Precedes(chan'[q], "ICE_DONE", "PEER_LEFT")
        /\ "ICE_DONE" \in KindsIn(chan'[q]) => "ICE_DONE" \in KindsIn(chan[q]) \/ first = <<Msg("ICE_DONE")>>
    BY <1>1, <1>2, <1>3, <1>6, <1>8 DEF Links
  <2>4. QED BY <1>1, <1>2, <1>3, <1>4, <2>1, <2>2, <2>3 DEF Links
<1>11. QED BY <1>9, <1>10

LEMMA AnswerFirst ==
  ASSUME NEW p \in Peer, StateTyped, Speaks(p, <<Msg("ANSWER")>>)
  PROVE  /\ BehindAnswer(Sends(p, <<Msg("ANSWER")>>))
         /\ Precedes(Sends(p, <<Msg("ANSWER")>>), "ANSWER", "ICE")
<1> DEFINE t == <<Msg("ANSWER")>>
           b == Batch(p, forwarded'[p])
<1>1. /\ forwarded[p] \in Nat /\ gathered[p] \in 0..MaxIce
      /\ forwarded'[p] \in forwarded[p]..gathered[p]
  BY DEF StateTyped, Speaks
<1>2. b \in Seq(Message) /\ KindsIn(b) \subseteq {"ICE"}
  BY <1>1, BatchIs, RtcAssumption
<1>3. t \in Opening
  BY DEF Opening
<1>4. t \in Seq(Message) /\ "ANSWER" \in KindsIn(t)
  BY <1>3, OpeningIs
<1>5. DOMAIN t = {1} /\ t[1].kind = "ANSWER"
  BY DEF Msg
<1> HIDE DEF b, t
<1>6. BehindAnswer(t) /\ Precedes(t, "ANSWER", "ICE")
  BY <1>5 DEF BehindAnswer, Precedes
<1>7. BehindAnswer(t \o b) /\ Precedes(t \o b, "ANSWER", "ICE")
  BY <1>2, <1>4, <1>6, ConcatBehind, ConcatPrecedes
<1>8. QED BY <1>7 DEF b, t, Sends

LEMMA TalkAnswer ==
  ASSUME RtcInv, NEW p \in Peer, NEW takes, NEW first, Talks(p, takes, first)
  PROVE  AnswerInv'
<1> DEFINE q == Other(p)
           msgs == Sends(p, first)
           line == chan["offerer"]
<1>1. /\ StateTyped /\ LinesTyped /\ AnswerInv /\ Links(p) /\ Links(q)
      /\ chan[p] \in Seq(Message) /\ chan[q] \in Seq(Message)
  BY InvOf
<1>2. /\ q \in Peer /\ q # p /\ Other(q) = p
      /\ (p = "offerer" /\ q = "answerer") \/ (p = "answerer" /\ q = "offerer")
  BY TwoPeers DEF Peer
<1>3. /\ link' = link
      /\ takes => chan[p] # <<>> /\ chan'[p] = Tail(chan[p])
      /\ ~takes => chan'[p] = chan[p]
      /\ \/ chan'[q] = chan[q] /\ ~(link[p] = "open" /\ link[q] = "open")
         \/ chan'[q] = chan[q] \o msgs /\ link[p] = "open" /\ link[q] = "open"
  BY <1>1, TalkMoves
<1>4. Proceeds(p) /\ Speaks(p, first) /\ Listens(p, takes) /\ Bystander(q)
      /\ takes \in BOOLEAN
  BY DEF Talks
<1>5. CASE p = "offerer"
  <2>1. stage'["answerer"] = stage["answerer"]
    BY <1>2, <1>4, <1>5 DEF Bystander
  <2>2. described["offerer"] => described'["offerer"]
    BY <1>4, <1>5 DEF Proceeds
  <2>3. CASE ~takes
    BY <1>1, <1>3, <1>5, <2>1, <2>2, <2>3 DEF AnswerInv
  <2>4. CASE takes
    <3>1. line \in Seq(Message) /\ line # <<>> /\ chan'["offerer"] = Tail(line)
      BY <1>1, <1>3, <1>5, <2>4
    <3>2. KindsIn(line) = {Head(line).kind} \cup KindsIn(Tail(line))
      BY <3>1, TailHolds
    <3>3. Precedes(line, "ANSWER", "ICE") => Precedes(Tail(line), "ANSWER", "ICE")
      BY <3>1, TailPrecedes
    <3>4. BehindAnswer(line) /\ Head(line).kind # "ANSWER" => BehindAnswer(Tail(line))
      BY <3>1, TailBehind
    <3>5. Head(line).kind = "ANSWER" => described'["offerer"]
      BY <1>4, <1>5, <2>4 DEF Listens
    <3> HIDE DEF line
    <3>6. line = chan["offerer"]
      BY DEF line
    <3>7. QED BY <1>1, <1>3, <2>1, <2>2, <3>1, <3>2, <3>3, <3>4, <3>5, <3>6 DEF AnswerInv
  <2>5. QED BY <1>4, <2>3, <2>4
<1>6. CASE p = "answerer"
  <2>1. /\ described'["offerer"] = described["offerer"] /\ line \in Seq(Message)
    BY <1>1, <1>2, <1>4, <1>6 DEF Bystander
  <2>2. /\ msgs \in Seq(Message)
        /\ KindsIn(msgs) = KindsIn(first) \cup KindsIn(Batch(p, forwarded'[p]))
        /\ "ANSWER" \in KindsIn(msgs) <=> first = <<Msg("ANSWER")>>
        /\ first = <<>> /\ forwarded'[p] = forwarded[p] => msgs = <<>>
    BY <1>1, <1>4, SendsIs
  <2>3. CASE stage[p] = "await"
    <3>1. msgs = <<>> /\ line \o <<>> = line
      BY <1>4, <2>1, <2>2, <2>3 DEF Speaks
    <3>2. chan'["offerer"] = line
      BY <1>2, <1>3, <1>6, <3>1
    <3>3. stage'["answerer"] \in {"await", "answering"}
      BY <1>4, <1>6, <2>3 DEF Proceeds
    <3>4. QED BY <1>1, <1>6, <2>1, <2>3, <3>2, <3>3 DEF AnswerInv
  <2>4. CASE stage[p] = "answering"
    <3>1. first = <<Msg("ANSWER")>> /\ stage'["answerer"] = "exchange"
      BY <1>4, <1>6, <2>4 DEF Speaks
    <3>2. /\ "ANSWER" \notin KindsIn(line) /\ "ICE" \notin KindsIn(line)
          /\ "ICE_DONE" \notin KindsIn(line)
      BY <1>1, <1>6, <2>4 DEF AnswerInv
    <3>3. BehindAnswer(line) /\ Precedes(line, "ANSWER", "ICE")
      BY <3>2 DEF BehindAnswer, Precedes, KindsIn
    <3>4. BehindAnswer(msgs) /\ Precedes(msgs, "ANSWER", "ICE")
      BY <1>1, <1>4, <3>1, AnswerFirst
    <3>5. /\ BehindAnswer(line \o msgs) /\ Precedes(line \o msgs, "ANSWER", "ICE")
          /\ "ANSWER" \in KindsIn(line \o msgs)
      BY <2>1, <2>2, <3>1, <3>2, <3>3, <3>4, ConcatBehind, ConcatPrecedes, ConcatHolds
    <3> HIDE DEF line, msgs
    <3>6. line = chan["offerer"]
      BY DEF line
    <3>7. QED BY <1>2, <1>3, <1>6, <3>1, <3>3, <3>5, <3>6 DEF AnswerInv
  <2>5. CASE stage[p] \notin {"await", "answering"}
    <3>1. first # <<Msg("ANSWER")>> /\ stage'[p] \notin {"await", "answering"}
      BY <1>4, <2>5 DEF Speaks, Proceeds
    <3>2. "ANSWER" \notin KindsIn(msgs)
      BY <2>2, <3>1
    <3>3. /\ Precedes(line, "ANSWER", "ICE") => Precedes(line \o msgs, "ANSWER", "ICE")
          /\ BehindAnswer(line) /\ "ANSWER" \in KindsIn(line) => BehindAnswer(line \o msgs)
          /\ "ANSWER" \in KindsIn(line) => "ANSWER" \in KindsIn(line \o msgs)
      BY <2>1, <2>2, <3>2, ConcatBehind, ConcatPrecedes, ConcatHolds
    <3> HIDE DEF line, msgs
    <3>4. line = chan["offerer"]
      BY DEF line
    <3>5. /\ Precedes(line, "ANSWER", "ICE")
          /\ ~described["offerer"] => BehindAnswer(line)
          /\ \/ link["offerer"] # "open" \/ link["answerer"] # "open"
             \/ described["offerer"] \/ "ANSWER" \in KindsIn(line)
      BY <1>1, <1>6, <2>5, <3>4 DEF AnswerInv
    <3>6. \/ chan'["offerer"] = line /\ ~(link["offerer"] = "open" /\ link["answerer"] = "open")
          \/ chan'["offerer"] = line \o msgs /\ link["offerer"] = "open" /\ link["answerer"] = "open"
      BY <1>2, <1>3, <1>6, <3>4
    <3>7. /\ Precedes(chan'["offerer"], "ANSWER", "ICE")
          /\ ~described["offerer"] => BehindAnswer(chan'["offerer"])
          /\ \/ link["offerer"] # "open" \/ link["answerer"] # "open"
             \/ described["offerer"] \/ "ANSWER" \in KindsIn(chan'["offerer"])
      BY <3>3, <3>5, <3>6
    <3>8. stage'["answerer"] \notin {"await", "answering"}
      BY <1>6, <3>1
    <3>9. QED BY <1>3, <2>1, <3>7, <3>8 DEF AnswerInv
  <2>6. QED BY <2>3, <2>4, <2>5
<1>7. QED BY <1>2, <1>5, <1>6

LEMMA TalkLoss ==
  ASSUME RtcInv, NEW p \in Peer, NEW takes, NEW first, Talks(p, takes, first)
  PROVE  LossInv(p)' /\ LossInv(Other(p))'
<1> DEFINE q == Other(p)
           msgs == Sends(p, first)
<1>1. /\ StateTyped /\ LinesTyped /\ Links(p) /\ Links(q) /\ LossInv(p) /\ LossInv(q)
      /\ Control(p) /\ Control(q)
      /\ chan[p] \in Seq(Message) /\ chan[q] \in Seq(Message)
  BY InvOf
<1>2. q \in Peer /\ q # p /\ Other(q) = p /\ Other(p) = q
  BY TwoPeers
<1>3. /\ link' = link /\ orphan'[q] = orphan[q]
      /\ orphan'[p] <=> orphan[p] \/ (msgs # <<>> /\ link[q] = "left")
      /\ takes => chan[p] # <<>> /\ chan'[p] = Tail(chan[p])
      /\ ~takes => chan'[p] = chan[p]
      /\ \/ chan'[q] = chan[q] /\ ~(link[p] = "open" /\ link[q] = "open")
         \/ chan'[q] = chan[q] \o msgs /\ link[p] = "open" /\ link[q] = "open"
  BY <1>1, TalkMoves
<1>4. Proceeds(p) /\ Speaks(p, first) /\ Listens(p, takes) /\ Bystander(q)
      /\ takes \in BOOLEAN /\ platform' = platform /\ open' = open
  BY DEF Talks
<1>5. /\ link[p] # "left" /\ ~orphan[q] /\ link[q] # "cut"
  BY <1>4, TalkerIsHere
<1>6. /\ msgs \in Seq(Message)
      /\ ("ICE_DONE" \in KindsIn(msgs) <=> first = <<Msg("ICE_DONE")>>)
      /\ first = <<>> /\ forwarded'[p] = forwarded[p] => msgs = <<>>
  BY <1>1, <1>4, SendsIs
<1>7. KindsIn(chan[q] \o msgs) = KindsIn(chan[q]) \cup KindsIn(msgs)
  BY <1>1, <1>6, ConcatHolds
<1>8. takes => KindsIn(chan[p]) = {Head(chan[p]).kind} \cup KindsIn(Tail(chan[p]))
  BY <1>1, <1>3, TailHolds
<1> HIDE DEF msgs
<1>9. /\ platform[p] \in Platform
      /\ \A r : Wasi(r)' = Wasi(r) /\ Browser(r)' = Browser(r) /\ Native(r)' = Native(r)
  BY <1>1, <1>4 DEF StateTyped, Wasi, Browser, Native
<1>10. Native(p) \/ Browser(p) \/ Wasi(p)
  BY <1>9 DEF Platform, Wasi, Browser, Native
<1>11. /\ stage'[q] = stage[q] /\ why'[q] = why[q] /\ remote_done'[q] = remote_done[q]
       /\ local_done'[q] = local_done[q] /\ LeftWell(q)' = LeftWell(q)
  BY <1>4, <1>9 DEF Bystander, LeftWell
<1>12. ASSUME orphan'[p], LeftWell(q) PROVE Browser(p) /\ local_done'[p]
  <2>1. (local_done[p] => local_done'[p])
    BY <1>4 DEF Speaks
  <2>2. CASE orphan[p]
    BY <1>1, <1>2, <1>12, <2>1, <2>2 DEF LossInv
  <2>3. CASE ~orphan[p]
    <3>1. msgs # <<>> /\ link[q] = "left"
      BY <1>3, <1>12, <2>3
    <3>2. local_done[p]
      BY <1>1, <1>2, <1>12 DEF LeftWell, Links
    <3>3. open
      BY <1>1, <1>12, <3>1 DEF LeftWell, Links
    <3>4. ~Wasi(p)
      BY <1>1, <3>3 DEF Control
    <3>5. ~Native(p)
      BY <1>4, <1>6, <3>1, <3>2 DEF Speaks
    <3>6. QED BY <1>10, <2>1, <3>2, <3>4, <3>5
  <2>4. QED BY <2>2, <2>3
<1>13. ASSUME Native(p), stage'[p] \notin {"channel", "connected", "failed"}, ~orphan'[p],
              local_done[q], stage[q] # "failed"
       PROVE  remote_done'[p] \/ "ICE_DONE" \in KindsIn(chan'[p])
  <2>1. stage[p] \notin {"channel", "connected", "failed"} /\ ~orphan[p]
    BY <1>3, <1>4, <1>13 DEF Proceeds
  <2>2. remote_done[p] \/ "ICE_DONE" \in KindsIn(chan[p])
    BY <1>1, <1>2, <1>13, <2>1 DEF LossInv
  <2>3. remote_done[p] => remote_done'[p]
    BY <1>4 DEF Proceeds
  <2>4. CASE takes
    <3>1. Head(chan[p]).kind = "ICE_DONE" => remote_done'[p]
      BY <1>4, <1>13, <2>4 DEF Listens
    <3>2. QED BY <1>3, <1>8, <2>2, <2>3, <2>4, <3>1
  <2>5. QED BY <1>3, <1>4, <2>2, <2>3, <2>4
<1>14. LossInv(p)'
  <2>1. why'[p] = why[p]
    BY <1>4 DEF Proceeds
  <2>2. why[p] \in {"peer left", "closed"} =>
           \/ stage[q] = "failed"
           \/ stage[q] = "connected" /\ Browser(q) /\ ~remote_done[q]
    BY <1>1 DEF LossInv
  <2>3. QED BY <1>9, <1>11, <1>12, <1>13, <2>1, <2>2 DEF LossInv
<1>15. ~LeftWell(p)'
  BY <1>4, <1>9 DEF LeftWell, Proceeds
<1>16. ASSUME Native(q), stage[q] \notin {"channel", "connected", "failed"}, local_done'[p]
       PROVE  remote_done[q] \/ "ICE_DONE" \in KindsIn(chan'[q])
  <2>1. CASE local_done[p]
    <3>1. stage[p] # "failed"
      BY <1>4 DEF Proceeds
    <3>2. remote_done[q] \/ "ICE_DONE" \in KindsIn(chan[q])
      BY <1>1, <1>2, <1>5, <1>16, <2>1, <3>1 DEF LossInv
    <3>3. QED BY <1>3, <1>7, <3>2
  <2>2. CASE ~local_done[p]
    <3>1. first = <<Msg("ICE_DONE")>>
      BY <1>4, <1>16, <2>2 DEF Speaks
    <3>2. link[q] # "left"
      BY <1>1, <1>16 DEF Links
    <3>3. link[q] = "open" /\ link[p] = "open"
      <4>1. link[q] \in {"open", "cut", "left"} /\ link[p] \in {"open", "cut", "left"}
        BY <1>1, <1>2 DEF StateTyped
      <4>2. link[q] = "open"
        BY <1>5, <3>2, <4>1
      <4>3. link[p] # "cut"
        BY <1>1, <1>2, <4>2 DEF Links
      <4>4. QED BY <1>5, <4>1, <4>2, <4>3
    <3>4. QED BY <1>3, <1>6, <1>7, <3>1, <3>3
  <2>3. QED BY <2>1, <2>2
<1>17. LossInv(q)'
  <2>1. why[q] \notin {"peer left", "closed"}
    <3>1. ~(stage[p] = "failed") /\ ~(stage[p] = "connected" /\ Browser(p))
      BY <1>4 DEF Proceeds, Wasi, Browser
    <3>2. QED BY <1>1, <1>2, <3>1 DEF LossInv
  <2>2. QED BY <1>2, <1>5, <1>3, <1>9, <1>11, <1>15, <1>16, <2>1 DEF LossInv
<1>18. QED BY <1>14, <1>17

(* The one who takes a candidate keeps it, ... *)
LEMMA TalkCandTaker ==
  ASSUME RtcInv, NEW p \in Peer, NEW takes, NEW first, Talks(p, takes, first)
  PROVE  CandInv(p)'
<1> DEFINE q == Other(p)
           line == chan[p]
           n == gathered[q]
<1>1. /\ StateTyped /\ LinesTyped /\ AnswerInv /\ Control(p) /\ CandInv(p)
      /\ line \in Seq(Message)
  BY InvOf
<1>2. q \in Peer /\ q # p
  BY TwoPeers
<1>3. /\ link' = link
      /\ takes => line # <<>> /\ chan'[p] = Tail(line)
      /\ ~takes => chan'[p] = line
  BY <1>1, TalkMoves
<1>4. Proceeds(p) /\ Listens(p, takes) /\ Bystander(q)
      /\ takes \in BOOLEAN /\ platform' = platform
  BY DEF Talks
<1>5. /\ gathered'[q] = n /\ forwarded'[q] = forwarded[q]
      /\ Wasi(p)' = Wasi(p) /\ Browser(q)' = Browser(q)
  BY <1>4 DEF Bystander, Wasi, Browser
<1> SUFFICES ASSUME ~RelayAppendsNewline, ~Wasi(p), ~Browser(q)
             PROVE  /\ \A i \in DOMAIN chan'[p] : chan'[p][i].ok
                    /\ Got(p)' \cup IceIn(chan'[p]) \subseteq 1..n
                    /\ link[p] = "open" /\ link[q] = "open" =>
                         1..forwarded[q] \subseteq Got(p)' \cup IceIn(chan'[p])
                    /\ DoneIsLast(chan'[p], Got(p)', n)
                    /\ remote_done'[p] => 1..n \subseteq Got(p)'
  BY <1>3, <1>5 DEF CandInv
<1>6. /\ \A i \in DOMAIN line : line[i].ok
      /\ Got(p) \cup IceIn(line) \subseteq 1..n
      /\ link[p] = "open" /\ link[q] = "open" =>
           1..forwarded[q] \subseteq Got(p) \cup IceIn(line)
      /\ DoneIsLast(line, Got(p), n)
      /\ remote_done[p] => 1..n \subseteq Got(p)
  BY <1>1 DEF CandInv
<1>7. CASE ~takes
  BY <1>3, <1>4, <1>6, <1>7 DEF Listens
<1>8. CASE takes
  <2>1. /\ line # <<>> /\ chan'[p] = Tail(line)
        /\ stage[p] \in {"await", "exchange"}
    BY <1>3, <1>4, <1>8 DEF Listens
  <2>2. /\ \A i \in DOMAIN Tail(line) : Tail(line)[i].ok
        /\ Head(line).ok
    BY <1>1, <1>6, <2>1, PlacesInTail
  <2>3. IceIn(line) = (IF Head(line).kind = "ICE" THEN {Head(line).n} ELSE {}) \cup IceIn(Tail(line))
    BY <1>1, <2>1, TailHolds
  <2>4. Head(line).kind = "ICE" => described[p] \/ stage[p] = "await"
    <3>1. ASSUME ~described[p], stage[p] = "exchange" PROVE Head(line).kind # "ICE"
      <4>1. p = "offerer"
        BY <1>1, <3>1 DEF Control, Peer
      <4>2. BehindAnswer(line)
        BY <1>1, <3>1, <4>1 DEF AnswerInv
      <4>3. QED BY <1>1, <2>1, <4>2, TailBehind
    <3>2. QED BY <2>1, <3>1
  <2>5. CASE Head(line).kind = "ICE"
    <3> DEFINE g == Got(p) \cup {Head(line).n}
    <3>1. Got(p)' = g
      BY <1>4, <1>8, <2>2, <2>4, <2>5 DEF Listens
    <3>2. DoneIsLast(Tail(line), g, n)
      <4>1. Got(p) \subseteq g /\ (Head(line).kind = "ICE" => Head(line).n \in g)
        OBVIOUS
      <4> HIDE DEF g
      <4>2. QED BY <1>1, <1>6, <2>1, <4>1, TailDone
    <3>3. g \cup IceIn(Tail(line)) = Got(p) \cup IceIn(line)
      BY <2>3, <2>5
    <3>4. remote_done'[p] => remote_done[p]
      BY <1>4, <1>8, <2>5 DEF Listens
    <3> HIDE DEF g, line
    <3>5. g \subseteq 1..n /\ Got(p) \subseteq g
      BY <1>6, <3>3 DEF g
    <3>6. QED BY <1>6, <2>1, <2>2, <3>1, <3>2, <3>3, <3>4, <3>5
  <2>6. CASE Head(line).kind # "ICE"
    <3>1. Got(p)' = Got(p)
      BY <1>4, <1>8, <2>6 DEF Listens
    <3>2. /\ DoneIsLast(Tail(line), Got(p), n)
          /\ Head(line).kind = "ICE_DONE" => 1..n \subseteq Got(p)
      <4>1. Got(p) \subseteq Got(p)
        OBVIOUS
      <4>2. QED BY <1>1, <1>6, <2>1, <2>6, <4>1, TailDone
    <3>3. IceIn(line) = IceIn(Tail(line))
      BY <2>3, <2>6
    <3>4. remote_done'[p] => remote_done[p] \/ Head(line).kind = "ICE_DONE"
      BY <1>4, <1>8 DEF Listens
    <3> HIDE DEF line
    <3>5. QED BY <1>6, <2>1, <2>2, <3>1, <3>2, <3>3, <3>4
  <2>7. QED BY <2>5, <2>6
<1>9. QED BY <1>4, <1>7, <1>8

(* ... and the one who sends its candidates sends ICE_DONE behind them.    *)
LEMMA TalkCandGiver ==
  ASSUME RtcInv, NEW p \in Peer, NEW takes, NEW first, Talks(p, takes, first)
  PROVE  CandInv(Other(p))'
<1> DEFINE q == Other(p)
           msgs == Sends(p, first)
           line == chan[q]
           n == gathered[p]
           m == gathered'[p]
<1>1. /\ StateTyped /\ LinesTyped /\ Control(p) /\ Links(q) /\ CandInv(q)
      /\ line \in Seq(Message)
  BY InvOf
<1>2. q \in Peer /\ q # p /\ Other(q) = p
  BY TwoPeers
<1>3. /\ link' = link
      /\ \/ chan'[q] = line /\ ~(link[p] = "open" /\ link[q] = "open")
         \/ chan'[q] = line \o msgs /\ link[p] = "open" /\ link[q] = "open"
  BY <1>1, TalkMoves
<1>4. Proceeds(p) /\ Speaks(p, first) /\ Bystander(q) /\ platform' = platform
  BY DEF Talks
<1>5. /\ Got(q)' = Got(q) /\ remote_done'[q] = remote_done[q]
      /\ Wasi(q)' = Wasi(q) /\ Browser(p)' = Browser(p)
  BY <1>4 DEF Bystander, Wasi, Browser, Got
<1>6. /\ msgs \in Seq(Message)
      /\ IceIn(msgs) = (forwarded[p] + 1)..forwarded'[p]
      /\ ("ICE_DONE" \in KindsIn(msgs) <=> first = <<Msg("ICE_DONE")>>)
      /\ ~RelayAppendsNewline => \A i \in DOMAIN msgs : msgs[i].ok
  BY <1>1, <1>4, SendsIs
<1> SUFFICES ASSUME ~RelayAppendsNewline, ~Wasi(q), ~Browser(p)
             PROVE  /\ \A i \in DOMAIN chan'[q] : chan'[q][i].ok
                    /\ Got(q) \cup IceIn(chan'[q]) \subseteq 1..m
                    /\ link[q] = "open" /\ link[p] = "open" =>
                         1..forwarded'[p] \subseteq Got(q) \cup IceIn(chan'[q])
                    /\ DoneIsLast(chan'[q], Got(q), m)
                    /\ remote_done[q] => 1..m \subseteq Got(q)
  BY <1>2, <1>3, <1>5 DEF CandInv
<1>7. /\ \A i \in DOMAIN line : line[i].ok
      /\ Got(q) \cup IceIn(line) \subseteq 1..n
      /\ link[q] = "open" /\ link[p] = "open" =>
           1..forwarded[p] \subseteq Got(q) \cup IceIn(line)
      /\ DoneIsLast(line, Got(q), n)
      /\ remote_done[q] => 1..n \subseteq Got(q)
  BY <1>1, <1>2 DEF CandInv
<1>8. /\ n \in Nat /\ m \in Nat /\ n <= m
      /\ forwarded[p] \in Nat /\ forwarded'[p] \in forwarded[p]..n
  BY <1>1, <1>4 DEF StateTyped, Speaks
<1>9. m # n => /\ "ICE_DONE" \notin KindsIn(line) /\ ~remote_done[q]
               /\ first # <<Msg("ICE_DONE")>>
  <2>1. m # n => ~local_done'[p]
    BY <1>4 DEF Speaks
  <2>2. ~local_done'[p] => ~local_done[p] /\ first # <<Msg("ICE_DONE")>>
    <3>1. local_done'[p] <=> (local_done[p] \/ first = <<Msg("ICE_DONE")>>)
      BY <1>4 DEF Speaks
    <3>2. QED BY <3>1
  <2>3. ~local_done[p] => "ICE_DONE" \notin KindsIn(line) /\ ~remote_done[q]
    BY <1>1, <1>2 DEF Links
  <2>4. QED BY <2>1, <2>2, <2>3
<1>10. DoneIsLast(line, Got(q), m)
  <2>1. "ICE_DONE" \notin KindsIn(line) => DoneIsLast(line, Got(q), m)
    BY DEF DoneIsLast, KindsIn
  <2>2. QED BY <1>7, <1>9, <2>1
<1> HIDE DEF line, msgs, n, m
<1>11. 1..n \subseteq 1..m /\ 1..forwarded'[p] \subseteq 1..m
  BY <1>8
<1>12. CASE chan'[q] = line /\ ~(link[p] = "open" /\ link[q] = "open")
  BY <1>7, <1>9, <1>10, <1>11, <1>12
<1>13. CASE chan'[q] = line \o msgs /\ link[p] = "open" /\ link[q] = "open"
  <2>1. \A i \in DOMAIN (line \o msgs) : (line \o msgs)[i].ok
    <3>1. /\ \A i \in DOMAIN line : (line \o msgs)[i] = line[i]
          /\ \A i \in DOMAIN msgs : (line \o msgs)[Len(line) + i] = msgs[i]
          /\ \A i \in DOMAIN (line \o msgs) :
               i \in DOMAIN line \/ \E j \in DOMAIN msgs : i = Len(line) + j
      BY <1>1, <1>6, PlacesInConcat
    <3>2. QED BY <1>6, <1>7, <3>1
  <2>2. IceIn(line \o msgs) = IceIn(line) \cup (forwarded[p] + 1)..forwarded'[p]
    <3>1. line \in Seq(Message) /\ msgs \in Seq(Message)
      BY <1>1, <1>6
    <3>2. IceIn(line \o msgs) = IceIn(line) \cup IceIn(msgs)
      BY <3>1, ConcatHolds
    <3>3. IceIn(msgs) = (forwarded[p] + 1)..forwarded'[p]
      BY <1>6
    <3>4. QED BY <3>2, <3>3
  <2>3. (forwarded[p] + 1)..forwarded'[p] \subseteq 1..m
    BY <1>8
  <2>4. 1..forwarded'[p] \subseteq 1..forwarded[p] \cup (forwarded[p] + 1)..forwarded'[p]
    BY <1>8
  <2>5. DoneIsLast(line \o msgs, Got(q), m)
    <3>1. CASE first = <<Msg("ICE_DONE")>>
      <4>1. forwarded[p] = n /\ m = n
        BY <1>4, <1>9, <3>1 DEF Speaks, n
      <4>2. 1..m \subseteq Got(q) \cup IceIn(line)
        BY <1>7, <1>13, <4>1
      <4>3. QED BY <1>1, <1>6, <1>10, <4>2, ConcatDone
    <3>2. CASE first # <<Msg("ICE_DONE")>>
      <4>1. "ICE_DONE" \notin KindsIn(msgs)
        BY <1>6, <3>2
      <4>2. QED BY <1>1, <1>6, <1>10, <4>1, ConcatDone
    <3>3. QED BY <3>1, <3>2
  <2>6. QED BY <1>7, <1>9, <1>11, <1>13, <2>1, <2>2, <2>3, <2>4, <2>5
<1>14. QED BY <1>3, <1>12, <1>13

-----------------------------------------------------------------------------
(* The steps in which a peer hangs up: it fails, or its data channel is    *)
(* open.                                                                   *)

OwnFlags(p) ==
  /\ gather'[p] = gather[p] /\ gathered'[p] = gathered[p] /\ forwarded'[p] = forwarded[p]
  /\ described'[p] = described[p] /\ local_done'[p] = local_done[p]
  /\ remote_done'[p] = remote_done[p]
  /\ pending_ice'[p] = pending_ice[p] /\ applied'[p] = applied[p]

Leaves(p) ==
  /\ platform' = platform /\ open' = open /\ Bystander(Other(p)) /\ OwnFlags(p)
  /\ HangUp(p)
  /\ stage[p] \in {"await", "exchange", "channel"} \/ (stage[p] = "connected" /\ Wasi(p))
  /\ \/ /\ stage'[p] = "failed"
        /\ why'[p] = "peer left" =>
             chan[p] # <<>> /\ Head(chan[p]).kind = "PEER_LEFT" /\ ~Complete(p)
             /\ stage[p] # "channel"
        /\ why'[p] = "closed" => link[p] = "cut" /\ stage[p] \in {"await", "exchange"}
     \/ stage[p] = "channel" /\ stage'[p] = "connected" /\ open /\ why'[p] = why[p]

PeerLeft == <<Msg("PEER_LEFT")>>

LEMMA PeerLeftIs ==
  /\ PeerLeft \in Seq(Message) /\ KindsIn(PeerLeft) = {"PEER_LEFT"} /\ IceIn(PeerLeft) = {}
  /\ DOMAIN PeerLeft = {1} /\ PeerLeft[1].ok /\ Msg("PEER_LEFT") \in Message
  /\ BehindAnswer(PeerLeft)
<1>1. Msg("PEER_LEFT") \in Message /\ Msg("PEER_LEFT").kind = "PEER_LEFT" /\ Msg("PEER_LEFT").ok
  BY RtcAssumption DEF Msg, Message, Kinds
<1>2. PeerLeft \in Seq(Message) /\ DOMAIN PeerLeft = {1} /\ PeerLeft[1] = Msg("PEER_LEFT")
  BY <1>1 DEF PeerLeft
<1>3. \A i \in DOMAIN PeerLeft : PeerLeft[i].kind = "PEER_LEFT"
  BY <1>1, <1>2
<1>4. KindsIn(PeerLeft) = {"PEER_LEFT"}
  BY <1>2, <1>3 DEF KindsIn
<1>5. IceIn(PeerLeft) = {} /\ BehindAnswer(PeerLeft)
  BY <1>3 DEF IceIn, BehindAnswer
<1>6. QED BY <1>1, <1>2, <1>4, <1>5

(* A line with PEER_LEFT behind it. *)
LEMMA WithPeerLeft ==
  ASSUME NEW s \in Seq(Message)
  PROVE  /\ s \o PeerLeft \in Seq(Message)
         /\ KindsIn(s \o PeerLeft) = KindsIn(s) \cup {"PEER_LEFT"}
         /\ IceIn(s \o PeerLeft) = IceIn(s)
         /\ Precedes(s, "ICE_DONE", "PEER_LEFT") => Precedes(s \o PeerLeft, "ICE_DONE", "PEER_LEFT")
         /\ Precedes(s, "ANSWER", "ICE") => Precedes(s \o PeerLeft, "ANSWER", "ICE")
         /\ BehindAnswer(s) => BehindAnswer(s \o PeerLeft)
         /\ \A got, n : DoneIsLast(s, got, n) => DoneIsLast(s \o PeerLeft, got, n)
         /\ \A lo, hi \in Nat : DataRises(s, lo, hi) => DataRises(s \o PeerLeft, lo, hi)
         /\ (\A i \in DOMAIN s : s[i].ok) => \A i \in DOMAIN (s \o PeerLeft) : (s \o PeerLeft)[i].ok
<1>1. /\ PeerLeft \in Seq(Message) /\ KindsIn(PeerLeft) = {"PEER_LEFT"} /\ IceIn(PeerLeft) = {}
      /\ \A i \in DOMAIN PeerLeft : PeerLeft[i].ok
      /\ BehindAnswer(PeerLeft)
  BY PeerLeftIs
<1>2. /\ s \o PeerLeft \in Seq(Message)
      /\ KindsIn(s \o PeerLeft) = KindsIn(s) \cup {"PEER_LEFT"}
      /\ IceIn(s \o PeerLeft) = IceIn(s)
  <2>1. /\ s \o PeerLeft \in Seq(Message)
        /\ KindsIn(s \o PeerLeft) = KindsIn(s) \cup KindsIn(PeerLeft)
        /\ IceIn(s \o PeerLeft) = IceIn(s) \cup IceIn(PeerLeft)
    <3>1. PeerLeft \in Seq(Message)
      BY <1>1
    <3>2. s \o PeerLeft \in Seq(Message)
      BY <3>1
    <3>3. QED BY <3>1, <3>2, ConcatHolds
  <2>2. QED BY <1>1, <2>1
<1>3. /\ Precedes(s, "ICE_DONE", "PEER_LEFT") => Precedes(s \o PeerLeft, "ICE_DONE", "PEER_LEFT")
      /\ Precedes(s, "ANSWER", "ICE") => Precedes(s \o PeerLeft, "ANSWER", "ICE")
  BY <1>1, ConcatPrecedes
<1>4. BehindAnswer(s) => BehindAnswer(s \o PeerLeft)
  BY <1>1, ConcatBehind
<1>5. \A got, n : DoneIsLast(s, got, n) => DoneIsLast(s \o PeerLeft, got, n)
  BY <1>1, ConcatDone
<1>a. \A lo, hi \in Nat : DataRises(s, lo, hi) => DataRises(s \o PeerLeft, lo, hi)
  BY <1>1, ConcatRises
<1>6. (\A i \in DOMAIN s : s[i].ok) => \A i \in DOMAIN (s \o PeerLeft) : (s \o PeerLeft)[i].ok
  <2>1. /\ \A i \in DOMAIN s : (s \o PeerLeft)[i] = s[i]
        /\ \A i \in DOMAIN PeerLeft : (s \o PeerLeft)[Len(s) + i] = PeerLeft[i]
        /\ \A i \in DOMAIN (s \o PeerLeft) :
             i \in DOMAIN s \/ \E j \in DOMAIN PeerLeft : i = Len(s) + j
    BY <1>1, PlacesInConcat
  <2>2. QED BY <1>1, <2>1
<1>7. QED BY <1>2, <1>3, <1>4, <1>5, <1>6, <1>a

(* What a leaving peer does to the lines.                                  *)
LEMMA LeaveMoves ==
  ASSUME NEW p \in Peer, StateTyped, LinesTyped, HangUp(p)
  PROVE  /\ LinesTyped' /\ orphan' = orphan /\ chan'[p] = <<>>
         /\ link' \in [Peer -> {"open", "cut", "left"}]
         /\ link'[p] = "left" /\ link'[Other(p)] = link[Other(p)]
         /\ chan'[Other(p)] = chan[Other(p)] \/ chan'[Other(p)] = chan[Other(p)] \o PeerLeft
<1> DEFINE q == Other(p)
           line == IF link[p] # "left" /\ link[q] = "open" THEN chan[q] \o PeerLeft ELSE chan[q]
<1>1. q \in Peer /\ chan \in [Peer -> Seq(Message)] /\ link \in [Peer -> {"open", "cut", "left"}]
  BY TwoPeers DEF StateTyped, LinesTyped
<1>2. chan[q] \in Seq(Message) /\ Msg("PEER_LEFT") \in Message
  BY <1>1, PeerLeftIs
<1>3. Append(chan[q], Msg("PEER_LEFT")) = chan[q] \o PeerLeft
  BY <1>2, AppendIsConcat DEF PeerLeft
<1>4. line \in Seq(Message) /\ <<>> \in Seq(Message)
  BY <1>2, WithPeerLeft
<1>5. chan' = [chan EXCEPT ![p] = <<>>, ![q] = line]
  <2>1. chan' = [chan EXCEPT ![p] = <<>>,
                   ![q] = IF link[p] # "left" /\ link[q] = "open"
                          THEN Append(@, Msg("PEER_LEFT")) ELSE @]
    BY DEF HangUp
  <2>2. q # p
    BY TwoPeers
  <2>3. QED BY <1>1, <1>3, <2>1, <2>2
<1>6. link' = [link EXCEPT ![p] = "left"] /\ orphan' = orphan
  BY DEF HangUp, Put
<1>7. line = chan[q] \/ line = chan[q] \o PeerLeft
  OBVIOUS
<1> HIDE DEF line
<1>a. p # q
  BY TwoPeers
<1>8. chan' \in [Peer -> Seq(Message)] /\ chan'[p] = <<>> /\ chan'[q] = line
  BY <1>1, <1>4, <1>5, <1>a
<1>9. link' \in [Peer -> {"open", "cut", "left"}] /\ link'[p] = "left" /\ link'[q] = link[q]
  BY <1>1, <1>6, <1>a
<1>10. QED BY <1>6, <1>7, <1>8, <1>9 DEF LinesTyped

LEMMA LeaverWasHere ==
  ASSUME RtcInv, NEW p \in Peer, stage[p] # "failed", stage[p] = "connected" => Wasi(p)
  PROVE  link[p] # "left" /\ ~orphan[Other(p)]
<1>1. Links(p) /\ Links(Other(p)) /\ Other(Other(p)) = p
  BY InvOf, TwoPeers
<1>2. QED BY <1>1 DEF Links

LEMMA LeaveLinks ==
  ASSUME RtcInv, NEW p \in Peer, Leaves(p)
  PROVE  Links(p)' /\ Links(Other(p))'
<1> DEFINE q == Other(p)
<1>1. /\ StateTyped /\ LinesTyped /\ Links(p) /\ Links(q) /\ Control(p)
      /\ chan[q] \in Seq(Message)
  BY InvOf
<1>2. Other(q) = p
  BY TwoPeers
<1>3. /\ orphan' = orphan /\ chan'[p] = <<>>
      /\ link'[p] = "left" /\ link'[q] = link[q]
      /\ chan'[q] = chan[q] \/ chan'[q] = chan[q] \o PeerLeft
  BY <1>1, LeaveMoves DEF Leaves
<1>4. Bystander(q) /\ OwnFlags(p) /\ platform' = platform /\ open' = open
  BY DEF Leaves
<1>5. \/ stage'[p] = "failed"
      \/ stage[p] = "channel" /\ stage'[p] = "connected" /\ open
  BY DEF Leaves
<1>6. open => ~Wasi(p)
  BY <1>1 DEF Control
<1>7. Links(p)'
  <2>1. KindsIn(chan'[p]) = {} /\ Precedes(chan'[p], "ICE_DONE", "PEER_LEFT")
    BY <1>3, EmptyLine
  <2>2. Wasi(p)' = Wasi(p) /\ remote_done'[p] = remote_done[p] /\ local_done'[q] = local_done[q]
    BY <1>4 DEF Wasi, OwnFlags, Bystander
  <2>3. QED BY <1>1, <1>3, <1>4, <1>5, <1>6, <2>1, <2>2 DEF Links
<1>8. Links(q)'
  <2>1. /\ stage'[q] = stage[q] /\ Wasi(q)' = Wasi(q) /\ remote_done'[q] = remote_done[q]
        /\ local_done'[p] = local_done[p]
    BY <1>4 DEF Wasi, OwnFlags, Bystander
  <2>2. /\ "ICE_DONE" \in KindsIn(chan'[q]) => "ICE_DONE" \in KindsIn(chan[q])
        /\ Precedes(chan'[q], "ICE_DONE", "PEER_LEFT")
    <3>1. chan[q] \in Seq(Message) /\ Precedes(chan[q], "ICE_DONE", "PEER_LEFT")
      BY <1>1 DEF Links
    <3>2. /\ KindsIn(chan[q] \o PeerLeft) = KindsIn(chan[q]) \cup {"PEER_LEFT"}
          /\ Precedes(chan[q] \o PeerLeft, "ICE_DONE", "PEER_LEFT")
      BY <3>1, WithPeerLeft
    <3>3. CASE chan'[q] = chan[q]
      BY <3>1, <3>3
    <3>4. CASE chan'[q] = chan[q] \o PeerLeft
      BY <3>2, <3>4
    <3>5. QED BY <1>3, <3>3, <3>4
  <2>3. QED BY <1>1, <1>2, <1>3, <1>4, <2>1, <2>2 DEF Links
<1>9. QED BY <1>7, <1>8

LEMMA LeaveAnswer ==
  ASSUME RtcInv, NEW p \in Peer, Leaves(p)
  PROVE  AnswerInv'
<1> DEFINE q == Other(p)
<1>1. /\ StateTyped /\ LinesTyped /\ AnswerInv /\ chan[q] \in Seq(Message)
  BY InvOf
<1>2. /\ (p = "offerer" /\ q = "answerer") \/ (p = "answerer" /\ q = "offerer")
  BY TwoPeers DEF Peer
<1>3. /\ chan'[p] = <<>> /\ link'[p] = "left"
      /\ chan'[q] = chan[q] \/ chan'[q] = chan[q] \o PeerLeft
  BY <1>1, LeaveMoves DEF Leaves
<1>4. CASE p = "offerer"
  <2>1. chan'["offerer"] = <<>> /\ link'["offerer"] = "left"
    BY <1>3, <1>4
  <2>2. QED BY <2>1, EmptyLine DEF AnswerInv
<1>5. CASE p = "answerer"
  <2>1. /\ stage'["answerer"] \in {"failed", "connected"} /\ link'["answerer"] = "left"
        /\ described'["offerer"] = described["offerer"]
    BY <1>2, <1>3, <1>5 DEF Leaves, Bystander
  <2>2. /\ Precedes(chan["offerer"], "ANSWER", "ICE")
        /\ ~described["offerer"] => BehindAnswer(chan["offerer"])
    BY <1>1 DEF AnswerInv
  <2>3. /\ Precedes(chan'["offerer"], "ANSWER", "ICE")
        /\ ~described["offerer"] => BehindAnswer(chan'["offerer"])
    BY <1>1, <1>2, <1>3, <1>5, <2>2, WithPeerLeft
  <2>4. QED BY <2>1, <2>3 DEF AnswerInv
<1>6. QED BY <1>2, <1>4, <1>5

LEMMA LeaveLoss ==
  ASSUME RtcInv, NEW p \in Peer, Leaves(p)
  PROVE  LossInv(p)' /\ LossInv(Other(p))'
<1> DEFINE q == Other(p)
<1>1. /\ StateTyped /\ LinesTyped /\ Links(p) /\ Links(q) /\ LossInv(p) /\ LossInv(q)
      /\ Control(p) /\ Control(q)
      /\ chan[p] \in Seq(Message) /\ chan[q] \in Seq(Message)
  BY InvOf
<1>2. q \in Peer /\ q # p /\ Other(q) = p /\ Other(p) = q
  BY TwoPeers
<1>3. /\ orphan' = orphan /\ chan'[p] = <<>>
      /\ link'[p] = "left" /\ link'[q] = link[q]
      /\ chan'[q] = chan[q] \/ chan'[q] = chan[q] \o PeerLeft
  BY <1>1, LeaveMoves DEF Leaves
<1>4. Bystander(q) /\ OwnFlags(p) /\ platform' = platform /\ open' = open
  BY DEF Leaves
<1>5. /\ stage[p] \in {"await", "exchange", "channel"} \/ (stage[p] = "connected" /\ Wasi(p))
      /\ \/ /\ stage'[p] = "failed"
            /\ why'[p] = "peer left" =>
                 chan[p] # <<>> /\ Head(chan[p]).kind = "PEER_LEFT" /\ ~Complete(p)
                 /\ stage[p] # "channel"
            /\ why'[p] = "closed" => link[p] = "cut" /\ stage[p] \in {"await", "exchange"}
         \/ stage[p] = "channel" /\ stage'[p] = "connected" /\ open /\ why'[p] = why[p]
  BY DEF Leaves
<1>6. /\ link[p] # "left" /\ ~orphan[q]
  BY <1>5, LeaverWasHere
<1>7. /\ \A r : Wasi(r)' = Wasi(r) /\ Browser(r)' = Browser(r) /\ Native(r)' = Native(r)
  BY <1>4 DEF Wasi, Browser, Native
<1>8. /\ stage'[q] = stage[q] /\ why'[q] = why[q] /\ remote_done'[q] = remote_done[q]
      /\ local_done'[q] = local_done[q] /\ LeftWell(q)' = LeftWell(q)
      /\ local_done'[p] = local_done[p] /\ remote_done'[p] = remote_done[p]
  BY <1>4, <1>7 DEF Bystander, LeftWell, OwnFlags
<1>9. Native(p) \/ Browser(p) \/ Wasi(p)
  BY <1>1 DEF StateTyped, Platform, Wasi, Browser, Native
<1>10. ASSUME link[q] = "left", stage[q] # "failed"
       PROVE  stage[q] = "connected" /\ ~Wasi(q) /\ ~Wasi(p) /\ stage[p] # "connected"
  <2>1. stage[q] = "connected" /\ ~Wasi(q) /\ open
    BY <1>1, <1>10 DEF Links
  <2>2. ~Wasi(p)
    BY <1>1, <2>1 DEF Control
  <2>3. QED BY <1>5, <2>1, <2>2
<1>11. ASSUME link[q] = "left", stage[q] # "failed", remote_done[q]
       PROVE  LeftWell(q) /\ local_done[p]
  BY <1>1, <1>2, <1>10, <1>11 DEF LeftWell, Links
<1>12. ASSUME link[q] = "left", stage[q] # "failed", ~remote_done[q]
       PROVE  stage[q] = "connected" /\ Browser(q) /\ ~remote_done[q]
  BY <1>1, <1>10, <1>12 DEF Control
<1>13. ASSUME why'[p] \in {"peer left", "closed"}, stage[q] # "failed"
       PROVE  stage[q] = "connected" /\ Browser(q) /\ ~remote_done[q]
  <2>1. stage'[p] = "failed"
    <3>1. stage[p] = "channel" => why[p] = "none"
      BY <1>1 DEF StateTyped
    <3>2. QED BY <1>5, <1>13, <3>1
  <2>2. link[q] = "left"
    <3>1. CASE why'[p] = "peer left"
      <4>1. "PEER_LEFT" \in KindsIn(chan[p])
        BY <1>1, <1>5, <2>1, <3>1, TailHolds
      <4>2. QED BY <1>1, <4>1 DEF Links
    <3>2. CASE why'[p] = "closed"
      BY <1>1, <1>5, <2>1, <3>2 DEF Links
    <3>3. QED BY <1>13, <3>1, <3>2
  <2>3. ASSUME remote_done[q] PROVE FALSE
    <3>1. LeftWell(q) /\ local_done[p] /\ ~Wasi(p) /\ ~Wasi(q) /\ stage[q] = "connected"
      BY <1>10, <1>11, <1>13, <2>2, <2>3
    <3>2. stage[p] \in {"await", "exchange"}
      BY <1>5, <1>13, <2>1, <3>1
    <3>3. Native(p) /\ stage[p] = "exchange"
      BY <1>1, <1>9, <3>1, <3>2 DEF Control
    <3>4. ~Browser(p)
      BY <3>3 DEF Native, Browser
    <3>5. ~orphan[p]
      BY <1>1, <1>2, <3>1, <3>4 DEF LossInv
    <3>6. CASE why'[p] = "closed"
      BY <1>1, <1>5, <2>1, <3>5, <3>6 DEF Links
    <3>7. CASE why'[p] = "peer left"
      <4>1. "ICE_DONE" \notin KindsIn(chan[p])
        BY <1>1, <1>5, <2>1, <3>7, NothingBefore DEF Links
      <4>2. local_done[q]
        BY <1>1, <3>1 DEF Control
      <4>3. remote_done[p]
        BY <1>1, <1>13, <3>3, <3>5, <4>1, <4>2 DEF LossInv
      <4>4. open
        BY <1>1, <2>2, <3>1 DEF Links
      <4>5. described[p]
        BY <1>1, <4>4 DEF Control
      <4>6. Complete(p)
        BY <3>1, <3>3, <3>4, <4>3, <4>5 DEF Complete
      <4>7. QED BY <1>5, <2>1, <3>7, <4>6
    <3>8. QED BY <1>13, <3>6, <3>7
  <2>4. QED BY <1>1, <1>12, <1>13, <2>2, <2>3 DEF StateTyped
<1>14. LossInv(p)'
  <2>1. orphan'[p] /\ LeftWell(q)' => Browser(p)' /\ local_done'[p]
    BY <1>1, <1>3, <1>7, <1>8 DEF LossInv
  <2>2. stage'[p] \in {"channel", "connected", "failed"}
    BY <1>5
  <2>3. QED BY <1>7, <1>8, <1>13, <2>1, <2>2 DEF LossInv
<1>15. LossInv(q)'
  <2>1. why[q] \notin {"peer left", "closed"}
    <3>1. ~(stage[p] = "failed") /\ ~(stage[p] = "connected" /\ Browser(p))
      BY <1>5 DEF Wasi, Browser
    <3>2. QED BY <1>1, <1>2, <3>1 DEF LossInv
  <2>2. ASSUME Native(q), stage[q] \notin {"channel", "connected", "failed"}, local_done[p]
        PROVE  remote_done[q] \/ "ICE_DONE" \in KindsIn(chan'[q])
    <3>1. remote_done[q] \/ "ICE_DONE" \in KindsIn(chan[q])
      BY <1>1, <1>2, <1>5, <1>6, <2>2 DEF LossInv
    <3>2. "ICE_DONE" \in KindsIn(chan[q]) => "ICE_DONE" \in KindsIn(chan'[q])
      BY <1>1, <1>3, WithPeerLeft
    <3>3. QED BY <3>1, <3>2
  <2>3. QED BY <1>2, <1>3, <1>6, <1>7, <1>8, <2>1, <2>2 DEF LossInv
<1>16. QED BY <1>14, <1>15

LEMMA LeaveCand ==
  ASSUME RtcInv, NEW p \in Peer, Leaves(p)
  PROVE  CandInv(p)' /\ CandInv(Other(p))'
<1> DEFINE q == Other(p)
<1>1. /\ StateTyped /\ LinesTyped /\ CandInv(p) /\ CandInv(q)
      /\ chan[p] \in Seq(Message) /\ chan[q] \in Seq(Message)
  BY InvOf
<1>2. Other(q) = p
  BY TwoPeers
<1>3. /\ chan'[p] = <<>> /\ link'[p] = "left"
      /\ chan'[q] = chan[q] \/ chan'[q] = chan[q] \o PeerLeft
  BY <1>1, LeaveMoves DEF Leaves
<1>4. Bystander(q) /\ OwnFlags(p) /\ platform' = platform
  BY DEF Leaves
<1>5. \A r : Wasi(r)' = Wasi(r) /\ Browser(r)' = Browser(r)
  BY <1>4 DEF Wasi, Browser
<1>6. /\ Got(p)' = Got(p) /\ remote_done'[p] = remote_done[p]
      /\ Got(q)' = Got(q) /\ remote_done'[q] = remote_done[q]
      /\ gathered'[p] = gathered[p] /\ gathered'[q] = gathered[q]
  BY <1>4 DEF Got, OwnFlags, Bystander
<1>7. CandInv(p)'
  <2>1. /\ DOMAIN chan'[p] = {} /\ IceIn(chan'[p]) = {}
        /\ DoneIsLast(chan'[p], Got(p), gathered[q])
    BY <1>3, EmptyLine
  <2>2. QED BY <1>1, <1>3, <1>5, <1>6, <2>1 DEF CandInv
<1>8. CandInv(q)'
  <2>1. /\ IceIn(chan'[q]) = IceIn(chan[q])
        /\ DoneIsLast(chan[q], Got(q), gathered[p]) => DoneIsLast(chan'[q], Got(q), gathered[p])
        /\ (\A i \in DOMAIN chan[q] : chan[q][i].ok) => \A i \in DOMAIN chan'[q] : chan'[q][i].ok
    BY <1>1, <1>3, WithPeerLeft
  <2>2. QED BY <1>1, <1>2, <1>3, <1>5, <1>6, <2>1 DEF CandInv
<1>9. QED BY <1>7, <1>8

-----------------------------------------------------------------------------
(* The steps that leave the lines alone.                                   *)

Works(p) ==
  /\ platform' = platform /\ link' = link /\ orphan' = orphan /\ chan' = chan
  /\ Bystander(Other(p)) /\ why'[p] = why[p] /\ (open => open')
  /\ forwarded'[p] = forwarded[p] /\ described'[p] = described[p]
  /\ local_done'[p] = local_done[p] /\ remote_done'[p] = remote_done[p]
  /\ pending_ice'[p] = pending_ice[p] /\ applied'[p] = applied[p]
  /\ \/ gathered'[p] = gathered[p]
     \/ /\ gathered'[p] \in Nat /\ gathered[p] <= gathered'[p]
        /\ ~local_done[p] \/ Browser(p)
  /\ \/ stage'[p] = stage[p]
     \/ stage[p] = "describe" /\ stage'[p] = "offering"
     \/ stage[p] = "exchange" /\ stage'[p] = (IF Wasi(p) THEN "connected" ELSE "channel")

LEMMA WorkKeeps ==
  ASSUME RtcInv, NEW p \in Peer, Works(p)
  PROVE  /\ Links(p)' /\ Links(Other(p))' /\ LossInv(p)' /\ LossInv(Other(p))'
         /\ CandInv(p)' /\ CandInv(Other(p))' /\ AnswerInv'
<1> DEFINE q == Other(p)
<1>1. /\ StateTyped /\ Control(p) /\ Links(p) /\ Links(q) /\ LossInv(p) /\ LossInv(q)
      /\ CandInv(p) /\ CandInv(q) /\ AnswerInv
  BY InvOf
<1>2. q \in Peer /\ Other(q) = p
      /\ ((p = "offerer" /\ q = "answerer") \/ (p = "answerer" /\ q = "offerer"))
  BY TwoPeers DEF Peer
<1>3. platform' = platform /\ link' = link /\ orphan' = orphan /\ chan' = chan
      /\ (open => open') /\ Bystander(q)
  BY DEF Works
<1>4. /\ why'[p] = why[p] /\ forwarded'[p] = forwarded[p] /\ described'[p] = described[p]
      /\ local_done'[p] = local_done[p] /\ remote_done'[p] = remote_done[p]
      /\ Got(p)' = Got(p)
  BY DEF Works, Got
<1>5. /\ stage'[q] = stage[q] /\ why'[q] = why[q] /\ forwarded'[q] = forwarded[q]
      /\ described'[q] = described[q] /\ gathered'[q] = gathered[q]
      /\ local_done'[q] = local_done[q] /\ remote_done'[q] = remote_done[q]
      /\ Got(q)' = Got(q)
  BY <1>3 DEF Bystander, Got
<1>6. \A r : Wasi(r)' = Wasi(r) /\ Browser(r)' = Browser(r) /\ Native(r)' = Native(r)
  BY <1>3 DEF Wasi, Browser, Native
<1>7. /\ \/ stage'[p] = stage[p]
         \/ stage[p] = "describe" /\ stage'[p] = "offering"
         \/ stage[p] = "exchange" /\ stage'[p] = (IF Wasi(p) THEN "connected" ELSE "channel")
  BY DEF Works
<1>8. LeftWell(p)' = LeftWell(p) /\ LeftWell(q)' = LeftWell(q)
  <2>1. stage'[p] = "connected" /\ ~Wasi(p) <=> stage[p] = "connected" /\ ~Wasi(p)
    BY <1>7
  <2>2. QED BY <1>4, <1>5, <1>6, <2>1 DEF LeftWell
<1>9. Links(p)' /\ Links(q)'
  <2>1. stage'[p] = "failed" <=> stage[p] = "failed"
    BY <1>7
  <2>2. stage[p] = "connected" => stage'[p] = "connected"
    BY <1>7
  <2>3. Links(p)'
    BY <1>1, <1>3, <1>4, <1>5, <1>6, <2>1, <2>2 DEF Links
  <2>4. Links(q)'
    BY <1>1, <1>2, <1>3, <1>4, <1>5, <1>6 DEF Links
  <2>5. QED BY <2>3, <2>4
<1>10. LossInv(p)'
  <2>1. stage'[p] \notin {"channel", "connected", "failed"} =>
          stage[p] \notin {"channel", "connected", "failed"}
    BY <1>7
  <2>2. QED BY <1>1, <1>3, <1>4, <1>5, <1>6, <1>8, <2>1 DEF LossInv
<1>11. LossInv(q)'
  <2>1. stage'[p] = "failed" <=> stage[p] = "failed"
    BY <1>7
  <2>2. stage[p] = "connected" => stage'[p] = "connected"
    BY <1>7
  <2>3. QED BY <1>1, <1>2, <1>3, <1>4, <1>5, <1>6, <1>8, <2>1, <2>2 DEF LossInv
<1>12. CandInv(p)'
  BY <1>1, <1>3, <1>4, <1>5, <1>6 DEF CandInv
<1>13. CandInv(q)'
  <2>1. CASE gathered'[p] = gathered[p]
    BY <1>1, <1>2, <1>3, <1>4, <1>5, <1>6, <2>1 DEF CandInv
  <2>2. CASE gathered'[p] # gathered[p]
    <3>1. /\ gathered'[p] \in Nat /\ gathered[p] \in Nat /\ gathered[p] <= gathered'[p]
          /\ ~local_done[p] \/ Browser(p)
      BY <1>1, <2>2 DEF Works, StateTyped
    <3>2. 1..gathered[p] \subseteq 1..gathered'[p]
      BY <3>1
    <3>3. ~local_done[p] => "ICE_DONE" \notin KindsIn(chan[q]) /\ ~remote_done[q]
      BY <1>1, <1>2 DEF Links
    <3>4. ~local_done[p] => \A got, n : DoneIsLast(chan[q], got, n)
      BY <3>3 DEF DoneIsLast, KindsIn
    <3>5. QED BY <1>1, <1>2, <1>3, <1>4, <1>5, <1>6, <3>1, <3>2, <3>3, <3>4 DEF CandInv
  <2>3. QED BY <2>1, <2>2
<1>14. AnswerInv'
  <2>1. stage'["answerer"] \in {"await", "answering"} <=> stage["answerer"] \in {"await", "answering"}
    BY <1>2, <1>5, <1>7
  <2>2. described'["offerer"] = described["offerer"]
    BY <1>2, <1>4, <1>5
  <2>3. QED BY <1>1, <1>3, <2>1, <2>2 DEF AnswerInv
<1>15. QED BY <1>9, <1>10, <1>11, <1>12, <1>13, <1>14

-----------------------------------------------------------------------------
(* The faults.                                                             *)

LEMMA CutLine ==
  ASSUME NEW s \in Seq(Message), NEW k \in 0..Len(s)
  PROVE  LET t == SubSeq(s, 1, k) IN
         /\ t \in Seq(Message)
         /\ KindsIn(t) \subseteq KindsIn(s) /\ IceIn(t) \subseteq IceIn(s)
         /\ Precedes(s, "ICE_DONE", "PEER_LEFT") => Precedes(t, "ICE_DONE", "PEER_LEFT")
         /\ Precedes(s, "ANSWER", "ICE") => Precedes(t, "ANSWER", "ICE")
         /\ BehindAnswer(s) => BehindAnswer(t)
         /\ \A got, n : DoneIsLast(s, got, n) => DoneIsLast(t, got, n)
         /\ \A lo, hi \in Nat : DataRises(s, lo, hi) => DataRises(t, lo, hi)
         /\ (\A i \in DOMAIN s : s[i].ok) => \A i \in DOMAIN t : t[i].ok
<1> DEFINE t == SubSeq(s, 1, k)
<1>1. t \in Seq(Message) /\ \A i \in DOMAIN t : i \in DOMAIN s /\ t[i] = s[i]
  BY PlacesInPrefix
<1>2. KindsIn(t) \subseteq KindsIn(s) /\ IceIn(t) \subseteq IceIn(s)
  BY PrefixHolds
<1>3. /\ Precedes(s, "ICE_DONE", "PEER_LEFT") => Precedes(t, "ICE_DONE", "PEER_LEFT")
      /\ Precedes(s, "ANSWER", "ICE") => Precedes(t, "ANSWER", "ICE")
  BY PrefixPrecedes
<1>4. BehindAnswer(s) => BehindAnswer(t)
  BY PrefixBehind
<1>5. \A got, n : DoneIsLast(s, got, n) => DoneIsLast(t, got, n)
  BY PrefixDone
<1>a. \A lo, hi \in Nat : DataRises(s, lo, hi) => DataRises(t, lo, hi)
  BY PrefixRises
<1> HIDE DEF t
<1>6. (\A i \in DOMAIN s : s[i].ok) => \A i \in DOMAIN t : t[i].ok
  BY <1>1
<1>7. QED BY <1>1, <1>2, <1>3, <1>4, <1>5, <1>6, <1>a DEF t

(* t is a line of which the end was lost and PEER_LEFT may have come since. *)
Cut(t, s) ==
  /\ t \in Seq(Message)
  /\ KindsIn(t) \subseteq KindsIn(s) \cup {"PEER_LEFT"} /\ IceIn(t) \subseteq IceIn(s)
  /\ Precedes(s, "ICE_DONE", "PEER_LEFT") => Precedes(t, "ICE_DONE", "PEER_LEFT")
  /\ Precedes(s, "ANSWER", "ICE") => Precedes(t, "ANSWER", "ICE")
  /\ BehindAnswer(s) => BehindAnswer(t)
  /\ \A got, n : DoneIsLast(s, got, n) => DoneIsLast(t, got, n)
  /\ \A lo, hi \in Nat : DataRises(s, lo, hi) => DataRises(t, lo, hi)
  /\ (\A i \in DOMAIN s : s[i].ok) => \A i \in DOMAIN t : t[i].ok

LEMMA CutsOfLine ==
  ASSUME NEW s \in Seq(Message), NEW k \in 0..Len(s)
  PROVE  Cut(s, s) /\ Cut(SubSeq(s, 1, k), s) /\ Cut(SubSeq(s, 1, k) \o PeerLeft, s)
<1> DEFINE t == SubSeq(s, 1, k)
<1>1. Cut(s, s)
  BY DEF Cut
<1>2. Cut(t, s) /\ t \in Seq(Message) /\ KindsIn(t) \subseteq KindsIn(s)
  BY CutLine DEF Cut
<1> HIDE DEF t
<1>3. Cut(t \o PeerLeft, s)
  <2>1. /\ t \o PeerLeft \in Seq(Message)
        /\ KindsIn(t \o PeerLeft) = KindsIn(t) \cup {"PEER_LEFT"}
        /\ IceIn(t \o PeerLeft) = IceIn(t)
        /\ Precedes(t, "ICE_DONE", "PEER_LEFT") => Precedes(t \o PeerLeft, "ICE_DONE", "PEER_LEFT")
        /\ Precedes(t, "ANSWER", "ICE") => Precedes(t \o PeerLeft, "ANSWER", "ICE")
        /\ BehindAnswer(t) => BehindAnswer(t \o PeerLeft)
        /\ \A got, n : DoneIsLast(t, got, n) => DoneIsLast(t \o PeerLeft, got, n)
        /\ \A lo, hi \in Nat : DataRises(t, lo, hi) => DataRises(t \o PeerLeft, lo, hi)
        /\ (\A i \in DOMAIN t : t[i].ok) => \A i \in DOMAIN (t \o PeerLeft) : (t \o PeerLeft)[i].ok
    BY <1>2, WithPeerLeft
  <2> DEFINE u == t \o PeerLeft
  <2> HIDE DEF u
  <2>2. QED BY <1>2, <2>1 DEF Cut
<1>4. QED BY <1>1, <1>2, <1>3 DEF t

LEMMA CrashMoves ==
  ASSUME NEW p \in Peer, StateTyped, LinesTyped, Crash(p)
  PROVE  /\ LinesTyped' /\ orphan' = orphan /\ chan'[p] = <<>>
         /\ link' \in [Peer -> {"open", "cut", "left"}]
         /\ link'[p] = "left" /\ link'[Other(p)] = link[Other(p)]
         /\ Cut(chan'[Other(p)], chan[Other(p)])
<1> DEFINE q == Other(p)
<1>1. /\ q \in Peer /\ q # p
      /\ chan \in [Peer -> Seq(Message)] /\ link \in [Peer -> {"open", "cut", "left"}]
  BY TwoPeers DEF StateTyped, LinesTyped
<1>2. PICK k \in 0..Len(chan[q]) :
        chan' = [chan EXCEPT ![p] = <<>>,
           ![q] = IF link[p] = "open" /\ link[q] = "open"
                  THEN Append(SubSeq(@, 1, k), Msg("PEER_LEFT")) ELSE @]
  BY DEF Crash
<1> DEFINE t == SubSeq(chan[q], 1, k)
           line == IF link[p] = "open" /\ link[q] = "open" THEN t \o PeerLeft ELSE chan[q]
<1>3. chan[q] \in Seq(Message) /\ Msg("PEER_LEFT") \in Message
  BY <1>1, PeerLeftIs
<1>4. /\ Cut(chan[q], chan[q]) /\ Cut(t, chan[q]) /\ Cut(t \o PeerLeft, chan[q])
  BY <1>3, CutsOfLine
<1>5. Append(t, Msg("PEER_LEFT")) = t \o PeerLeft
  <2>1. t \in Seq(Message)
    BY <1>4 DEF Cut
  <2> HIDE DEF t
  <2>2. QED BY <1>3, <2>1, AppendIsConcat DEF PeerLeft
<1>6. Cut(line, chan[q])
  BY <1>4
<1>7. line \in Seq(Message) /\ <<>> \in Seq(Message)
  BY <1>6 DEF Cut
<1>8. chan' = [chan EXCEPT ![p] = <<>>, ![q] = line]
  BY <1>1, <1>2, <1>5
<1>9. link' = [link EXCEPT ![p] = "left"] /\ orphan' = orphan
  BY DEF Crash, Put
<1> HIDE DEF line
<1>10. chan' \in [Peer -> Seq(Message)] /\ chan'[p] = <<>> /\ chan'[q] = line
  BY <1>1, <1>7, <1>8
<1>11. link' \in [Peer -> {"open", "cut", "left"}] /\ link'[p] = "left" /\ link'[q] = link[q]
  BY <1>1, <1>9
<1>12. QED BY <1>6, <1>9, <1>10, <1>11 DEF LinesTyped

LEMMA HubMoves ==
  ASSUME NEW p \in Peer, StateTyped, LinesTyped, HubCuts(p)
  PROVE  /\ LinesTyped' /\ orphan' = orphan /\ chan'[Other(p)] = chan[Other(p)]
         /\ link' \in [Peer -> {"open", "cut", "left"}]
         /\ link'[p] = "cut" /\ link'[Other(p)] = link[Other(p)]
         /\ \E k \in 0..Len(chan[p]) : chan'[p] = SubSeq(chan[p], 1, k)
         /\ Cut(chan'[p], chan[p])
<1> DEFINE q == Other(p)
<1>1. /\ q \in Peer /\ q # p
      /\ chan \in [Peer -> Seq(Message)] /\ link \in [Peer -> {"open", "cut", "left"}]
  BY TwoPeers DEF StateTyped, LinesTyped
<1>2. PICK k \in 0..Len(chan[p]) : chan' = [chan EXCEPT ![p] = SubSeq(chan[p], 1, k)]
  BY DEF HubCuts, Put
<1> DEFINE t == SubSeq(chan[p], 1, k)
<1>3. chan[p] \in Seq(Message)
  BY <1>1
<1>4. Cut(t, chan[p])
  BY <1>3, CutsOfLine
<1>5. t \in Seq(Message)
  BY <1>4 DEF Cut
<1>6. link' = [link EXCEPT ![p] = "cut"] /\ orphan' = orphan
  BY DEF HubCuts, Put
<1>7. chan' \in [Peer -> Seq(Message)] /\ chan'[p] = t /\ chan'[q] = chan[q]
  BY <1>1, <1>2, <1>5
<1>8. link' \in [Peer -> {"open", "cut", "left"}] /\ link'[p] = "cut" /\ link'[q] = link[q]
  BY <1>1, <1>6
<1>9. QED BY <1>4, <1>6, <1>7, <1>8 DEF LinesTyped

LEMMA CrashKeeps ==
  ASSUME RtcInv, NEW p \in Peer, Crash(p)
  PROVE  /\ Links(p)' /\ Links(Other(p))' /\ LossInv(p)' /\ LossInv(Other(p))'
         /\ CandInv(p)' /\ CandInv(Other(p))' /\ AnswerInv'
<1> DEFINE q == Other(p)
<1>1. /\ StateTyped /\ LinesTyped /\ Links(p) /\ Links(q) /\ LossInv(p) /\ LossInv(q)
      /\ CandInv(p) /\ CandInv(q) /\ AnswerInv
      /\ chan[p] \in Seq(Message) /\ chan[q] \in Seq(Message)
  BY InvOf
<1>2. q \in Peer /\ q # p /\ Other(q) = p
      /\ ((p = "offerer" /\ q = "answerer") \/ (p = "answerer" /\ q = "offerer"))
  BY TwoPeers DEF Peer
<1>3. /\ orphan' = orphan /\ chan'[p] = <<>>
      /\ link'[p] = "left" /\ link'[q] = link[q]
      /\ Cut(chan'[q], chan[q])
  BY <1>1, CrashMoves
<1>4. /\ UNCHANGED <<platform, gathered, forwarded, described, local_done, remote_done,
                     pending_ice, applied, open>>
      /\ stage[p] \notin {"connected", "failed"}
      /\ stage' = [stage EXCEPT ![p] = "failed"] /\ why' = [why EXCEPT ![p] = "crash"]
  BY DEF Crash, Untouched, iceVars, flagVars, iceIn, Put
<1>5. /\ stage'[p] = "failed" /\ why'[p] = "crash"
      /\ stage'[q] = stage[q] /\ why'[q] = why[q]
  BY <1>1, <1>2, <1>4 DEF StateTyped
<1>6. /\ \A r : /\ Wasi(r)' = Wasi(r) /\ Browser(r)' = Browser(r) /\ Native(r)' = Native(r)
                /\ Got(r)' = Got(r)
  BY <1>4 DEF Wasi, Browser, Native, Got
<1>7. link[p] # "left" /\ ~orphan[q]
  BY <1>4, LeaverWasHere
<1>8. Links(p)' /\ Links(q)'
  <2>1. KindsIn(chan'[p]) = {} /\ Precedes(chan'[p], "ICE_DONE", "PEER_LEFT")
    BY <1>3, EmptyLine
  <2>2. Links(p)'
    BY <1>1, <1>3, <1>4, <1>5, <2>1 DEF Links
  <2>3. /\ "ICE_DONE" \in KindsIn(chan'[q]) => "ICE_DONE" \in KindsIn(chan[q])
        /\ Precedes(chan'[q], "ICE_DONE", "PEER_LEFT")
    <3>1. Precedes(chan[q], "ICE_DONE", "PEER_LEFT")
      BY <1>1 DEF Links
    <3>2. QED BY <1>3, <3>1 DEF Cut
  <2>4. Links(q)'
    BY <1>1, <1>2, <1>3, <1>4, <1>5, <1>6, <2>3 DEF Links
  <2>5. QED BY <2>2, <2>4
<1>9. LeftWell(q)' = LeftWell(q) /\ ~LeftWell(p)'
  BY <1>4, <1>5, <1>6 DEF LeftWell
<1>10. LossInv(p)'
  BY <1>1, <1>3, <1>4, <1>5, <1>6, <1>9 DEF LossInv
<1>11. LossInv(q)'
  BY <1>2, <1>3, <1>5, <1>9 DEF LossInv
<1>12. CandInv(p)'
  <2>1. /\ DOMAIN chan'[p] = {} /\ IceIn(chan'[p]) = {}
        /\ DoneIsLast(chan'[p], Got(p), gathered[q])
    BY <1>3, EmptyLine
  <2>2. QED BY <1>1, <1>3, <1>4, <1>6, <2>1 DEF CandInv
<1>13. CandInv(q)'
  <2>1. /\ IceIn(chan'[q]) \subseteq IceIn(chan[q])
        /\ DoneIsLast(chan[q], Got(q), gathered[p]) => DoneIsLast(chan'[q], Got(q), gathered[p])
        /\ (\A i \in DOMAIN chan[q] : chan[q][i].ok) => \A i \in DOMAIN chan'[q] : chan'[q][i].ok
    BY <1>3 DEF Cut
  <2>2. QED BY <1>1, <1>2, <1>3, <1>4, <1>6, <2>1 DEF CandInv
<1>14. AnswerInv'
  <2>1. CASE p = "offerer"
    <3>1. chan'["offerer"] = <<>> /\ link'["offerer"] = "left"
      BY <1>3, <2>1
    <3>2. QED BY <3>1, EmptyLine DEF AnswerInv
  <2>2. CASE p = "answerer"
    <3>1. /\ stage'["answerer"] = "failed" /\ link'["answerer"] = "left"
          /\ described'["offerer"] = described["offerer"]
      BY <1>3, <1>4, <1>5, <2>2
    <3>2. Cut(chan'["offerer"], chan["offerer"])
      BY <1>2, <1>3, <2>2
    <3>3. /\ Precedes(chan["offerer"], "ANSWER", "ICE")
          /\ ~described["offerer"] => BehindAnswer(chan["offerer"])
      BY <1>1 DEF AnswerInv
    <3>4. /\ Precedes(chan'["offerer"], "ANSWER", "ICE")
          /\ ~described["offerer"] => BehindAnswer(chan'["offerer"])
      BY <3>2, <3>3 DEF Cut
    <3>5. QED BY <3>1, <3>4 DEF AnswerInv
  <2>3. QED BY <1>2, <2>1, <2>2
<1>15. QED BY <1>8, <1>10, <1>11, <1>12, <1>13, <1>14

LEMMA HubKeeps ==
  ASSUME RtcInv, NEW p \in Peer, HubCuts(p)
  PROVE  /\ Links(p)' /\ Links(Other(p))' /\ LossInv(p)' /\ LossInv(Other(p))'
         /\ CandInv(p)' /\ CandInv(Other(p))' /\ AnswerInv'
<1> DEFINE q == Other(p)
<1>1. /\ StateTyped /\ LinesTyped /\ Links(p) /\ Links(q) /\ LossInv(p) /\ LossInv(q)
      /\ CandInv(p) /\ CandInv(q) /\ AnswerInv
      /\ chan[p] \in Seq(Message) /\ chan[q] \in Seq(Message)
  BY InvOf
<1>2. q \in Peer /\ q # p /\ Other(q) = p
      /\ ((p = "offerer" /\ q = "answerer") \/ (p = "answerer" /\ q = "offerer"))
  BY TwoPeers DEF Peer
<1>3. /\ orphan' = orphan /\ chan'[q] = chan[q]
      /\ link'[p] = "cut" /\ link'[q] = link[q]
      /\ \E k \in 0..Len(chan[p]) : chan'[p] = SubSeq(chan[p], 1, k)
      /\ Cut(chan'[p], chan[p])
  BY <1>1, HubMoves
<1>4. /\ UNCHANGED <<platform, gathered, forwarded, described, local_done, remote_done,
                     pending_ice, applied, open, stage, why>>
      /\ orphan[p] /\ link[p] = "open"
  BY DEF HubCuts, Untouched, iceVars, flagVars, iceIn
<1>5. \A r : /\ Wasi(r)' = Wasi(r) /\ Browser(r)' = Browser(r) /\ Native(r)' = Native(r)
             /\ Got(r)' = Got(r) /\ LeftWell(r)' = LeftWell(r)
  BY <1>4 DEF Wasi, Browser, Native, Got, LeftWell
<1>6. KindsIn(chan'[p]) \subseteq KindsIn(chan[p])
  <2>1. PICK k \in 0..Len(chan[p]) : chan'[p] = SubSeq(chan[p], 1, k)
    BY <1>3
  <2>2. QED BY <1>1, <2>1, CutLine
<1>7. stage[p] # "failed" /\ link[q] = "left"
  BY <1>1, <1>4 DEF Links
<1>8. Links(p)' /\ Links(q)'
  <2>1. Precedes(chan'[p], "ICE_DONE", "PEER_LEFT")
    BY <1>1, <1>3 DEF Links, Cut
  <2>2. Links(p)'
    BY <1>1, <1>3, <1>4, <1>5, <1>6, <1>7, <2>1 DEF Links
  <2>3. ~orphan[q] /\ "PEER_LEFT" \notin KindsIn(chan[q])
    BY <1>1, <1>2, <1>4 DEF Links
  <2>4. Links(q)'
    BY <1>1, <1>2, <1>3, <1>4, <1>5, <2>3 DEF Links
  <2>5. QED BY <2>2, <2>4
<1>9. LossInv(p)'
  BY <1>1, <1>3, <1>4, <1>5 DEF LossInv
<1>10. LossInv(q)'
  BY <1>1, <1>2, <1>3, <1>4, <1>5 DEF LossInv
<1>11. CandInv(p)'
  <2>1. /\ IceIn(chan'[p]) \subseteq IceIn(chan[p])
        /\ DoneIsLast(chan[p], Got(p), gathered[q]) => DoneIsLast(chan'[p], Got(p), gathered[q])
        /\ (\A i \in DOMAIN chan[p] : chan[p][i].ok) => \A i \in DOMAIN chan'[p] : chan'[p][i].ok
    BY <1>3 DEF Cut
  <2>2. QED BY <1>1, <1>3, <1>4, <1>5, <2>1 DEF CandInv
<1>12. CandInv(q)'
  BY <1>1, <1>2, <1>3, <1>4, <1>5 DEF CandInv
<1>13. AnswerInv'
  <2>1. CASE p = "offerer"
    <3>1. Cut(chan'["offerer"], chan["offerer"]) /\ link'["offerer"] = "cut"
          /\ KindsIn(chan'["offerer"]) \subseteq KindsIn(chan["offerer"])
      BY <1>3, <1>6, <2>1
    <3>2. /\ Precedes(chan["offerer"], "ANSWER", "ICE") => Precedes(chan'["offerer"], "ANSWER", "ICE")
          /\ BehindAnswer(chan["offerer"]) => BehindAnswer(chan'["offerer"])
      BY <3>1 DEF Cut
    <3>3. QED BY <1>1, <1>4, <3>1, <3>2 DEF AnswerInv
  <2>2. CASE p = "answerer"
    BY <1>1, <1>2, <1>3, <1>4, <2>2 DEF AnswerInv
  <2>3. QED BY <1>2, <2>1, <2>2
<1>14. QED BY <1>8, <1>9, <1>10, <1>11, <1>12, <1>13

-----------------------------------------------------------------------------
(* The data: what is said and heard in each kind of step.                  *)

DataMoves(p, takes, first) ==
  /\ said'[Other(p)] = said[Other(p)] /\ heard'[Other(p)] = heard[Other(p)]
  /\ \/ said'[p] = said[p] /\ "DATA" \notin KindsIn(first)
     \/ said'[p] = said[p] + 1 /\ first = <<Payload("DATA", said[p] + 1)>>
  /\ \/ heard'[p] = heard[p]
     \/ takes /\ Head(chan[p]).kind = "DATA" /\ heard'[p] = heard[p] + 1

LEMMA DataIsNat ==
  ASSUME StateTyped, NEW p \in Peer
  PROVE  said[p] \in Nat /\ heard[p] \in Nat /\ said[p] <= MaxData
  BY RtcAssumption DEF StateTyped

LEMMA TalkData ==
  ASSUME RtcInv, NEW p \in Peer, NEW takes, NEW first, Talks(p, takes, first),
         DataMoves(p, takes, first)
  PROVE  DataInv(p)' /\ DataInv(Other(p))'
<1> DEFINE q == Other(p)
           msgs == Sends(p, first)
           b == Batch(p, forwarded'[p])
<1>1. /\ StateTyped /\ LinesTyped /\ DataInv(p) /\ DataInv(q)
      /\ chan[p] \in Seq(Message) /\ chan[q] \in Seq(Message)
  BY InvOf
<1>2. q \in Peer /\ Other(q) = p /\ Other(p) = q
  BY TwoPeers
<1>3. /\ said[p] \in Nat /\ heard[p] \in Nat /\ said[q] \in Nat /\ heard[q] \in Nat
  BY <1>1, <1>2, DataIsNat
<1>4. /\ heard[p] <= said[q] /\ DataRises(chan[p], heard[p], said[q])
      /\ heard[q] <= said[p] /\ DataRises(chan[q], heard[q], said[p])
  BY <1>1, <1>2 DEF DataInv
<1>5. /\ takes => chan[p] # <<>> /\ chan'[p] = Tail(chan[p])
      /\ ~takes => chan'[p] = chan[p]
      /\ chan'[q] = chan[q] \/ chan'[q] = chan[q] \o msgs
  BY <1>1, TalkMoves
<1>6. /\ said'[q] = said[q] /\ heard'[q] = heard[q]
      /\ \/ said'[p] = said[p] /\ "DATA" \notin KindsIn(first)
         \/ said'[p] = said[p] + 1 /\ first = <<Payload("DATA", said[p] + 1)>>
      /\ \/ heard'[p] = heard[p]
         \/ takes /\ Head(chan[p]).kind = "DATA" /\ heard'[p] = heard[p] + 1
  BY DEF DataMoves
<1>7. DataInv(p)'
  <2>1. heard'[p] <= said[q] /\ DataRises(chan'[p], heard'[p], said[q])
    <3>1. CASE ~takes
      BY <1>4, <1>5, <1>6, <3>1
    <3>2. CASE takes
      <4>1. chan[p] \in Seq(Message) /\ chan[p] # <<>> /\ chan'[p] = Tail(chan[p])
        BY <1>1, <1>5, <3>2
      <4>2. /\ DataRises(Tail(chan[p]), heard[p], said[q])
            /\ Head(chan[p]).kind = "DATA" =>
                 heard[p] + 1 <= said[q] /\ DataRises(Tail(chan[p]), heard[p] + 1, said[q])
        BY <1>3, <1>4, <4>1, TailRises
      <4>3. QED BY <1>4, <1>6, <4>1, <4>2
    <3>3. QED BY <3>1, <3>2 DEF Talks
  <2>2. QED BY <1>2, <1>6, <2>1 DEF DataInv
<1>8. /\ first \in Seq(Message) /\ b \in Seq(Message) /\ KindsIn(b) \subseteq {"ICE"}
      /\ msgs = first \o b /\ msgs \in Seq(Message)
      /\ KindsIn(msgs) = KindsIn(first) \cup KindsIn(b)
  <2>1. /\ forwarded[p] \in Nat /\ gathered[p] \in 0..MaxIce
        /\ forwarded'[p] \in forwarded[p]..gathered[p] /\ first \in Opening
    BY <1>1 DEF Talks, Speaks, StateTyped
  <2>2. forwarded'[p] \in forwarded[p]..MaxIce
    BY <2>1, RtcAssumption
  <2>3. b \in Seq(Message) /\ KindsIn(b) \subseteq {"ICE"}
    BY <2>1, <2>2, BatchIs
  <2>4. first \in Seq(Message)
    BY <2>1, OpeningIs
  <2>5. msgs \in Seq(Message) /\ KindsIn(msgs) = KindsIn(first) \cup KindsIn(b)
    BY <1>1, SendsIs DEF Talks
  <2>6. QED BY <2>3, <2>4, <2>5 DEF Sends
<1> HIDE DEF msgs, b
<1>9. CASE said'[p] = said[p] /\ "DATA" \notin KindsIn(first)
  <2>1. "DATA" \notin KindsIn(msgs)
    BY <1>8, <1>9
  <2>2. DataRises(chan[q] \o msgs, heard[q], said[p])
    BY <1>1, <1>3, <1>4, <1>8, <2>1, ConcatRises
  <2>3. heard'[q] <= said'[p] /\ DataRises(chan'[q], heard'[q], said'[p])
    BY <1>4, <1>5, <1>6, <1>9, <2>2
  <2>4. QED BY <1>2, <1>7, <2>3 DEF DataInv
<1>10. CASE said'[p] = said[p] + 1 /\ first = <<Payload("DATA", said[p] + 1)>>
  <2>1. /\ \A i \in DOMAIN first : i = 1 /\ msgs[i].n = said[p] + 1
        /\ \A i \in DOMAIN b : msgs[Len(first) + i].kind = "ICE"
        /\ \A i \in DOMAIN msgs : i \in DOMAIN first \/ \E j \in DOMAIN b : i = Len(first) + j
    <3>1. /\ \A i \in DOMAIN first : msgs[i] = first[i]
          /\ \A i \in DOMAIN b : msgs[Len(first) + i] = b[i]
          /\ \A i \in DOMAIN msgs : i \in DOMAIN first \/ \E j \in DOMAIN b : i = Len(first) + j
      BY <1>8, PlacesInConcat, SMTT(30)
    <3>2. DOMAIN first = {1} /\ first[1].n = said[p] + 1
      BY <1>10 DEF Payload
    <3>3. \A i \in DOMAIN b : b[i].kind = "ICE"
      BY <1>8 DEF KindsIn
    <3>4. QED BY <3>1, <3>2, <3>3
  <2>2. /\ \A i \in DOMAIN msgs : msgs[i].kind = "DATA" => i = 1 /\ msgs[i].n = said[p] + 1
    BY <2>1
  <2>3. \A i, j \in DOMAIN msgs : msgs[i].kind = "DATA" /\ msgs[j].kind = "DATA" => i = j
    BY <2>2
  <2>4. DataRises(chan[q] \o msgs, heard[q], said[p] + 1)
    BY <1>1, <1>3, <1>4, <1>8, <2>2, <2>3, ConcatRises
  <2>5. DataRises(chan[q], heard[q], said[p] + 1)
    BY <1>3, <1>4 DEF DataRises
  <2>6. heard'[q] <= said'[p] /\ DataRises(chan'[q], heard'[q], said'[p])
    <3>1. heard'[q] = heard[q] /\ said'[p] = said[p] + 1 /\ heard[q] <= said[p]
      BY <1>4, <1>6, <1>10
    <3>2. heard[q] <= said[p] + 1
      BY <1>3, <3>1
    <3>3. QED BY <1>5, <2>4, <2>5, <3>1, <3>2
  <2>7. QED BY <1>2, <1>7, <2>6 DEF DataInv
<1>11. QED BY <1>6, <1>9, <1>10

(* The data is as it was when no line gains DATA or loses its order.       *)
LEMMA QuietData ==
  ASSUME RtcInv, said' = said, heard' = heard,
         \A p \in Peer : \/ chan'[p] = chan[p] \/ chan'[p] = <<>>
                         \/ chan'[p] = chan[p] \o PeerLeft \/ Cut(chan'[p], chan[p])
  PROVE  \A p \in Peer : DataInv(p)'
<1> SUFFICES ASSUME NEW p \in Peer PROVE DataInv(p)'
  OBVIOUS
<1> DEFINE lo == heard[p]
           hi == said[Other(p)]
<1>1. StateTyped /\ chan[p] \in Seq(Message) /\ DataInv(p)
  BY InvOf
<1>2. lo \in Nat /\ hi \in Nat
  BY <1>1, TwoPeers, DataIsNat
<1>3. lo <= hi /\ DataRises(chan[p], lo, hi)
  BY <1>1 DEF DataInv
<1> HIDE DEF lo, hi
<1>4. DataRises(chan[p] \o PeerLeft, lo, hi)
  BY <1>1, <1>2, <1>3, WithPeerLeft
<1>5. Cut(chan'[p], chan[p]) => DataRises(chan'[p], lo, hi)
  BY <1>2, <1>3 DEF Cut
<1>6. DataRises(<<>>, lo, hi)
  BY EmptyLine
<1>7. DataRises(chan'[p], lo, hi)
  BY <1>3, <1>4, <1>5, <1>6
<1>8. QED BY <1>3, <1>7 DEF DataInv, lo, hi

-----------------------------------------------------------------------------
(* Every action is one of those steps, and keeps the types and Control.    *)

LEMMA BystanderControl ==
  ASSUME NEW q, Control(q), Bystander(q), platform' = platform, open' = open
  PROVE  Control(q)'
  BY DEF Control, Bystander, Browser, Wasi

(* g is f with another value, of S, for p. *)
Puts(g, f, p, S) == \E v \in S : g = [f EXCEPT ![p] = v]

LEMMA PutsOne ==
  ASSUME NEW S, NEW f \in [Peer -> S], NEW p \in Peer, NEW v \in S, NEW g, g = [f EXCEPT ![p] = v]
  PROVE  Puts(g, f, p, S) /\ g[p] = v
  BY DEF Puts

LEMMA PutsNone ==
  ASSUME NEW S, NEW f \in [Peer -> S], NEW p \in Peer, NEW g, g = f
  PROVE  Puts(g, f, p, S) /\ g[p] = f[p]
<1>1. f[p] \in S /\ g = [f EXCEPT ![p] = f[p]]
  OBVIOUS
<1>2. QED BY <1>1 DEF Puts

LEMMA PutsIs ==
  ASSUME NEW S, NEW f \in [Peer -> S], NEW p \in Peer, NEW g, Puts(g, f, p, S)
  PROVE  g \in [Peer -> S] /\ g[p] \in S /\ g[Other(p)] = f[Other(p)]
<1>1. PICK v \in S : g = [f EXCEPT ![p] = v]
  BY DEF Puts
<1>2. Other(p) \in Peer /\ Other(p) # p
  BY TwoPeers
<1>3. QED BY <1>1, <1>2

(* A step of p writes what belongs to p: how far connect has got, its ICE  *)
(* agent, its flags, the candidates it holds, and its data.                *)
StagePuts(p) ==
  /\ Puts(stage', stage, p, Stages)
  /\ Puts(why', why, p, Reasons)

AgentPuts(p) ==
  /\ Puts(gather', gather, p, {"idle", "running", "over"})
  /\ Puts(gathered', gathered, p, 0..MaxIce)

FlagsPuts(p) ==
  /\ Puts(described', described, p, BOOLEAN)
  /\ Puts(local_done', local_done, p, BOOLEAN)
  /\ Puts(remote_done', remote_done, p, BOOLEAN)

CandPuts(p) ==
  /\ Puts(pending_ice', pending_ice, p, SUBSET Arriving)
  /\ Puts(applied', applied, p, SUBSET Arriving)

DataPuts(p) ==
  /\ Puts(said', said, p, 0..MaxData)
  /\ Puts(heard', heard, p, 0..MaxData)

Acts(p) ==
  /\ platform' = platform
  /\ StagePuts(p) /\ AgentPuts(p) /\ Puts(forwarded', forwarded, p, 0..MaxIce)
  /\ FlagsPuts(p) /\ CandPuts(p) /\ DataPuts(p)

LEMMA ActsAre ==
  ASSUME NEW p \in Peer, StateTyped, Acts(p)
  PROVE  /\ Bystander(Other(p))
         /\ platform' \in [Peer -> Platform] /\ stage' \in [Peer -> Stages]
         /\ why' \in [Peer -> Reasons] /\ gather' \in [Peer -> {"idle", "running", "over"}]
         /\ gathered' \in [Peer -> 0..MaxIce] /\ forwarded' \in [Peer -> 0..MaxIce]
         /\ described' \in [Peer -> BOOLEAN] /\ local_done' \in [Peer -> BOOLEAN]
         /\ remote_done' \in [Peer -> BOOLEAN]
         /\ pending_ice' \in [Peer -> SUBSET Arriving]
         /\ applied' \in [Peer -> SUBSET Arriving]
         /\ said' \in [Peer -> 0..MaxData] /\ heard' \in [Peer -> 0..MaxData]
<1> DEFINE q == Other(p)
<1>1. /\ platform \in [Peer -> Platform]
      /\ stage \in [Peer -> Stages]
      /\ why \in [Peer -> Reasons]
      /\ gather \in [Peer -> {"idle", "running", "over"}]
      /\ gathered \in [Peer -> 0..MaxIce]
      /\ forwarded \in [Peer -> 0..MaxIce]
      /\ described \in [Peer -> BOOLEAN]
      /\ local_done \in [Peer -> BOOLEAN]
      /\ remote_done \in [Peer -> BOOLEAN]
      /\ pending_ice \in [Peer -> SUBSET Arriving]
      /\ applied \in [Peer -> SUBSET Arriving]
      /\ said \in [Peer -> 0..MaxData]
      /\ heard \in [Peer -> 0..MaxData]
  BY DEF StateTyped
<1>2. /\ platform' = platform
      /\ Puts(stage', stage, p, Stages)
      /\ Puts(why', why, p, Reasons)
      /\ Puts(gather', gather, p, {"idle", "running", "over"})
      /\ Puts(gathered', gathered, p, 0..MaxIce)
      /\ Puts(forwarded', forwarded, p, 0..MaxIce)
      /\ Puts(described', described, p, BOOLEAN)
      /\ Puts(local_done', local_done, p, BOOLEAN)
      /\ Puts(remote_done', remote_done, p, BOOLEAN)
      /\ Puts(pending_ice', pending_ice, p, SUBSET Arriving)
      /\ Puts(applied', applied, p, SUBSET Arriving)
      /\ Puts(said', said, p, 0..MaxData)
      /\ Puts(heard', heard, p, 0..MaxData)
  BY DEF Acts, StagePuts, AgentPuts, FlagsPuts, CandPuts, DataPuts
<1>3. stage' \in [Peer -> Stages] /\ stage'[q] = stage[q]
  <2>1. stage \in [Peer -> Stages] /\ Puts(stage', stage, p, Stages)
    BY <1>1, <1>2
  <2>2. QED BY <2>1, PutsIs
<1>4. why' \in [Peer -> Reasons] /\ why'[q] = why[q]
  <2>1. why \in [Peer -> Reasons] /\ Puts(why', why, p, Reasons)
    BY <1>1, <1>2
  <2>2. QED BY <2>1, PutsIs
<1>5. gather' \in [Peer -> {"idle", "running", "over"}] /\ gather'[q] = gather[q]
  <2>1. gather \in [Peer -> {"idle", "running", "over"}] /\ Puts(gather', gather, p, {"idle", "running", "over"})
    BY <1>1, <1>2
  <2>2. QED BY <2>1, PutsIs
<1>6. gathered' \in [Peer -> 0..MaxIce] /\ gathered'[q] = gathered[q]
  <2>1. gathered \in [Peer -> 0..MaxIce] /\ Puts(gathered', gathered, p, 0..MaxIce)
    BY <1>1, <1>2
  <2>2. QED BY <2>1, TwoPeers DEF Puts
<1>7. forwarded' \in [Peer -> 0..MaxIce] /\ forwarded'[q] = forwarded[q]
  <2>1. forwarded \in [Peer -> 0..MaxIce] /\ Puts(forwarded', forwarded, p, 0..MaxIce)
    BY <1>1, <1>2
  <2>2. QED BY <2>1, TwoPeers DEF Puts
<1>8. described' \in [Peer -> BOOLEAN] /\ described'[q] = described[q]
  <2>1. described \in [Peer -> BOOLEAN] /\ Puts(described', described, p, BOOLEAN)
    BY <1>1, <1>2
  <2>2. QED BY <2>1, PutsIs
<1>9. local_done' \in [Peer -> BOOLEAN] /\ local_done'[q] = local_done[q]
  <2>1. local_done \in [Peer -> BOOLEAN] /\ Puts(local_done', local_done, p, BOOLEAN)
    BY <1>1, <1>2
  <2>2. QED BY <2>1, PutsIs
<1>10. remote_done' \in [Peer -> BOOLEAN] /\ remote_done'[q] = remote_done[q]
  <2>1. remote_done \in [Peer -> BOOLEAN] /\ Puts(remote_done', remote_done, p, BOOLEAN)
    BY <1>1, <1>2
  <2>2. QED BY <2>1, PutsIs
<1>11. pending_ice' \in [Peer -> SUBSET Arriving] /\ pending_ice'[q] = pending_ice[q]
  <2>1. pending_ice \in [Peer -> SUBSET Arriving] /\ Puts(pending_ice', pending_ice, p, SUBSET Arriving)
    BY <1>1, <1>2
  <2>2. QED BY <2>1, TwoPeers DEF Puts
<1>12. applied' \in [Peer -> SUBSET Arriving] /\ applied'[q] = applied[q]
  <2>1. applied \in [Peer -> SUBSET Arriving] /\ Puts(applied', applied, p, SUBSET Arriving)
    BY <1>1, <1>2
  <2>2. QED BY <2>1, TwoPeers DEF Puts
<1>13. said' \in [Peer -> 0..MaxData] /\ said'[q] = said[q]
  <2>1. said \in [Peer -> 0..MaxData] /\ Puts(said', said, p, 0..MaxData)
    BY <1>1, <1>2
  <2>2. QED BY <2>1, TwoPeers DEF Puts
<1>14. heard' \in [Peer -> 0..MaxData] /\ heard'[q] = heard[q]
  <2>1. heard \in [Peer -> 0..MaxData] /\ Puts(heard', heard, p, 0..MaxData)
    BY <1>1, <1>2
  <2>2. QED BY <2>1, TwoPeers DEF Puts
<1>15. Bystander(q)
  BY <1>3, <1>4, <1>5, <1>6, <1>7, <1>8, <1>9, <1>10, <1>11, <1>12 DEF Bystander
<1>16. platform' \in [Peer -> Platform]
  BY <1>1, <1>2
<1>17. QED BY <1>3, <1>4, <1>5, <1>6, <1>7, <1>8, <1>9, <1>10, <1>11, <1>12, <1>13, <1>14, <1>15, <1>16

LEMMA ActsTyped ==
  ASSUME NEW p \in Peer, StateTyped, Acts(p), open' \in BOOLEAN,
         link' \in [Peer -> {"open", "cut", "left"}], orphan' \in [Peer -> BOOLEAN],
         forwarded'[p] <= gathered'[p], why'[p] # "none" <=> stage'[p] = "failed"
  PROVE  StateTyped'
<1> DEFINE q == Other(p)
<1>1. q \in Peer /\ \A r \in Peer : r = p \/ r = q
  BY TwoPeers
<1>2. /\ stage'[q] = stage[q] /\ why'[q] = why[q]
      /\ gathered'[q] = gathered[q] /\ forwarded'[q] = forwarded[q]
  BY ActsAre DEF Bystander
<1>3. \A r \in Peer : forwarded'[r] <= gathered'[r]
  BY <1>1, <1>2 DEF StateTyped
<1>4. \A r \in Peer : (why'[r] # "none") <=> (stage'[r] = "failed")
  BY <1>1, <1>2 DEF StateTyped
<1>5. QED BY <1>3, <1>4, ActsAre DEF StateTyped

LEMMA StageKept ==
  ASSUME NEW p \in Peer, StateTyped, UNCHANGED <<stage, why>>
  PROVE  /\ StagePuts(p)
         /\ stage'[p] = stage[p]
         /\ why'[p] = why[p]
<1>1. Puts(stage', stage, p, Stages) /\ stage'[p] = stage[p]
  <2>1. stage \in [Peer -> Stages] /\ stage' = stage
    BY DEF StateTyped
  <2>2. QED BY <2>1, PutsNone
<1>2. Puts(why', why, p, Reasons) /\ why'[p] = why[p]
  <2>1. why \in [Peer -> Reasons] /\ why' = why
    BY DEF StateTyped
  <2>2. QED BY <2>1, PutsNone
<1>3. QED BY <1>1, <1>2 DEF StagePuts

LEMMA AgentKept ==
  ASSUME NEW p \in Peer, StateTyped, UNCHANGED <<gather, gathered>>
  PROVE  /\ AgentPuts(p)
         /\ gather'[p] = gather[p]
         /\ gathered'[p] = gathered[p]
<1>1. Puts(gather', gather, p, {"idle", "running", "over"}) /\ gather'[p] = gather[p]
  <2>1. gather \in [Peer -> {"idle", "running", "over"}] /\ gather' = gather
    BY DEF StateTyped
  <2>2. QED BY <2>1, PutsNone
<1>2. Puts(gathered', gathered, p, 0..MaxIce) /\ gathered'[p] = gathered[p]
  <2>1. gathered \in [Peer -> 0..MaxIce] /\ gathered' = gathered
    BY DEF StateTyped
  <2>2. QED BY <2>1, PutsNone
<1>3. QED BY <1>1, <1>2 DEF AgentPuts

LEMMA FlagsKept ==
  ASSUME NEW p \in Peer, StateTyped, UNCHANGED <<described, local_done, remote_done>>
  PROVE  /\ FlagsPuts(p)
         /\ described'[p] = described[p]
         /\ local_done'[p] = local_done[p]
         /\ remote_done'[p] = remote_done[p]
<1>1. Puts(described', described, p, BOOLEAN) /\ described'[p] = described[p]
  <2>1. described \in [Peer -> BOOLEAN] /\ described' = described
    BY DEF StateTyped
  <2>2. QED BY <2>1, PutsNone
<1>2. Puts(local_done', local_done, p, BOOLEAN) /\ local_done'[p] = local_done[p]
  <2>1. local_done \in [Peer -> BOOLEAN] /\ local_done' = local_done
    BY DEF StateTyped
  <2>2. QED BY <2>1, PutsNone
<1>3. Puts(remote_done', remote_done, p, BOOLEAN) /\ remote_done'[p] = remote_done[p]
  <2>1. remote_done \in [Peer -> BOOLEAN] /\ remote_done' = remote_done
    BY DEF StateTyped
  <2>2. QED BY <2>1, PutsNone
<1>4. QED BY <1>1, <1>2, <1>3 DEF FlagsPuts

LEMMA CandKept ==
  ASSUME NEW p \in Peer, StateTyped, UNCHANGED <<pending_ice, applied>>
  PROVE  /\ CandPuts(p)
         /\ pending_ice'[p] = pending_ice[p]
         /\ applied'[p] = applied[p]
<1>1. Puts(pending_ice', pending_ice, p, SUBSET Arriving) /\ pending_ice'[p] = pending_ice[p]
  <2>1. pending_ice \in [Peer -> SUBSET Arriving] /\ pending_ice' = pending_ice
    BY DEF StateTyped
  <2>2. QED BY <2>1, PutsNone
<1>2. Puts(applied', applied, p, SUBSET Arriving) /\ applied'[p] = applied[p]
  <2>1. applied \in [Peer -> SUBSET Arriving] /\ applied' = applied
    BY DEF StateTyped
  <2>2. QED BY <2>1, PutsNone
<1>3. QED BY <1>1, <1>2 DEF CandPuts

LEMMA DataKept ==
  ASSUME NEW p \in Peer, StateTyped, UNCHANGED <<said, heard>>
  PROVE  /\ DataPuts(p)
         /\ said'[p] = said[p]
         /\ heard'[p] = heard[p]
<1>1. Puts(said', said, p, 0..MaxData) /\ said'[p] = said[p]
  <2>1. said \in [Peer -> 0..MaxData] /\ said' = said
    BY DEF StateTyped
  <2>2. QED BY <2>1, PutsNone
<1>2. Puts(heard', heard, p, 0..MaxData) /\ heard'[p] = heard[p]
  <2>1. heard \in [Peer -> 0..MaxData] /\ heard' = heard
    BY DEF StateTyped
  <2>2. QED BY <2>1, PutsNone
<1>3. QED BY <1>1, <1>2 DEF DataPuts

LEMMA SentKept ==
  ASSUME NEW p \in Peer, StateTyped, forwarded' = forwarded
  PROVE  Puts(forwarded', forwarded, p, 0..MaxIce) /\ forwarded'[p] = forwarded[p]
<1>1. forwarded \in [Peer -> 0..MaxIce]
  BY DEF StateTyped
<1>2. QED BY <1>1, PutsNone

LEMMA SentDrained ==
  ASSUME NEW p \in Peer, StateTyped, MarkDrained(p)
  PROVE  /\ Puts(forwarded', forwarded, p, 0..MaxIce)
         /\ forwarded'[p] = IF Browser(p) THEN gathered[p] ELSE forwarded[p]
<1>1. forwarded \in [Peer -> 0..MaxIce] /\ gathered[p] \in 0..MaxIce
  BY DEF StateTyped
<1>2. CASE Browser(p)
  <2>1. forwarded' = [forwarded EXCEPT ![p] = gathered[p]]
    BY <1>2 DEF MarkDrained, Put
  <2>2. QED BY <1>1, <1>2, <2>1, PutsOne
<1>3. CASE ~Browser(p)
  <2>1. forwarded' = forwarded
    BY <1>3 DEF MarkDrained
  <2>2. QED BY <1>3, <2>1, SentKept
<1>4. QED BY <1>2, <1>3

LEMMA GoesTo ==
  ASSUME NEW p \in Peer, StateTyped, NEW s \in Stages, Goto(p, s)
  PROVE  StagePuts(p) /\ stage'[p] = s /\ why'[p] = why[p]
<1>1. stage \in [Peer -> Stages] /\ why \in [Peer -> Reasons]
  BY DEF StateTyped
<1>2. stage' = [stage EXCEPT ![p] = s] /\ why' = why
  BY DEF Goto
<1>3. Puts(stage', stage, p, Stages) /\ stage'[p] = s
  BY <1>1, <1>2, PutsOne
<1>4. Puts(why', why, p, Reasons) /\ why'[p] = why[p]
  BY <1>1, <1>2, PutsNone
<1>5. QED BY <1>3, <1>4 DEF StagePuts

LEMMA Rebuilt ==
  ASSUME NEW p \in Peer, StateTyped', LinesTyped', AnswerInv',
         Control(p)', Control(Other(p))', Links(p)', Links(Other(p))',
         LossInv(p)', LossInv(Other(p))', CandInv(p)', CandInv(Other(p))',
         DataInv(p)', DataInv(Other(p))'
  PROVE  RtcInv'
<1>1. \A r \in Peer : r = p \/ r = Other(p)
  BY TwoPeers
<1>2. \A r \in Peer : Control(r)' /\ Links(r)' /\ LossInv(r)' /\ CandInv(r)' /\ DataInv(r)'
  BY <1>1
<1>3. QED BY <1>2 DEF RtcInv

LEMMA TalkStep ==
  ASSUME RtcInv, NEW p \in Peer, NEW takes \in BOOLEAN, NEW first,
         Acts(p), open' = open, Proceeds(p), Speaks(p, first), Listens(p, takes),
         Transmit(p, IF takes THEN Tail(chan[p]) ELSE chan[p], Sends(p, first)),
         DataMoves(p, takes, first), Control(p)'
  PROVE  RtcInv'
<1>1. StateTyped /\ LinesTyped /\ Control(Other(p))
  BY InvOf
<1>2. Bystander(Other(p)) /\ platform' = platform
  BY <1>1, ActsAre DEF Acts
<1>3. Talks(p, takes, first)
  BY <1>2 DEF Talks, Sends
<1>4. /\ LinesTyped' /\ link' = link /\ orphan' \in [Peer -> BOOLEAN]
  BY <1>1, <1>3, TalkMoves
<1>5. StateTyped'
  <2>1. why'[p] # "none" <=> stage'[p] = "failed"
    BY <1>1 DEF Proceeds, StateTyped
  <2>2. forwarded'[p] <= gathered'[p]
    BY <1>1 DEF Speaks, StateTyped
  <2>3. open' \in BOOLEAN /\ link' \in [Peer -> {"open", "cut", "left"}]
    BY <1>1, <1>4 DEF StateTyped
  <2>4. QED BY <1>1, <1>4, <2>1, <2>2, <2>3, ActsTyped
<1>6. Control(Other(p))'
  BY <1>1, <1>2, BystanderControl
<1>7. Links(p)' /\ Links(Other(p))'
  BY <1>3, TalkLinks
<1>8. LossInv(p)' /\ LossInv(Other(p))'
  BY <1>3, TalkLoss
<1>9. CandInv(p)' /\ CandInv(Other(p))'
  BY <1>3, TalkCandTaker, TalkCandGiver
<1>10. AnswerInv'
  BY <1>3, TalkAnswer
<1>11. DataInv(p)' /\ DataInv(Other(p))'
  BY <1>3, TalkData
<1>12. QED BY <1>4, <1>5, <1>6, <1>7, <1>8, <1>9, <1>10, <1>11, Rebuilt

LEMMA LeaveStep ==
  ASSUME RtcInv, NEW p \in Peer, Acts(p), Leaves(p), UNCHANGED <<said, heard>>, Control(p)',
         why'[p] # "none" <=> stage'[p] = "failed"
  PROVE  RtcInv'
<1>1. StateTyped /\ LinesTyped /\ Control(Other(p))
  BY InvOf
<1>2. /\ Bystander(Other(p)) /\ platform' = platform /\ open' = open /\ OwnFlags(p)
      /\ HangUp(p)
  BY DEF Leaves
<1>3. /\ LinesTyped' /\ orphan' = orphan /\ link' \in [Peer -> {"open", "cut", "left"}]
  BY <1>1, <1>2, LeaveMoves
<1>4. StateTyped'
  <2>1. forwarded'[p] <= gathered'[p]
    BY <1>1, <1>2 DEF OwnFlags, StateTyped
  <2>2. open' \in BOOLEAN /\ orphan' \in [Peer -> BOOLEAN]
    BY <1>1, <1>2, <1>3 DEF StateTyped
  <2>3. QED BY <1>1, <1>3, <2>1, <2>2, ActsTyped
<1>5. Control(Other(p))'
  BY <1>1, <1>2, BystanderControl
<1>6. DataInv(p)' /\ DataInv(Other(p))'
  <2>1. \A r \in Peer : \/ chan'[r] = chan[r] \/ chan'[r] = <<>>
                         \/ chan'[r] = chan[r] \o PeerLeft \/ Cut(chan'[r], chan[r])
    <3>1. /\ chan'[p] = <<>>
          /\ chan'[Other(p)] = chan[Other(p)] \/ chan'[Other(p)] = chan[Other(p)] \o PeerLeft
      BY <1>1, <1>2, LeaveMoves
    <3>2. QED BY <3>1, TwoPeers, SMTT(30)
  <2>2. said' = said /\ heard' = heard
    OBVIOUS
  <2>3. QED BY <2>1, <2>2, QuietData, TwoPeers
<1>7. QED BY <1>3, <1>4, <1>5, <1>6, LeaveLinks, LeaveLoss, LeaveCand, LeaveAnswer, Rebuilt

LEMMA WorkStep ==
  ASSUME RtcInv, NEW p \in Peer, Acts(p), Works(p), UNCHANGED <<said, heard>>,
         Control(p)', Control(Other(p))', open' \in BOOLEAN
  PROVE  RtcInv'
<1>1. StateTyped /\ LinesTyped
  BY InvOf
<1>2. platform' = platform /\ link' = link /\ orphan' = orphan /\ chan' = chan
  BY DEF Works
<1>3. StateTyped'
  <2>1. why'[p] # "none" <=> stage'[p] = "failed"
    BY <1>1 DEF Works, StateTyped
  <2>2. forwarded'[p] <= gathered'[p]
    BY <1>1 DEF Works, StateTyped
  <2>3. link' \in [Peer -> {"open", "cut", "left"}] /\ orphan' \in [Peer -> BOOLEAN]
    BY <1>1, <1>2 DEF StateTyped
  <2>4. QED BY <1>1, <2>1, <2>2, <2>3, ActsTyped
<1>4. LinesTyped'
  BY <1>1, <1>2 DEF LinesTyped
<1>5. DataInv(p)' /\ DataInv(Other(p))'
  BY <1>2, QuietData, TwoPeers
<1>6. QED BY <1>3, <1>4, <1>5, WorkKeeps, Rebuilt

-----------------------------------------------------------------------------
(* The actions in which a peer talks.                                      *)

LEMMA Started ==
  ASSUME NEW p \in Peer, StateTyped, StartGathering(p)
  PROVE  /\ AgentPuts(p) /\ gathered'[p] = (IF Wasi(p) THEN 1 ELSE 0)
         /\ gather'[p] = (IF Wasi(p) THEN "over" ELSE "running")
<1> DEFINE g == IF Wasi(p) THEN "over" ELSE "running"
           n == IF Wasi(p) THEN 1 ELSE 0
<1>1. gather \in [Peer -> {"idle", "running", "over"}] /\ gathered \in [Peer -> 0..MaxIce]
  BY DEF StateTyped
<1>2. g \in {"idle", "running", "over"} /\ n \in 0..MaxIce
  BY RtcAssumption
<1>3. gather' = [gather EXCEPT ![p] = g] /\ gathered' = [gathered EXCEPT ![p] = n]
  BY DEF StartGathering, Put
<1> HIDE DEF g, n
<1>4. Puts(gather', gather, p, {"idle", "running", "over"}) /\ gather'[p] = g
  BY <1>1, <1>2, <1>3 DEF Puts
<1>5. Puts(gathered', gathered, p, 0..MaxIce) /\ gathered'[p] = n
  BY <1>1, <1>2, <1>3 DEF Puts
<1>6. QED BY <1>4, <1>5 DEF AgentPuts, g, n

(* Unsent is the batch of all candidates that have not been sent.          *)
LEMMA DrainedIs ==
  ASSUME NEW p \in Peer, StateTyped
  PROVE  /\ forwarded[p] \in Nat /\ gathered[p] \in 0..MaxIce
         /\ forwarded[p] <= gathered[p]
         /\ Drained(p) = Batch(p, IF Browser(p) THEN gathered[p] ELSE forwarded[p])
         /\ Batch(p, forwarded[p]) = <<>> /\ Batch(p, gathered[p]) \in Seq(Message)
<1>1. /\ forwarded[p] \in Nat /\ gathered[p] \in 0..MaxIce /\ forwarded[p] <= gathered[p]
  BY DEF StateTyped
<1>2. gathered[p] \in forwarded[p]..MaxIce /\ forwarded[p] \in forwarded[p]..MaxIce
  BY <1>1, RtcAssumption
<1>3. Batch(p, forwarded[p]) = <<>> /\ Batch(p, gathered[p]) \in Seq(Message)
  BY <1>1, <1>2, BatchIs
<1>4. Unsent(p) = Batch(p, gathered[p])
  BY DEF Unsent, Batch
<1>5. Drained(p) = Batch(p, IF Browser(p) THEN gathered[p] ELSE forwarded[p])
  BY <1>3, <1>4 DEF Drained
<1>6. QED BY <1>1, <1>3, <1>5

LEMMA OpeningTells ==
  /\ <<>> \in Opening /\ \A k \in {"OFFER", "ANSWER", "ICE_DONE"} : <<Msg(k)>> \in Opening
  /\ \A n \in 1..MaxData : <<Payload("DATA", n)>> \in Opening
  /\ \A k, j : <<Msg(k)>> = <<Msg(j)>> => k = j
  /\ \A k : <<Msg(k)>> # <<>>
  /\ \A k, n : k # "DATA" => <<Payload("DATA", n)>> # <<Msg(k)>>
<1>1. \A k, j : <<Msg(k)>> = <<Msg(j)>> => k = j
  <2>1. \A k, j : <<Msg(k)>> = <<Msg(j)>> => Msg(k).kind = Msg(j).kind
    OBVIOUS
  <2>2. QED BY <2>1 DEF Msg
<1>2. \A k, n : k # "DATA" => <<Payload("DATA", n)>> # <<Msg(k)>>
  <2>1. \A k, n : <<Payload("DATA", n)>> = <<Msg(k)>> => Payload("DATA", n).kind = Msg(k).kind
    OBVIOUS
  <2>2. QED BY <2>1 DEF Msg, Payload
<1>3. QED BY <1>1, <1>2 DEF Opening

LEMMA SendOfferStep ==
  ASSUME RtcInv, NEW p \in Peer, SendOffer(p)
  PROVE  RtcInv'
<1> DEFINE first == <<Msg("OFFER")>>
<1>1. StateTyped /\ Control(p)
  BY InvOf
<1>2. /\ stage[p] = "offering" /\ Goto(p, "exchange") /\ MarkDrained(p) /\ Untouched
      /\ Transmit(p, chan[p], first \o Drained(p))
  BY DEF SendOffer, Keep
<1>3. /\ UNCHANGED <<gather, gathered>> /\ UNCHANGED <<described, local_done, remote_done>>
      /\ UNCHANGED <<pending_ice, applied>> /\ UNCHANGED <<said, heard>>
      /\ open' = open /\ platform' = platform
  BY <1>2 DEF Untouched, iceVars, flagVars, iceIn, dataVars
<1>4. StagePuts(p) /\ stage'[p] = "exchange" /\ why'[p] = why[p]
  BY <1>1, <1>2, GoesTo DEF Stages
<1>5. AgentPuts(p) /\ gather'[p] = gather[p] /\ gathered'[p] = gathered[p]
  BY <1>1, <1>3, AgentKept
<1>6. /\ Puts(forwarded', forwarded, p, 0..MaxIce)
      /\ forwarded'[p] = IF Browser(p) THEN gathered[p] ELSE forwarded[p]
  BY <1>1, <1>2, SentDrained
<1>7. FlagsPuts(p) /\ described'[p] = described[p] /\ local_done'[p] = local_done[p]
      /\ remote_done'[p] = remote_done[p]
  BY <1>1, <1>3, FlagsKept
<1>8. CandPuts(p) /\ pending_ice'[p] = pending_ice[p] /\ applied'[p] = applied[p]
  BY <1>1, <1>3, CandKept
<1>9. DataPuts(p)
  BY <1>1, <1>3, DataKept
<1>10. Acts(p)
  BY <1>3, <1>4, <1>5, <1>6, <1>7, <1>8, <1>9 DEF Acts
<1>11. Wasi(p)' = Wasi(p) /\ Browser(p)' = Browser(p)
  BY <1>3 DEF Wasi, Browser
<1>12. Control(p)'
  BY <1>1, <1>2, <1>3, <1>4, <1>5, <1>6, <1>7, <1>8, <1>11 DEF Control, Peer
<1>13. Proceeds(p)
  BY <1>2, <1>4, <1>7 DEF Proceeds
<1>14. first \in Opening /\ first # <<Msg("ANSWER")>> /\ first # <<Msg("ICE_DONE")>>
  BY OpeningTells
<1>15. Speaks(p, first)
  BY <1>1, <1>2, <1>4, <1>5, <1>6, <1>7, <1>14, DrainedIs DEF Speaks, Control
<1>16. Listens(p, FALSE)
  BY <1>7, <1>8 DEF Listens, Got
<1>17. Sends(p, first) = first \o Drained(p)
  BY <1>1, <1>6, DrainedIs DEF Sends
<1>18. DataMoves(p, FALSE, first)
  BY <1>3, <1>14, OpeningIs DEF DataMoves, KindsIn, Msg
<1>19. QED BY <1>2, <1>3, <1>10, <1>12, <1>13, <1>15, <1>16, <1>17, <1>18, TalkStep

LEMMA UntouchedKeeps ==
  ASSUME NEW p \in Peer, StateTyped, Untouched
  PROVE  /\ AgentPuts(p) /\ FlagsPuts(p) /\ CandPuts(p) /\ DataPuts(p)
         /\ gather'[p] = gather[p] /\ gathered'[p] = gathered[p]
         /\ described'[p] = described[p] /\ local_done'[p] = local_done[p]
         /\ remote_done'[p] = remote_done[p]
         /\ pending_ice'[p] = pending_ice[p] /\ applied'[p] = applied[p]
         /\ UNCHANGED <<said, heard>> /\ open' = open /\ platform' = platform
<1>1. /\ UNCHANGED <<gather, gathered>> /\ UNCHANGED <<described, local_done, remote_done>>
      /\ UNCHANGED <<pending_ice, applied>> /\ UNCHANGED <<said, heard>>
      /\ open' = open /\ platform' = platform
  BY DEF Untouched, iceVars, flagVars, iceIn, dataVars
<1>2. AgentPuts(p) /\ gather'[p] = gather[p] /\ gathered'[p] = gathered[p]
  BY <1>1, AgentKept
<1>3. FlagsPuts(p) /\ described'[p] = described[p] /\ local_done'[p] = local_done[p]
      /\ remote_done'[p] = remote_done[p]
  BY <1>1, FlagsKept
<1>4. CandPuts(p) /\ pending_ice'[p] = pending_ice[p] /\ applied'[p] = applied[p]
  BY <1>1, CandKept
<1>5. DataPuts(p)
  BY <1>1, DataKept
<1>6. QED BY <1>1, <1>2, <1>3, <1>4, <1>5

(* What is sent with no candidates, and the candidates alone. *)
LEMMA SendsAlone ==
  ASSUME NEW p \in Peer, StateTyped, NEW first \in Opening
  PROVE  /\ forwarded'[p] = forwarded[p] => Sends(p, first) = first
         /\ forwarded'[p] \in forwarded[p]..gathered[p] =>
              Sends(p, <<>>) = Batch(p, forwarded'[p])
<1>1. /\ forwarded[p] \in Nat /\ gathered[p] \in 0..MaxIce /\ Batch(p, forwarded[p]) = <<>>
  BY DrainedIs
<1>2. first \in Seq(Message)
  BY OpeningIs
<1>3. forwarded'[p] = forwarded[p] => Sends(p, first) = first
  <2>1. first \o <<>> = first
    BY <1>2
  <2>2. QED BY <1>1, <2>1 DEF Sends
<1>4. ASSUME forwarded'[p] \in forwarded[p]..gathered[p]
      PROVE  Sends(p, <<>>) = Batch(p, forwarded'[p])
  <2> DEFINE b == Batch(p, forwarded'[p])
  <2>1. forwarded'[p] \in forwarded[p]..MaxIce
    BY <1>1, <1>4, RtcAssumption
  <2>2. b \in Seq(Message)
    BY <1>1, <2>1, BatchIs
  <2> HIDE DEF b
  <2>3. <<>> \o b = b
    BY <2>2
  <2>4. QED BY <2>3 DEF Sends, b
<1>5. QED BY <1>3, <1>4

(* A reply is a batch of candidates; nobody but a browser in its last loop *)
(* sends any.                                                              *)
LEMMA ReplyIs ==
  ASSUME NEW p \in Peer, StateTyped, Replied(p)
  PROVE  /\ Puts(forwarded', forwarded, p, 0..MaxIce)
         /\ forwarded'[p] \in forwarded[p]..gathered[p]
         /\ ~(Browser(p) /\ stage[p] = "exchange") => forwarded'[p] = forwarded[p]
         /\ Reply(p) = Sends(p, <<>>)
<1>1. /\ forwarded[p] \in Nat /\ gathered[p] \in 0..MaxIce
      /\ forwarded[p] <= gathered[p]
      /\ Drained(p) = Batch(p, IF Browser(p) THEN gathered[p] ELSE forwarded[p])
      /\ Batch(p, forwarded[p]) = <<>>
  BY DrainedIs
<1>2. <<>> \in Opening
  BY OpeningTells
<1>3. CASE stage[p] = "exchange"
  <2>1. /\ Puts(forwarded', forwarded, p, 0..MaxIce)
        /\ forwarded'[p] = IF Browser(p) THEN gathered[p] ELSE forwarded[p]
    BY <1>3, SentDrained DEF Replied
  <2>2. forwarded'[p] \in forwarded[p]..gathered[p] /\ Reply(p) = Batch(p, forwarded'[p])
    BY <1>1, <1>3, <2>1 DEF Reply
  <2>3. Reply(p) = Sends(p, <<>>)
    BY <1>2, <2>2, SendsAlone
  <2>4. ~Browser(p) => forwarded'[p] = forwarded[p]
    BY <2>1
  <2>5. QED BY <1>3, <2>1, <2>2, <2>3, <2>4
<1>4. CASE stage[p] # "exchange"
  <2>1. Puts(forwarded', forwarded, p, 0..MaxIce) /\ forwarded'[p] = forwarded[p]
    BY <1>4, SentKept DEF Replied
  <2>2. forwarded'[p] \in forwarded[p]..gathered[p] /\ Reply(p) = <<>>
    BY <1>1, <1>4, <2>1 DEF Reply
  <2>3. QED BY <1>2, <2>1, <2>2, SendsAlone
<1>5. QED BY <1>3, <1>4

LEMMA Silent ==
  ASSUME NEW p \in Peer, NEW takes, NEW first, UNCHANGED <<said, heard>>,
         first = <<>> \/ \E k \in {"OFFER", "ANSWER", "ICE_DONE"} : first = <<Msg(k)>>
  PROVE  DataMoves(p, takes, first)
<1>1. "DATA" \notin KindsIn(first)
  BY EmptyLine DEF KindsIn, Msg
<1>2. QED BY <1>1 DEF DataMoves

(* A peer that takes a message and answers with nothing but candidates.    *)
LEMMA TakeStep ==
  ASSUME RtcInv, NEW p \in Peer, Acts(p), open' = open, UNCHANGED <<said, heard>>,
         stage[p] \in {"await", "exchange"}, chan[p] # <<>>,
         Replied(p), Transmit(p, Tail(chan[p]), Reply(p)), Listens(p, TRUE),
         stage'[p] = stage[p], why'[p] = why[p], gather'[p] = gather[p],
         gathered'[p] = gathered[p], local_done'[p] = local_done[p],
         stage[p] = "await" => ~described'[p], described[p] => described'[p],
         stage[p] = "exchange" => pending_ice'[p] = pending_ice[p],
         remote_done[p] => remote_done'[p]
  PROVE  RtcInv'
<1>1. StateTyped /\ Control(p)
  BY InvOf
<1>2. /\ forwarded'[p] \in forwarded[p]..gathered[p]
      /\ ~(Browser(p) /\ stage[p] = "exchange") => forwarded'[p] = forwarded[p]
      /\ Reply(p) = Sends(p, <<>>)
  BY <1>1, ReplyIs
<1>3. platform' = platform
  BY DEF Acts
<1>4. Wasi(p)' = Wasi(p) /\ Browser(p)' = Browser(p)
  BY <1>3 DEF Wasi, Browser
<1>5. Control(p)'
  <2>1. CASE stage[p] = "await"
    <3>1. forwarded'[p] = forwarded[p] /\ ~described'[p] /\ ~described[p]
      BY <1>1, <1>2, <2>1 DEF Control
    <3>2. QED BY <1>1, <1>4, <2>1, <3>1 DEF Control
  <2>2. CASE stage[p] = "exchange"
    <3>1. pending_ice'[p] = {} /\ (p = "answerer" => described'[p])
      BY <1>1, <2>2 DEF Control
    <3>2. /\ local_done[p] => ~Browser(p) /\ forwarded[p] = gathered[p] /\ gather[p] = "over"
      BY <1>1, <2>2 DEF Control
    <3>3. open => described[p] /\ ~Wasi(p)
      BY <1>1 DEF Control
    <3>4. ~Browser(p) => forwarded'[p] = forwarded[p]
      BY <1>2
    <3>5. p = "offerer" \/ p = "answerer"
      BY DEF Peer
    <3>6. QED BY <1>4, <2>2, <3>1, <3>2, <3>3, <3>4, <3>5 DEF Control
  <2>3. QED BY <2>1, <2>2
<1>6. Proceeds(p)
  BY DEF Proceeds
<1>7. Speaks(p, <<>>)
  <2>1. <<>> \in Opening /\ <<>> # <<Msg("ANSWER")>> /\ <<>> # <<Msg("ICE_DONE")>>
    BY OpeningTells
  <2>2. Native(p) => ~Browser(p)
    BY DEF Native, Browser
  <2>3. QED BY <1>2, <2>1, <2>2 DEF Speaks
<1>8. DataMoves(p, TRUE, <<>>)
  BY Silent
<1>9. Transmit(p, Tail(chan[p]), Sends(p, <<>>))
  BY <1>2
<1>10. QED BY <1>5, <1>6, <1>7, <1>8, <1>9, TalkStep

LEMMA ReceiveAnswerStep ==
  ASSUME RtcInv, NEW p \in Peer, ReceiveAnswer(p)
  PROVE  RtcInv'
<1>1. StateTyped /\ Control(p)
  BY InvOf
<1>2. /\ stage[p] = "exchange" /\ chan[p] # <<>> /\ Head(chan[p]).kind = "ANSWER"
      /\ Transmit(p, Tail(chan[p]), Reply(p)) /\ Replied(p)
      /\ described' = [described EXCEPT ![p] = TRUE]
  BY DEF ReceiveAnswer, Receives, Put
<1>3. /\ UNCHANGED <<stage, why>> /\ UNCHANGED <<gather, gathered>>
      /\ local_done' = local_done /\ remote_done' = remote_done
      /\ UNCHANGED <<pending_ice, applied>> /\ UNCHANGED <<said, heard>>
      /\ open' = open /\ platform' = platform
  BY DEF ReceiveAnswer, iceVars, iceIn, dataVars
<1>4. StagePuts(p) /\ stage'[p] = stage[p] /\ why'[p] = why[p]
  BY <1>1, <1>3, StageKept
<1>5. AgentPuts(p) /\ gather'[p] = gather[p] /\ gathered'[p] = gathered[p]
  BY <1>1, <1>3, AgentKept
<1>6. Puts(forwarded', forwarded, p, 0..MaxIce)
  BY <1>1, <1>2, ReplyIs
<1>7. FlagsPuts(p) /\ described'[p] = TRUE /\ local_done'[p] = local_done[p]
      /\ remote_done'[p] = remote_done[p]
  <2>1. /\ described \in [Peer -> BOOLEAN] /\ local_done \in [Peer -> BOOLEAN]
        /\ remote_done \in [Peer -> BOOLEAN]
    BY <1>1 DEF StateTyped
  <2>2. Puts(described', described, p, BOOLEAN) /\ described'[p] = TRUE
    BY <1>2, <2>1, PutsOne
  <2>3. Puts(local_done', local_done, p, BOOLEAN) /\ Puts(remote_done', remote_done, p, BOOLEAN)
    BY <1>3, <2>1, PutsNone
  <2>4. QED BY <1>3, <2>2, <2>3 DEF FlagsPuts
<1>8. CandPuts(p) /\ pending_ice'[p] = pending_ice[p] /\ applied'[p] = applied[p]
  BY <1>1, <1>3, CandKept
<1>9. DataPuts(p)
  BY <1>1, <1>3, DataKept
<1>10. Acts(p)
  BY <1>3, <1>4, <1>5, <1>6, <1>7, <1>8, <1>9 DEF Acts
<1>11. Listens(p, TRUE)
  BY <1>2, <1>7, <1>8 DEF Listens, Got
<1>12. QED BY <1>2, <1>3, <1>4, <1>5, <1>7, <1>8, <1>10, <1>11, TakeStep

LEMMA ReceiveDoneStep ==
  ASSUME RtcInv, NEW p \in Peer, ReceiveDone(p)
  PROVE  RtcInv'
<1> DEFINE heeds == remote_done[p] \/ Native(p) \/ (described[p] /\ stage[p] = "exchange")
<1>1. StateTyped /\ Control(p)
  BY InvOf
<1>2. /\ stage[p] \in {"await", "exchange"} /\ chan[p] # <<>> /\ Head(chan[p]).kind = "ICE_DONE"
      /\ Transmit(p, Tail(chan[p]), Reply(p)) /\ Replied(p)
      /\ remote_done' = [remote_done EXCEPT ![p] = heeds]
  BY DEF ReceiveDone, Receives, Put
<1>3. /\ UNCHANGED <<stage, why>> /\ UNCHANGED <<gather, gathered>>
      /\ local_done' = local_done /\ described' = described
      /\ UNCHANGED <<pending_ice, applied>> /\ UNCHANGED <<said, heard>>
      /\ open' = open /\ platform' = platform
  BY DEF ReceiveDone, iceVars, iceIn, dataVars
<1>4. StagePuts(p) /\ stage'[p] = stage[p] /\ why'[p] = why[p]
  BY <1>1, <1>3, StageKept
<1>5. AgentPuts(p) /\ gather'[p] = gather[p] /\ gathered'[p] = gathered[p]
  BY <1>1, <1>3, AgentKept
<1>6. Puts(forwarded', forwarded, p, 0..MaxIce)
  BY <1>1, <1>2, ReplyIs
<1>7. FlagsPuts(p) /\ described'[p] = described[p] /\ local_done'[p] = local_done[p]
      /\ remote_done'[p] = heeds
  <2>1. /\ described \in [Peer -> BOOLEAN] /\ local_done \in [Peer -> BOOLEAN]
        /\ remote_done \in [Peer -> BOOLEAN]
    BY <1>1 DEF StateTyped
  <2>2. heeds \in BOOLEAN
    BY <2>1
  <2> HIDE DEF heeds
  <2>3. Puts(remote_done', remote_done, p, BOOLEAN) /\ remote_done'[p] = heeds
    BY <1>2, <2>1, <2>2, PutsOne
  <2>4. Puts(local_done', local_done, p, BOOLEAN) /\ Puts(described', described, p, BOOLEAN)
    BY <1>3, <2>1, PutsNone
  <2>5. QED BY <1>3, <2>3, <2>4 DEF FlagsPuts
<1>8. CandPuts(p) /\ pending_ice'[p] = pending_ice[p] /\ applied'[p] = applied[p]
  BY <1>1, <1>3, CandKept
<1>9. DataPuts(p)
  BY <1>1, <1>3, DataKept
<1>10. Acts(p)
  BY <1>3, <1>4, <1>5, <1>6, <1>7, <1>8, <1>9 DEF Acts
<1>11. Listens(p, TRUE)
  BY <1>2, <1>7, <1>8 DEF Listens, Got
<1>12. stage[p] = "await" => ~described'[p]
  BY <1>1, <1>7 DEF Control
<1>13. QED BY <1>2, <1>3, <1>4, <1>5, <1>7, <1>8, <1>10, <1>11, <1>12, TakeStep

LEMMA IgnorePeerLeftStep ==
  ASSUME RtcInv, NEW p \in Peer, IgnorePeerLeft(p)
  PROVE  RtcInv'
<1>1. StateTyped /\ Control(p)
  BY InvOf
<1>2. /\ stage[p] \in {"await", "exchange"} /\ chan[p] # <<>> /\ Head(chan[p]).kind = "PEER_LEFT"
      /\ Transmit(p, Tail(chan[p]), Reply(p)) /\ Replied(p)
      /\ UNCHANGED <<stage, why>> /\ Untouched
  BY DEF IgnorePeerLeft, Receives
<1>3. /\ AgentPuts(p) /\ FlagsPuts(p) /\ CandPuts(p) /\ DataPuts(p)
      /\ gather'[p] = gather[p] /\ gathered'[p] = gathered[p]
      /\ described'[p] = described[p] /\ local_done'[p] = local_done[p]
      /\ remote_done'[p] = remote_done[p]
      /\ pending_ice'[p] = pending_ice[p] /\ applied'[p] = applied[p]
      /\ UNCHANGED <<said, heard>> /\ open' = open /\ platform' = platform
  BY <1>1, <1>2, UntouchedKeeps
<1>4. StagePuts(p) /\ stage'[p] = stage[p] /\ why'[p] = why[p]
  BY <1>1, <1>2, StageKept
<1>5. Puts(forwarded', forwarded, p, 0..MaxIce)
  BY <1>1, <1>2, ReplyIs
<1>6. Acts(p)
  BY <1>3, <1>4, <1>5 DEF Acts
<1>7. Listens(p, TRUE)
  BY <1>2, <1>3 DEF Listens, Got
<1>8. stage[p] = "await" => ~described'[p]
  BY <1>1, <1>3 DEF Control
<1>9. QED BY <1>2, <1>3, <1>4, <1>6, <1>7, <1>8, TakeStep

LEMMA ReceiveCandidateStep ==
  ASSUME RtcInv, NEW p \in Peer, ReceiveCandidate(p)
  PROVE  RtcInv'
<1> DEFINE m == Head(chan[p])
           more(S) == IF Usable(p) THEN S \cup {m.n} ELSE S
<1>1. StateTyped /\ Control(p) /\ chan[p] \in Seq(Message)
  BY InvOf
<1>2. /\ stage[p] \in {"await", "exchange"} /\ chan[p] # <<>> /\ m.kind = "ICE"
      /\ Transmit(p, Tail(chan[p]), Reply(p)) /\ Replied(p)
  BY DEF ReceiveCandidate, Receives
<1>3. /\ UNCHANGED <<stage, why>> /\ UNCHANGED <<gather, gathered>>
      /\ UNCHANGED <<described, local_done, remote_done>> /\ UNCHANGED <<said, heard>>
      /\ open' = open /\ platform' = platform
  BY DEF ReceiveCandidate, iceVars, flagVars, dataVars
<1>4. StagePuts(p) /\ stage'[p] = stage[p] /\ why'[p] = why[p]
  BY <1>1, <1>3, StageKept
<1>5. AgentPuts(p) /\ gather'[p] = gather[p] /\ gathered'[p] = gathered[p]
  BY <1>1, <1>3, AgentKept
<1>6. Puts(forwarded', forwarded, p, 0..MaxIce)
  BY <1>1, <1>2, ReplyIs
<1>7. FlagsPuts(p) /\ described'[p] = described[p] /\ local_done'[p] = local_done[p]
      /\ remote_done'[p] = remote_done[p]
  BY <1>1, <1>3, FlagsKept
<1>8. /\ CandPuts(p)
      /\ applied'[p] = IF described[p] THEN more(applied[p]) ELSE applied[p]
      /\ pending_ice'[p] = IF stage[p] = "await" THEN more(pending_ice[p]) ELSE pending_ice[p]
  <2>1. /\ applied \in [Peer -> SUBSET Arriving] /\ pending_ice \in [Peer -> SUBSET Arriving]
    BY <1>1 DEF StateTyped
  <2>2. Usable(p) => m.n \in Arriving
    <3>1. m \in Message
      BY <1>1, <1>2
    <3>2. QED BY <1>2, <3>1 DEF Message, Usable, Arriving
  <2>3. /\ applied[p] = more(applied[p]) \/ Usable(p)
        /\ pending_ice[p] = more(pending_ice[p]) \/ Usable(p)
    OBVIOUS
  <2>4. /\ applied' = [applied EXCEPT ![p] = IF described[p] THEN more(applied[p]) ELSE applied[p]]
    BY <2>1 DEF ReceiveCandidate, Put
  <2>5. /\ pending_ice' = [pending_ice EXCEPT ![p] =
             IF stage[p] = "await" THEN more(pending_ice[p]) ELSE pending_ice[p]]
    BY <2>1 DEF ReceiveCandidate, Put
  <2>6. more(applied[p]) \in SUBSET Arriving /\ more(pending_ice[p]) \in SUBSET Arriving
    BY <2>1, <2>2
  <2> HIDE DEF more
  <2>7. Puts(applied', applied, p, SUBSET Arriving)
    BY <2>1, <2>4, <2>6 DEF Puts
  <2>8. Puts(pending_ice', pending_ice, p, SUBSET Arriving)
    BY <2>1, <2>5, <2>6 DEF Puts
  <2>9. QED BY <2>1, <2>4, <2>5, <2>7, <2>8 DEF CandPuts
<1>9. DataPuts(p)
  BY <1>1, <1>3, DataKept
<1>10. Acts(p)
  BY <1>3, <1>4, <1>5, <1>6, <1>7, <1>8, <1>9 DEF Acts
<1>11. stage[p] = "await" => ~described[p]
  BY <1>1 DEF Control
<1>12. Listens(p, TRUE)
  <2>1. ASSUME ~Wasi(p), m.ok, described[p] \/ stage[p] = "await"
        PROVE  Got(p)' = Got(p) \cup {m.n}
    <3>1. more(applied[p]) = applied[p] \cup {m.n} /\ more(pending_ice[p]) = pending_ice[p] \cup {m.n}
      BY <2>1 DEF Usable
    <3> HIDE DEF more
    <3>2. QED BY <1>8, <1>11, <2>1, <3>1 DEF Got
  <2>2. QED BY <1>2, <1>7, <2>1 DEF Listens
<1>13. stage[p] = "exchange" => pending_ice'[p] = pending_ice[p]
  BY <1>8
<1>14. QED BY <1>2, <1>3, <1>4, <1>5, <1>7, <1>10, <1>11, <1>12, <1>13, TakeStep

LEMMA ReceiveOfferStep ==
  ASSUME RtcInv, NEW p \in Peer, ReceiveOffer(p)
  PROVE  RtcInv'
<1>1. StateTyped /\ Control(p)
  BY InvOf
<1>2. /\ stage[p] = "await" /\ chan[p] # <<>> /\ Head(chan[p]).kind = "OFFER"
      /\ Transmit(p, Tail(chan[p]), <<>>) /\ StartGathering(p) /\ Goto(p, "answering")
      /\ described' = [described EXCEPT ![p] = TRUE]
      /\ pending_ice' = [pending_ice EXCEPT ![p] = {}]
      /\ applied' = [applied EXCEPT ![p] = applied[p] \cup pending_ice[p]]
  BY DEF ReceiveOffer, Receives, Put
<1>3. /\ local_done' = local_done /\ remote_done' = remote_done /\ forwarded' = forwarded
      /\ UNCHANGED <<said, heard>> /\ open' = open /\ platform' = platform
  BY DEF ReceiveOffer, dataVars
<1>4. StagePuts(p) /\ stage'[p] = "answering" /\ why'[p] = why[p]
  BY <1>1, <1>2, GoesTo DEF Stages
<1>5. AgentPuts(p) /\ gathered'[p] = (IF Wasi(p) THEN 1 ELSE 0)
  BY <1>1, <1>2, Started
<1>6. Puts(forwarded', forwarded, p, 0..MaxIce) /\ forwarded'[p] = forwarded[p]
  BY <1>1, <1>3, SentKept
<1>7. FlagsPuts(p) /\ described'[p] = TRUE /\ local_done'[p] = local_done[p]
      /\ remote_done'[p] = remote_done[p]
  <2>1. /\ described \in [Peer -> BOOLEAN] /\ local_done \in [Peer -> BOOLEAN]
        /\ remote_done \in [Peer -> BOOLEAN]
    BY <1>1 DEF StateTyped
  <2>2. Puts(described', described, p, BOOLEAN) /\ described'[p] = TRUE
    BY <1>2, <2>1, PutsOne
  <2>3. Puts(local_done', local_done, p, BOOLEAN) /\ Puts(remote_done', remote_done, p, BOOLEAN)
    BY <1>3, <2>1, PutsNone
  <2>4. QED BY <1>3, <2>2, <2>3 DEF FlagsPuts
<1>8. CandPuts(p) /\ pending_ice'[p] = {} /\ applied'[p] = applied[p] \cup pending_ice[p]
  <2>1. applied \in [Peer -> SUBSET Arriving] /\ pending_ice \in [Peer -> SUBSET Arriving]
    BY <1>1 DEF StateTyped
  <2>2. applied[p] \cup pending_ice[p] \in SUBSET Arriving /\ {} \in SUBSET Arriving
    BY <2>1
  <2>3. Puts(applied', applied, p, SUBSET Arriving)
    BY <1>2, <2>1, <2>2 DEF Puts
  <2>4. Puts(pending_ice', pending_ice, p, SUBSET Arriving)
    BY <1>2, <2>1, <2>2 DEF Puts
  <2>5. QED BY <1>2, <2>1, <2>3, <2>4 DEF CandPuts
<1>9. DataPuts(p)
  BY <1>1, <1>3, DataKept
<1>10. Acts(p)
  BY <1>3, <1>4, <1>5, <1>6, <1>7, <1>8, <1>9 DEF Acts
<1>11. /\ gathered[p] = 0 /\ forwarded[p] = 0 /\ ~local_done[p] /\ ~described[p]
       /\ p # "offerer" /\ ~open
  BY <1>1, <1>2 DEF Control
<1>12. Control(p)'
  BY <1>3, <1>4, <1>6, <1>7, <1>8, <1>11 DEF Control
<1>13. Proceeds(p)
  BY <1>2, <1>4, <1>7 DEF Proceeds
<1>14. Speaks(p, <<>>)
  <2>1. <<>> \in Opening /\ <<>> # <<Msg("ANSWER")>> /\ <<>> # <<Msg("ICE_DONE")>>
    BY OpeningTells
  <2>2. forwarded'[p] \in forwarded[p]..gathered[p] /\ gathered'[p] \in Nat /\ gathered[p] <= gathered'[p]
    BY <1>5, <1>6, <1>11
  <2>3. QED BY <1>2, <1>6, <1>7, <1>11, <2>1, <2>2 DEF Speaks
<1>15. Listens(p, TRUE)
  BY <1>2, <1>7, <1>8 DEF Listens, Got
<1>16. Transmit(p, Tail(chan[p]), Sends(p, <<>>))
  BY <1>1, <1>2, <1>6, SendsAlone, OpeningTells
<1>17. DataMoves(p, TRUE, <<>>)
  BY <1>3, Silent
<1>18. QED BY <1>3, <1>10, <1>12, <1>13, <1>14, <1>15, <1>16, <1>17, TalkStep

LEMMA SendAnswerStep ==
  ASSUME RtcInv, NEW p \in Peer, SendAnswer(p)
  PROVE  RtcInv'
<1> DEFINE first == <<Msg("ANSWER")>>
<1>1. StateTyped /\ Control(p)
  BY InvOf
<1>2. /\ stage[p] = "answering" /\ Goto(p, "exchange") /\ MarkDrained(p) /\ Untouched
      /\ Transmit(p, chan[p], first \o Drained(p))
  BY DEF SendAnswer, Keep
<1>3. /\ AgentPuts(p) /\ FlagsPuts(p) /\ CandPuts(p) /\ DataPuts(p)
      /\ gather'[p] = gather[p] /\ gathered'[p] = gathered[p]
      /\ described'[p] = described[p] /\ local_done'[p] = local_done[p]
      /\ remote_done'[p] = remote_done[p]
      /\ pending_ice'[p] = pending_ice[p] /\ applied'[p] = applied[p]
      /\ UNCHANGED <<said, heard>> /\ open' = open /\ platform' = platform
  BY <1>1, <1>2, UntouchedKeeps
<1>4. StagePuts(p) /\ stage'[p] = "exchange" /\ why'[p] = why[p]
  BY <1>1, <1>2, GoesTo DEF Stages
<1>5. /\ Puts(forwarded', forwarded, p, 0..MaxIce)
      /\ forwarded'[p] = IF Browser(p) THEN gathered[p] ELSE forwarded[p]
  BY <1>1, <1>2, SentDrained
<1>6. Acts(p)
  BY <1>3, <1>4, <1>5 DEF Acts
<1>7. Wasi(p)' = Wasi(p) /\ Browser(p)' = Browser(p)
  BY <1>3 DEF Wasi, Browser
<1>8. Control(p)'
  BY <1>1, <1>2, <1>3, <1>4, <1>5, <1>7 DEF Control, Peer
<1>9. Proceeds(p)
  BY <1>2, <1>3, <1>4 DEF Proceeds
<1>10. first \in Opening /\ first # <<Msg("ICE_DONE")>>
  BY OpeningTells
<1>11. Speaks(p, first)
  BY <1>1, <1>2, <1>3, <1>4, <1>5, <1>10, DrainedIs DEF Speaks, Control
<1>12. Listens(p, FALSE)
  BY <1>3 DEF Listens, Got
<1>13. Sends(p, first) = first \o Drained(p)
  BY <1>1, <1>5, DrainedIs DEF Sends
<1>14. DataMoves(p, FALSE, first)
  BY <1>3, Silent
<1>15. QED BY <1>2, <1>3, <1>6, <1>8, <1>9, <1>11, <1>12, <1>13, <1>14, TalkStep

LEMMA ForwardCandidateStep ==
  ASSUME RtcInv, NEW p \in Peer, ForwardCandidate(p)
  PROVE  RtcInv'
<1>1. StateTyped /\ Control(p)
  BY InvOf
<1>2. /\ stage[p] = "exchange" /\ ~Browser(p) /\ forwarded[p] < gathered[p]
      /\ Transmit(p, chan[p], <<Payload("ICE", forwarded[p] + 1)>>)
      /\ forwarded' = [forwarded EXCEPT ![p] = forwarded[p] + 1]
      /\ UNCHANGED <<stage, why>> /\ Untouched
  BY DEF ForwardCandidate, Keep, Untouched, Put
<1>3. /\ AgentPuts(p) /\ FlagsPuts(p) /\ CandPuts(p) /\ DataPuts(p)
      /\ gather'[p] = gather[p] /\ gathered'[p] = gathered[p]
      /\ described'[p] = described[p] /\ local_done'[p] = local_done[p]
      /\ remote_done'[p] = remote_done[p]
      /\ pending_ice'[p] = pending_ice[p] /\ applied'[p] = applied[p]
      /\ UNCHANGED <<said, heard>> /\ open' = open /\ platform' = platform
  BY <1>1, <1>2, UntouchedKeeps
<1>4. StagePuts(p) /\ stage'[p] = stage[p] /\ why'[p] = why[p]
  BY <1>1, <1>2, StageKept
<1>5. forwarded[p] \in Nat /\ gathered[p] \in 0..MaxIce
  BY <1>1, DrainedIs
<1>6. forwarded[p] + 1 \in 0..MaxIce /\ forwarded[p] + 1 \in forwarded[p]..gathered[p]
  BY <1>2, <1>5, RtcAssumption
<1>7. Puts(forwarded', forwarded, p, 0..MaxIce) /\ forwarded'[p] = forwarded[p] + 1
  <2>1. forwarded \in [Peer -> 0..MaxIce]
    BY <1>1 DEF StateTyped
  <2>2. QED BY <1>2, <1>6, <2>1 DEF Puts
<1>8. Acts(p)
  BY <1>3, <1>4, <1>7 DEF Acts
<1>9. Wasi(p)' = Wasi(p) /\ Browser(p)' = Browser(p)
  BY <1>3 DEF Wasi, Browser
<1>10. ~local_done[p]
  BY <1>1, <1>2, <1>5 DEF Control
<1>11. Control(p)'
  BY <1>1, <1>2, <1>3, <1>4, <1>9, <1>10 DEF Control
<1>12. Proceeds(p)
  BY <1>2, <1>3, <1>4 DEF Proceeds
<1>13. <<>> \in Opening /\ <<>> # <<Msg("ANSWER")>> /\ <<>> # <<Msg("ICE_DONE")>>
  BY OpeningTells
<1>14. Speaks(p, <<>>)
  BY <1>2, <1>3, <1>6, <1>7, <1>10, <1>13 DEF Speaks
<1>15. Listens(p, FALSE)
  BY <1>3 DEF Listens, Got
<1>16. Sends(p, <<>>) = <<Payload("ICE", forwarded[p] + 1)>>
  <2> DEFINE f == forwarded[p]
  <2>1. Sends(p, <<>>) = Batch(p, f + 1)
    BY <1>1, <1>6, <1>7, <1>13, SendsAlone
  <2>2. (f + 1) - f = 1
    BY <1>5
  <2>3. Batch(p, f + 1) = [i \in 1..1 |-> Payload("ICE", f + i)]
    BY <2>2 DEF Batch
  <2>4. QED BY <2>1, <2>3
<1>17. DataMoves(p, FALSE, <<>>)
  BY <1>3, Silent
<1>18. QED BY <1>2, <1>3, <1>8, <1>11, <1>12, <1>14, <1>15, <1>16, <1>17, TalkStep

LEMMA LocalDoneStep ==
  ASSUME RtcInv, NEW p \in Peer, LocalDone(p)
  PROVE  RtcInv'
<1> DEFINE first == <<Msg("ICE_DONE")>>
<1>1. StateTyped /\ Control(p)
  BY InvOf
<1>2. /\ forwarded[p] = gathered[p] /\ stage[p] = "exchange" /\ ~Browser(p) /\ ~local_done[p]
      /\ gather[p] = "over" /\ Transmit(p, chan[p], first)
      /\ local_done' = [local_done EXCEPT ![p] = TRUE]
  BY DEF LocalDone, SendDone, Keep, Put
<1>3. /\ UNCHANGED <<stage, why>> /\ UNCHANGED <<gather, gathered>> /\ forwarded' = forwarded
      /\ described' = described /\ remote_done' = remote_done
      /\ UNCHANGED <<pending_ice, applied>> /\ UNCHANGED <<said, heard>>
      /\ open' = open /\ platform' = platform
  BY DEF LocalDone, SendDone, iceVars, iceIn, dataVars
<1>4. StagePuts(p) /\ stage'[p] = stage[p] /\ why'[p] = why[p]
  BY <1>1, <1>3, StageKept
<1>5. AgentPuts(p) /\ gather'[p] = gather[p] /\ gathered'[p] = gathered[p]
  BY <1>1, <1>3, AgentKept
<1>6. Puts(forwarded', forwarded, p, 0..MaxIce) /\ forwarded'[p] = forwarded[p]
  BY <1>1, <1>3, SentKept
<1>7. FlagsPuts(p) /\ described'[p] = described[p] /\ local_done'[p] = TRUE
      /\ remote_done'[p] = remote_done[p]
  <2>1. /\ described \in [Peer -> BOOLEAN] /\ local_done \in [Peer -> BOOLEAN]
        /\ remote_done \in [Peer -> BOOLEAN]
    BY <1>1 DEF StateTyped
  <2>2. Puts(local_done', local_done, p, BOOLEAN) /\ local_done'[p] = TRUE
    BY <1>2, <2>1, PutsOne
  <2>3. Puts(described', described, p, BOOLEAN) /\ Puts(remote_done', remote_done, p, BOOLEAN)
    BY <1>3, <2>1, PutsNone
  <2>4. QED BY <1>3, <2>2, <2>3 DEF FlagsPuts
<1>8. CandPuts(p) /\ pending_ice'[p] = pending_ice[p] /\ applied'[p] = applied[p]
  BY <1>1, <1>3, CandKept
<1>9. DataPuts(p)
  BY <1>1, <1>3, DataKept
<1>10. Acts(p)
  BY <1>3, <1>4, <1>5, <1>6, <1>7, <1>8, <1>9 DEF Acts
<1>11. Wasi(p)' = Wasi(p) /\ Browser(p)' = Browser(p)
  BY <1>3 DEF Wasi, Browser
<1>12. Control(p)'
  BY <1>1, <1>2, <1>3, <1>4, <1>5, <1>6, <1>7, <1>8, <1>11 DEF Control
<1>13. Proceeds(p)
  BY <1>2, <1>4, <1>7 DEF Proceeds
<1>14. first \in Opening /\ first # <<Msg("ANSWER")>>
  BY OpeningTells
<1>15. Speaks(p, first)
  <2>1. forwarded'[p] \in forwarded[p]..gathered[p]
    BY <1>1, <1>6, DrainedIs
  <2>2. QED BY <1>2, <1>5, <1>7, <1>14, <2>1 DEF Speaks
<1>16. Listens(p, FALSE)
  BY <1>7, <1>8 DEF Listens, Got
<1>17. Sends(p, first) = first
  BY <1>1, <1>6, <1>14, SendsAlone
<1>18. DataMoves(p, FALSE, first)
  BY <1>3, Silent
<1>19. QED BY <1>2, <1>3, <1>10, <1>12, <1>13, <1>15, <1>16, <1>17, <1>18, TalkStep

(* The browser leaves its loop, with or without a last message.            *)
LEMMA BrowserFinishStep ==
  ASSUME RtcInv, NEW p \in Peer, NEW takes \in BOOLEAN, Browser(p), stage[p] = "exchange",
         described[p], BrowserFinish(p, IF takes THEN Tail(chan[p]) ELSE chan[p]),
         ~takes => remote_done' = remote_done,
         takes => /\ chan[p] # <<>> /\ Head(chan[p]).kind = "ICE_DONE"
                  /\ remote_done' = [remote_done EXCEPT ![p] = TRUE]
  PROVE  RtcInv'
<1> DEFINE first == <<Msg("ICE_DONE")>>
           rest == IF takes THEN Tail(chan[p]) ELSE chan[p]
<1>1. StateTyped /\ Control(p)
  BY InvOf
<1>2. /\ Goto(p, "channel") /\ MarkDrained(p) /\ Transmit(p, rest, first \o Drained(p))
      /\ local_done' = [local_done EXCEPT ![p] = TRUE]
      /\ UNCHANGED <<gather, gathered>> /\ described' = described
      /\ UNCHANGED <<pending_ice, applied>> /\ UNCHANGED <<said, heard>>
      /\ open' = open /\ platform' = platform
  BY DEF BrowserFinish, Put, iceVars, iceIn, dataVars
<1>3. StagePuts(p) /\ stage'[p] = "channel" /\ why'[p] = why[p]
  BY <1>1, <1>2, GoesTo DEF Stages
<1>4. AgentPuts(p) /\ gather'[p] = gather[p] /\ gathered'[p] = gathered[p]
  BY <1>1, <1>2, AgentKept
<1>5. Puts(forwarded', forwarded, p, 0..MaxIce) /\ forwarded'[p] = gathered[p]
  BY <1>1, <1>2, SentDrained
<1>6. FlagsPuts(p) /\ described'[p] = TRUE /\ local_done'[p] = TRUE
      /\ remote_done'[p] = (remote_done[p] \/ takes)
  <2>1. /\ described \in [Peer -> BOOLEAN] /\ local_done \in [Peer -> BOOLEAN]
        /\ remote_done \in [Peer -> BOOLEAN]
    BY <1>1 DEF StateTyped
  <2>2. Puts(local_done', local_done, p, BOOLEAN) /\ local_done'[p] = TRUE
    BY <1>2, <2>1, PutsOne
  <2>3. Puts(described', described, p, BOOLEAN) /\ described'[p] = TRUE
    BY <1>2, <2>1, PutsNone
  <2>4. Puts(remote_done', remote_done, p, BOOLEAN) /\ remote_done'[p] = (remote_done[p] \/ takes)
    <3>1. CASE takes
      BY <2>1, <3>1, PutsOne
    <3>2. CASE ~takes
      BY <2>1, <3>2, PutsNone
    <3>3. QED BY <3>1, <3>2
  <2>5. QED BY <2>2, <2>3, <2>4 DEF FlagsPuts
<1>7. CandPuts(p) /\ pending_ice'[p] = pending_ice[p] /\ applied'[p] = applied[p]
  BY <1>1, <1>2, CandKept
<1>8. DataPuts(p)
  BY <1>1, <1>2, DataKept
<1>9. Acts(p)
  BY <1>2, <1>3, <1>4, <1>5, <1>6, <1>7, <1>8 DEF Acts
<1>10. Wasi(p)' = Wasi(p) /\ Browser(p)' = Browser(p)
  BY <1>2 DEF Wasi, Browser
<1>11. Control(p)'
  BY <1>1, <1>2, <1>3, <1>4, <1>5, <1>6, <1>7, <1>10 DEF Control
<1>12. Proceeds(p)
  BY <1>3, <1>6 DEF Proceeds
<1>13. first \in Opening /\ first # <<Msg("ANSWER")>>
  BY OpeningTells
<1>14. Speaks(p, first)
  <2>1. forwarded'[p] \in forwarded[p]..gathered[p]
    BY <1>1, <1>5, DrainedIs
  <2>2. ~Native(p)
    BY DEF Native, Browser
  <2>3. QED BY <1>4, <1>6, <1>13, <2>1, <2>2 DEF Speaks
<1>15. Listens(p, takes)
  BY <1>6, <1>7 DEF Listens, Got, Native, Browser
<1>16. Sends(p, first) = first \o Drained(p)
  BY <1>1, <1>5, DrainedIs DEF Sends
<1>17. DataMoves(p, takes, first)
  BY <1>2, Silent
<1>18. Transmit(p, rest, Sends(p, first))
  BY <1>2, <1>16
<1>19. QED BY <1>2, <1>9, <1>11, <1>12, <1>14, <1>15, <1>17, <1>18, TalkStep

LEMMA DrainWhileOpeningStep ==
  ASSUME RtcInv, NEW p \in Peer, DrainWhileOpening(p)
  PROVE  RtcInv'
<1>1. StateTyped /\ Control(p)
  BY InvOf
<1>2. /\ stage[p] = "channel" /\ Browser(p) /\ MarkDrained(p) /\ Transmit(p, chan[p], Drained(p))
      /\ UNCHANGED <<stage, why>> /\ Untouched
  BY DEF DrainWhileOpening, Keep
<1>3. /\ AgentPuts(p) /\ FlagsPuts(p) /\ CandPuts(p) /\ DataPuts(p)
      /\ gather'[p] = gather[p] /\ gathered'[p] = gathered[p]
      /\ described'[p] = described[p] /\ local_done'[p] = local_done[p]
      /\ remote_done'[p] = remote_done[p]
      /\ pending_ice'[p] = pending_ice[p] /\ applied'[p] = applied[p]
      /\ UNCHANGED <<said, heard>> /\ open' = open /\ platform' = platform
  BY <1>1, <1>2, UntouchedKeeps
<1>4. StagePuts(p) /\ stage'[p] = stage[p] /\ why'[p] = why[p]
  BY <1>1, <1>2, StageKept
<1>5. Puts(forwarded', forwarded, p, 0..MaxIce) /\ forwarded'[p] = gathered[p]
  BY <1>1, <1>2, SentDrained
<1>6. Acts(p)
  BY <1>3, <1>4, <1>5 DEF Acts
<1>7. Wasi(p)' = Wasi(p) /\ Browser(p)' = Browser(p)
  BY <1>3 DEF Wasi, Browser
<1>8. Control(p)'
  BY <1>1, <1>2, <1>3, <1>4, <1>5, <1>7 DEF Control
<1>9. Proceeds(p)
  BY <1>2, <1>3, <1>4 DEF Proceeds
<1>10. <<>> \in Opening /\ <<>> # <<Msg("ANSWER")>> /\ <<>> # <<Msg("ICE_DONE")>>
  BY OpeningTells
<1>11. forwarded'[p] \in forwarded[p]..gathered[p]
  BY <1>1, <1>5, DrainedIs
<1>12. Speaks(p, <<>>)
  BY <1>2, <1>3, <1>10, <1>11 DEF Speaks, Native, Browser
<1>13. Listens(p, FALSE)
  BY <1>3 DEF Listens, Got
<1>14. Sends(p, <<>>) = Drained(p)
  <2>1. Sends(p, <<>>) = Batch(p, gathered[p])
    BY <1>1, <1>5, <1>10, <1>11, SendsAlone
  <2>2. QED BY <1>1, <1>2, <2>1, DrainedIs
<1>15. DataMoves(p, FALSE, <<>>)
  BY <1>3, Silent
<1>16. QED BY <1>2, <1>3, <1>6, <1>8, <1>9, <1>12, <1>13, <1>14, <1>15, TalkStep

LEMMA WasiSendStep ==
  ASSUME RtcInv, NEW p \in Peer, WasiSend(p)
  PROVE  RtcInv'
<1> DEFINE first == <<Payload("DATA", said[p] + 1)>>
<1>1. StateTyped /\ Control(p)
  BY InvOf
<1>2. /\ stage[p] = "connected" /\ Wasi(p) /\ said[p] < MaxData /\ Transmit(p, chan[p], first)
      /\ said' = [said EXCEPT ![p] = said[p] + 1] /\ heard' = heard
  BY DEF WasiSend, Keep, Put
<1>3. /\ UNCHANGED <<stage, why>> /\ UNCHANGED <<gather, gathered>> /\ forwarded' = forwarded
      /\ UNCHANGED <<described, local_done, remote_done>> /\ UNCHANGED <<pending_ice, applied>>
      /\ open' = open /\ platform' = platform
  BY DEF WasiSend, iceVars, flagVars, iceIn
<1>4. StagePuts(p) /\ stage'[p] = stage[p] /\ why'[p] = why[p]
  BY <1>1, <1>3, StageKept
<1>5. AgentPuts(p) /\ gather'[p] = gather[p] /\ gathered'[p] = gathered[p]
  BY <1>1, <1>3, AgentKept
<1>6. Puts(forwarded', forwarded, p, 0..MaxIce) /\ forwarded'[p] = forwarded[p]
  BY <1>1, <1>3, SentKept
<1>7. FlagsPuts(p) /\ described'[p] = described[p] /\ local_done'[p] = local_done[p]
      /\ remote_done'[p] = remote_done[p]
  BY <1>1, <1>3, FlagsKept
<1>8. CandPuts(p) /\ pending_ice'[p] = pending_ice[p] /\ applied'[p] = applied[p]
  BY <1>1, <1>3, CandKept
<1>9. said[p] + 1 \in 0..MaxData /\ said[p] + 1 \in 1..MaxData
  BY <1>1, <1>2, DataIsNat, RtcAssumption
<1>10. DataPuts(p) /\ said'[p] = said[p] + 1
  <2>1. said \in [Peer -> 0..MaxData] /\ heard \in [Peer -> 0..MaxData]
    BY <1>1 DEF StateTyped
  <2>2. Puts(said', said, p, 0..MaxData)
    BY <1>2, <1>9, <2>1 DEF Puts
  <2>3. Puts(heard', heard, p, 0..MaxData)
    BY <1>2, <2>1, PutsNone
  <2>4. QED BY <1>2, <2>1, <2>2, <2>3 DEF DataPuts
<1>11. Acts(p)
  BY <1>3, <1>4, <1>5, <1>6, <1>7, <1>8, <1>10 DEF Acts
<1>12. Wasi(p)' = Wasi(p) /\ Browser(p)' = Browser(p)
  BY <1>3 DEF Wasi, Browser
<1>13. Control(p)'
  BY <1>1, <1>2, <1>3, <1>4, <1>5, <1>6, <1>7, <1>8, <1>12 DEF Control
<1>14. Proceeds(p)
  BY <1>2, <1>4, <1>7 DEF Proceeds
<1>15. first \in Opening /\ first # <<Msg("ANSWER")>> /\ first # <<Msg("ICE_DONE")>>
  BY <1>9, OpeningTells
<1>16. Speaks(p, first)
  <2>1. forwarded'[p] \in forwarded[p]..gathered[p]
    BY <1>1, <1>6, DrainedIs
  <2>2. ~Native(p)
    BY <1>2 DEF Native, Wasi
  <2>3. QED BY <1>2, <1>5, <1>7, <1>15, <2>1, <2>2 DEF Speaks
<1>17. Listens(p, FALSE)
  BY <1>7, <1>8 DEF Listens, Got
<1>18. Sends(p, first) = first
  BY <1>1, <1>6, <1>15, SendsAlone
<1>19. DataMoves(p, FALSE, first)
  <2>1. said'[Other(p)] = said[Other(p)]
    BY <1>2, TwoPeers
  <2>2. QED BY <1>2, <1>10, <2>1 DEF DataMoves
<1>20. QED BY <1>2, <1>3, <1>11, <1>13, <1>14, <1>16, <1>17, <1>18, <1>19, TalkStep

LEMMA WasiRecvStep ==
  ASSUME RtcInv, NEW p \in Peer, WasiRecv(p)
  PROVE  RtcInv'
<1> DEFINE m == Head(chan[p])
           hears == m.kind = "DATA" /\ m.ok
<1>1. StateTyped /\ Control(p) /\ DataInv(p) /\ chan[p] \in Seq(Message)
  BY InvOf
<1>2. /\ stage[p] = "connected" /\ Wasi(p) /\ chan[p] # <<>>
      /\ Transmit(p, Tail(chan[p]), <<>>)
      /\ heard' = IF hears THEN [heard EXCEPT ![p] = heard[p] + 1] ELSE heard
      /\ said' = said
  BY DEF WasiRecv, Put
<1>3. /\ UNCHANGED <<stage, why>> /\ UNCHANGED <<gather, gathered>> /\ forwarded' = forwarded
      /\ UNCHANGED <<described, local_done, remote_done>> /\ UNCHANGED <<pending_ice, applied>>
      /\ open' = open /\ platform' = platform
  BY DEF WasiRecv, iceVars, flagVars, iceIn
<1>4. StagePuts(p) /\ stage'[p] = stage[p] /\ why'[p] = why[p]
  BY <1>1, <1>3, StageKept
<1>5. AgentPuts(p) /\ gather'[p] = gather[p] /\ gathered'[p] = gathered[p]
  BY <1>1, <1>3, AgentKept
<1>6. Puts(forwarded', forwarded, p, 0..MaxIce) /\ forwarded'[p] = forwarded[p]
  BY <1>1, <1>3, SentKept
<1>7. FlagsPuts(p) /\ described'[p] = described[p] /\ local_done'[p] = local_done[p]
      /\ remote_done'[p] = remote_done[p]
  BY <1>1, <1>3, FlagsKept
<1>8. CandPuts(p) /\ pending_ice'[p] = pending_ice[p] /\ applied'[p] = applied[p]
  BY <1>1, <1>3, CandKept
<1>9. hears => heard[p] + 1 \in 0..MaxData
  <2>1. /\ heard[p] \in Nat /\ said[Other(p)] \in Nat /\ said[Other(p)] <= MaxData
    BY <1>1, TwoPeers, DataIsNat
  <2>2. DataRises(chan[p], heard[p], said[Other(p)])
    BY <1>1 DEF DataInv
  <2>3. m.kind = "DATA" => heard[p] + 1 <= said[Other(p)]
    BY <1>1, <1>2, <2>1, <2>2, TailRises
  <2>4. QED BY <2>1, <2>3, RtcAssumption
<1>10. DataPuts(p) /\ heard'[p] = IF hears THEN heard[p] + 1 ELSE heard[p]
  <2>1. said \in [Peer -> 0..MaxData] /\ heard \in [Peer -> 0..MaxData]
    BY <1>1 DEF StateTyped
  <2>2. Puts(said', said, p, 0..MaxData)
    BY <1>2, <2>1, PutsNone
  <2>3. Puts(heard', heard, p, 0..MaxData)
    <3>1. CASE hears
      BY <1>2, <1>9, <2>1, <3>1 DEF Puts
    <3>2. CASE ~hears
      BY <1>2, <2>1, <3>2, PutsNone
    <3>3. QED BY <3>1, <3>2
  <2>4. QED BY <1>2, <2>1, <2>2, <2>3 DEF DataPuts
<1>11. Acts(p)
  BY <1>3, <1>4, <1>5, <1>6, <1>7, <1>8, <1>10 DEF Acts
<1>12. Wasi(p)' = Wasi(p) /\ Browser(p)' = Browser(p)
  BY <1>3 DEF Wasi, Browser
<1>13. Control(p)'
  BY <1>1, <1>2, <1>3, <1>4, <1>5, <1>6, <1>7, <1>8, <1>12 DEF Control
<1>14. Proceeds(p)
  BY <1>2, <1>4, <1>7 DEF Proceeds
<1>15. <<>> \in Opening /\ <<>> # <<Msg("ANSWER")>> /\ <<>> # <<Msg("ICE_DONE")>>
  BY OpeningTells
<1>16. Speaks(p, <<>>)
  <2>1. forwarded'[p] \in forwarded[p]..gathered[p]
    BY <1>1, <1>6, DrainedIs
  <2>2. QED BY <1>2, <1>5, <1>6, <1>7, <1>15, <2>1 DEF Speaks
<1>17. Listens(p, TRUE)
  <2>1. described'[p] /\ ~Native(p)
    BY <1>1, <1>2, <1>7 DEF Control, Native, Wasi
  <2>2. QED BY <1>2, <1>7, <1>8, <2>1 DEF Listens, Got
<1>18. Transmit(p, Tail(chan[p]), Sends(p, <<>>))
  BY <1>1, <1>2, <1>6, <1>15, SendsAlone
<1>19. DataMoves(p, TRUE, <<>>)
  <2>1. heard'[Other(p)] = heard[Other(p)]
    BY <1>2, TwoPeers
  <2>2. "DATA" \notin KindsIn(<<>>)
    BY EmptyLine
  <2>3. QED BY <1>2, <1>10, <2>1, <2>2 DEF DataMoves
<1>20. QED BY <1>3, <1>11, <1>13, <1>14, <1>16, <1>17, <1>18, <1>19, TalkStep

-----------------------------------------------------------------------------
(* The actions that touch no line.                                         *)

LEMMA CreateOfferStep ==
  ASSUME RtcInv, NEW p \in Peer, CreateOffer(p)
  PROVE  RtcInv'
<1>1. StateTyped /\ Control(p) /\ Control(Other(p))
  BY InvOf
<1>2. stage[p] = "describe" /\ StartGathering(p) /\ Goto(p, "offering")
  BY DEF CreateOffer
<1>3. /\ UNCHANGED <<platform, link, orphan, chan, open>> /\ forwarded' = forwarded
      /\ UNCHANGED <<described, local_done, remote_done>> /\ UNCHANGED <<pending_ice, applied>>
      /\ UNCHANGED <<said, heard>>
  BY DEF CreateOffer, flagVars, iceIn, dataVars
<1>4. StagePuts(p) /\ stage'[p] = "offering" /\ why'[p] = why[p]
  BY <1>1, <1>2, GoesTo DEF Stages
<1>5. AgentPuts(p) /\ gathered'[p] = (IF Wasi(p) THEN 1 ELSE 0)
  BY <1>1, <1>2, Started
<1>6. Puts(forwarded', forwarded, p, 0..MaxIce) /\ forwarded'[p] = forwarded[p]
  BY <1>1, <1>3, SentKept
<1>7. FlagsPuts(p) /\ described'[p] = described[p] /\ local_done'[p] = local_done[p]
      /\ remote_done'[p] = remote_done[p]
  BY <1>1, <1>3, FlagsKept
<1>8. CandPuts(p) /\ pending_ice'[p] = pending_ice[p] /\ applied'[p] = applied[p]
  BY <1>1, <1>3, CandKept
<1>9. DataPuts(p)
  BY <1>1, <1>3, DataKept
<1>10. Acts(p)
  BY <1>3, <1>4, <1>5, <1>6, <1>7, <1>8, <1>9 DEF Acts
<1>11. Bystander(Other(p))
  BY <1>1, <1>10, ActsAre
<1>12. /\ gathered[p] = 0 /\ forwarded[p] = 0 /\ ~local_done[p] /\ ~described[p]
       /\ p = "offerer" /\ ~open /\ pending_ice[p] = {}
  BY <1>1, <1>2 DEF Control, Peer
<1>13. Control(p)'
  BY <1>3, <1>4, <1>6, <1>7, <1>8, <1>12 DEF Control
<1>14. Control(Other(p))'
  BY <1>1, <1>3, <1>11, BystanderControl
<1>15. Works(p)
  BY <1>2, <1>3, <1>4, <1>5, <1>6, <1>7, <1>8, <1>11, <1>12 DEF Works
<1>16. open' \in BOOLEAN
  BY <1>1, <1>3 DEF StateTyped
<1>17. QED BY <1>3, <1>10, <1>13, <1>14, <1>15, <1>16, WorkStep

LEMMA AgentStep ==
  ASSUME RtcInv, NEW p \in Peer, Agent(p)
  PROVE  RtcInv'
<1>1. StateTyped /\ Control(p) /\ Control(Other(p))
  BY InvOf
<1>2. /\ UNCHANGED <<platform, link, orphan, chan, open>> /\ UNCHANGED <<stage, why>>
      /\ forwarded' = forwarded /\ UNCHANGED <<described, local_done, remote_done>>
      /\ UNCHANGED <<pending_ice, applied>> /\ UNCHANGED <<said, heard>>
      /\ gather[p] = "running"
  BY DEF Agent, Gather, GatheringEnds, flagVars, iceIn, dataVars
<1>3. \/ /\ gather' = gather /\ gathered[p] < MaxIce
         /\ gathered' = [gathered EXCEPT ![p] = gathered[p] + 1]
      \/ gather' = [gather EXCEPT ![p] = "over"] /\ gathered' = gathered
  BY DEF Agent, Gather, GatheringEnds, Put
<1>4. StagePuts(p) /\ stage'[p] = stage[p] /\ why'[p] = why[p]
  BY <1>1, <1>2, StageKept
<1>5. AgentPuts(p) /\ gathered'[p] \in Nat /\ gathered[p] \in Nat /\ gathered[p] <= gathered'[p]
  <2>1. gather \in [Peer -> {"idle", "running", "over"}] /\ gathered \in [Peer -> 0..MaxIce]
    BY <1>1 DEF StateTyped
  <2>2. CASE /\ gather' = gather /\ gathered[p] < MaxIce
             /\ gathered' = [gathered EXCEPT ![p] = gathered[p] + 1]
    <3>1. gathered[p] \in 0..MaxIce /\ gathered[p] + 1 \in 0..MaxIce
      BY <2>1, <2>2, RtcAssumption
    <3>2. Puts(gathered', gathered, p, 0..MaxIce) /\ gathered'[p] = gathered[p] + 1
      BY <2>1, <2>2, <3>1 DEF Puts
    <3>3. Puts(gather', gather, p, {"idle", "running", "over"})
      BY <2>1, <2>2, PutsNone
    <3>4. QED BY <3>1, <3>2, <3>3 DEF AgentPuts
  <2>3. CASE gather' = [gather EXCEPT ![p] = "over"] /\ gathered' = gathered
    <3>1. Puts(gathered', gathered, p, 0..MaxIce) /\ gathered'[p] = gathered[p]
      BY <2>1, <2>3, PutsNone
    <3>2. Puts(gather', gather, p, {"idle", "running", "over"})
      BY <2>1, <2>3, PutsOne
    <3>3. gathered[p] \in Nat
      BY <2>1
    <3>4. QED BY <3>1, <3>2, <3>3 DEF AgentPuts
  <2>4. QED BY <1>3, <2>2, <2>3
<1>6. Puts(forwarded', forwarded, p, 0..MaxIce) /\ forwarded'[p] = forwarded[p]
  BY <1>1, <1>2, SentKept
<1>7. FlagsPuts(p) /\ described'[p] = described[p] /\ local_done'[p] = local_done[p]
      /\ remote_done'[p] = remote_done[p]
  BY <1>1, <1>2, FlagsKept
<1>8. CandPuts(p) /\ pending_ice'[p] = pending_ice[p] /\ applied'[p] = applied[p]
  BY <1>1, <1>2, CandKept
<1>9. DataPuts(p)
  BY <1>1, <1>2, DataKept
<1>10. Acts(p)
  BY <1>2, <1>4, <1>5, <1>6, <1>7, <1>8, <1>9 DEF Acts
<1>11. Bystander(Other(p))
  BY <1>1, <1>10, ActsAre
<1>12. ~local_done[p] \/ Browser(p)
  BY <1>1, <1>2 DEF Control
<1>13. Wasi(p)' = Wasi(p) /\ Browser(p)' = Browser(p)
  BY <1>2 DEF Wasi, Browser
<1>14. Control(p)'
  <2>1. stage[p] \notin {"describe", "await"}
    BY <1>1, <1>2 DEF Control
  <2>2. QED BY <1>1, <1>2, <1>4, <1>6, <1>7, <1>8, <1>12, <1>13, <2>1 DEF Control
<1>15. Control(Other(p))'
  BY <1>1, <1>2, <1>11, BystanderControl
<1>16. Works(p)
  BY <1>2, <1>4, <1>5, <1>6, <1>7, <1>8, <1>11, <1>12 DEF Works
<1>17. open' \in BOOLEAN
  BY <1>1, <1>2 DEF StateTyped
<1>18. QED BY <1>2, <1>10, <1>14, <1>15, <1>16, <1>17, WorkStep

LEMMA FinishExchangeStep ==
  ASSUME RtcInv, NEW p \in Peer, FinishExchange(p)
  PROVE  RtcInv'
<1> DEFINE s == IF Wasi(p) THEN "connected" ELSE "channel"
<1>1. StateTyped /\ Control(p) /\ Control(Other(p))
  BY InvOf
<1>2. /\ stage[p] = "exchange" /\ ~Browser(p) /\ described[p] /\ local_done[p] /\ remote_done[p]
      /\ Goto(p, s) /\ UNCHANGED <<link, orphan, chan>> /\ forwarded' = forwarded /\ Untouched
  BY DEF FinishExchange, Complete
<1>3. /\ AgentPuts(p) /\ FlagsPuts(p) /\ CandPuts(p) /\ DataPuts(p)
      /\ gather'[p] = gather[p] /\ gathered'[p] = gathered[p]
      /\ described'[p] = described[p] /\ local_done'[p] = local_done[p]
      /\ remote_done'[p] = remote_done[p]
      /\ pending_ice'[p] = pending_ice[p] /\ applied'[p] = applied[p]
      /\ UNCHANGED <<said, heard>> /\ open' = open /\ platform' = platform
  BY <1>1, <1>2, UntouchedKeeps
<1>4. StagePuts(p) /\ stage'[p] = s /\ why'[p] = why[p]
  <2>1. s \in Stages
    BY DEF Stages
  <2> HIDE DEF s
  <2>2. QED BY <1>1, <1>2, <2>1, GoesTo
<1>5. Puts(forwarded', forwarded, p, 0..MaxIce) /\ forwarded'[p] = forwarded[p]
  BY <1>1, <1>2, SentKept
<1>6. Acts(p)
  BY <1>3, <1>4, <1>5 DEF Acts
<1>7. Bystander(Other(p))
  BY <1>1, <1>6, ActsAre
<1>8. Wasi(p)' = Wasi(p) /\ Browser(p)' = Browser(p)
  BY <1>3 DEF Wasi, Browser
<1>9. Control(p)'
  BY <1>1, <1>2, <1>3, <1>4, <1>5, <1>8 DEF Control
<1>10. Control(Other(p))'
  BY <1>1, <1>3, <1>7, BystanderControl
<1>11. Works(p)
  BY <1>2, <1>3, <1>4, <1>5, <1>7 DEF Works
<1>12. open' \in BOOLEAN
  BY <1>1, <1>3 DEF StateTyped
<1>13. QED BY <1>3, <1>6, <1>9, <1>10, <1>11, <1>12, WorkStep

LEMMA DataChannelOpensStep ==
  ASSUME RtcInv, DataChannelOpens
  PROVE  RtcInv'
<1> DEFINE p == "offerer"
<1>1. p \in Peer
  BY DEF Peer
<1> HIDE DEF p
<1>2. StateTyped /\ Control(p) /\ Control(Other(p)) /\ Other(p) \in Peer
  BY <1>1, InvOf, TwoPeers
<1>3. /\ \A r \in Peer : ~Wasi(r) /\ described[r] /\ stage[r] # "failed"
      /\ open' = TRUE /\ platform' = platform /\ UNCHANGED <<link, orphan, chan>>
      /\ UNCHANGED <<stage, why>> /\ UNCHANGED <<gather, gathered>> /\ forwarded' = forwarded
      /\ UNCHANGED <<described, local_done, remote_done>> /\ UNCHANGED <<pending_ice, applied>>
      /\ UNCHANGED <<said, heard>>
  BY DEF DataChannelOpens, iceVars, flagVars, iceIn, dataVars
<1>4. StagePuts(p) /\ stage'[p] = stage[p] /\ why'[p] = why[p]
  BY <1>1, <1>2, <1>3, StageKept
<1>5. AgentPuts(p) /\ gather'[p] = gather[p] /\ gathered'[p] = gathered[p]
  BY <1>1, <1>2, <1>3, AgentKept
<1>6. Puts(forwarded', forwarded, p, 0..MaxIce) /\ forwarded'[p] = forwarded[p]
  BY <1>1, <1>2, <1>3, SentKept
<1>7. FlagsPuts(p) /\ described'[p] = described[p] /\ local_done'[p] = local_done[p]
      /\ remote_done'[p] = remote_done[p]
  BY <1>1, <1>2, <1>3, FlagsKept
<1>8. CandPuts(p) /\ pending_ice'[p] = pending_ice[p] /\ applied'[p] = applied[p]
  BY <1>1, <1>2, <1>3, CandKept
<1>9. DataPuts(p)
  BY <1>1, <1>2, <1>3, DataKept
<1>10. Acts(p)
  BY <1>3, <1>4, <1>5, <1>6, <1>7, <1>8, <1>9 DEF Acts
<1>11. Bystander(Other(p))
  BY <1>1, <1>2, <1>10, ActsAre
<1>12. \A r \in Peer : Control(r) => Control(r)'
  BY <1>3 DEF Control, Wasi, Browser
<1>13. Works(p)
  BY <1>3, <1>4, <1>5, <1>6, <1>7, <1>8, <1>11 DEF Works
<1>14. open' \in BOOLEAN
  BY <1>3
<1>15. QED BY <1>1, <1>2, <1>3, <1>10, <1>12, <1>13, <1>14, WorkStep

-----------------------------------------------------------------------------
(* The actions in which a peer leaves.                                     *)

LEMMA HangUpStep ==
  ASSUME RtcInv, NEW p \in Peer, StagePuts(p), HangUp(p), Untouched, forwarded' = forwarded,
         stage[p] \in {"await", "exchange", "channel"} \/ (stage[p] = "connected" /\ Wasi(p)),
         why'[p] # "none" <=> stage'[p] = "failed",
         \/ /\ stage'[p] = "failed"
            /\ why'[p] = "peer left" =>
                 chan[p] # <<>> /\ Head(chan[p]).kind = "PEER_LEFT" /\ ~Complete(p)
                 /\ stage[p] # "channel"
            /\ why'[p] = "closed" => link[p] = "cut" /\ stage[p] \in {"await", "exchange"}
         \/ stage[p] = "channel" /\ stage'[p] = "connected" /\ open /\ why'[p] = why[p]
  PROVE  RtcInv'
<1>1. StateTyped /\ Control(p)
  BY InvOf
<1>2. /\ AgentPuts(p) /\ FlagsPuts(p) /\ CandPuts(p) /\ DataPuts(p)
      /\ gather'[p] = gather[p] /\ gathered'[p] = gathered[p]
      /\ described'[p] = described[p] /\ local_done'[p] = local_done[p]
      /\ remote_done'[p] = remote_done[p]
      /\ pending_ice'[p] = pending_ice[p] /\ applied'[p] = applied[p]
      /\ UNCHANGED <<said, heard>> /\ open' = open /\ platform' = platform
  BY <1>1, UntouchedKeeps
<1>3. Puts(forwarded', forwarded, p, 0..MaxIce) /\ forwarded'[p] = forwarded[p]
  BY <1>1, SentKept
<1>4. Acts(p)
  BY <1>2, <1>3 DEF Acts
<1>5. Bystander(Other(p))
  BY <1>1, <1>4, ActsAre
<1>6. OwnFlags(p)
  BY <1>2, <1>3 DEF OwnFlags
<1>7. Leaves(p)
  BY <1>2, <1>5, <1>6 DEF Leaves
<1>8. Wasi(p)' = Wasi(p) /\ Browser(p)' = Browser(p)
  BY <1>2 DEF Wasi, Browser
<1>9. Control(p)'
  <2>1. CASE stage'[p] = "failed"
    BY <1>1, <1>2, <1>3, <1>8, <2>1 DEF Control
  <2>2. CASE stage[p] = "channel" /\ stage'[p] = "connected"
    BY <1>1, <1>2, <1>3, <1>8, <2>2 DEF Control
  <2>3. QED BY <2>1, <2>2
<1>10. QED BY <1>2, <1>4, <1>7, <1>9, LeaveStep

LEMMA FailStep ==
  ASSUME RtcInv, NEW p \in Peer, NEW reason \in Reasons, reason # "none",
         Fail(p, reason), Untouched, forwarded' = forwarded,
         stage[p] \in {"await", "exchange", "channel"} \/ (stage[p] = "connected" /\ Wasi(p)),
         reason = "peer left" => /\ chan[p] # <<>> /\ Head(chan[p]).kind = "PEER_LEFT"
                                 /\ ~Complete(p) /\ stage[p] # "channel",
         reason = "closed" => link[p] = "cut" /\ stage[p] \in {"await", "exchange"}
  PROVE  RtcInv'
<1>1. stage \in [Peer -> Stages] /\ why \in [Peer -> Reasons]
  BY InvOf DEF StateTyped
<1>2. /\ stage' = [stage EXCEPT ![p] = "failed"] /\ why' = [why EXCEPT ![p] = reason] /\ HangUp(p)
  BY DEF Fail, Put
<1>3. "failed" \in Stages
  BY DEF Stages
<1>4. Puts(stage', stage, p, Stages) /\ stage'[p] = "failed"
  BY <1>1, <1>2, <1>3, PutsOne
<1>5. Puts(why', why, p, Reasons) /\ why'[p] = reason
  BY <1>1, <1>2, PutsOne
<1>6. StagePuts(p)
  BY <1>4, <1>5 DEF StagePuts
<1>7. QED BY <1>2, <1>4, <1>5, <1>6, HangUpStep

LEMMA ReceivePeerLeftStep ==
  ASSUME RtcInv, NEW p \in Peer, ReceivePeerLeft(p)
  PROVE  RtcInv'
  BY FailStep DEF ReceivePeerLeft, Receives, Reasons

LEMMA WasiClosedStep ==
  ASSUME RtcInv, NEW p \in Peer, WasiClosed(p)
  PROVE  RtcInv'
<1>1. /\ stage[p] = "connected" /\ Wasi(p) /\ chan[p] # <<>> /\ Head(chan[p]).kind = "PEER_LEFT"
      /\ Fail(p, "peer left") /\ Untouched /\ forwarded' = forwarded
  BY DEF WasiClosed
<1>2. ~Complete(p)
  BY <1>1 DEF Complete
<1>3. QED BY <1>1, <1>2, FailStep DEF Reasons

LEMMA ChannelTimeoutStep ==
  ASSUME RtcInv, NEW p \in Peer, ChannelTimeout(p)
  PROVE  RtcInv'
  BY FailStep DEF ChannelTimeout, Reasons

LEMMA EstablishedStep ==
  ASSUME RtcInv, NEW p \in Peer, Established(p)
  PROVE  RtcInv'
<1>1. StateTyped
  BY InvOf
<1>2. /\ stage[p] = "channel" /\ open /\ Goto(p, "connected") /\ HangUp(p) /\ Untouched
      /\ forwarded' = forwarded
  BY DEF Established
<1>3. StagePuts(p) /\ stage'[p] = "connected" /\ why'[p] = why[p]
  BY <1>1, <1>2, GoesTo DEF Stages
<1>4. why'[p] # "none" <=> stage'[p] = "failed"
  BY <1>1, <1>2, <1>3 DEF StateTyped
<1>5. QED BY <1>2, <1>3, <1>4, HangUpStep

(* The connection is cut, or the browser has waited too long.              *)
LEMMA SignalFailsStep ==
  ASSUME RtcInv, NEW p \in Peer, NEW reason \in {"closed", "signal timeout"},
         SignalFails(p, reason), reason = "closed" => link[p] = "cut"
  PROVE  RtcInv'
<1>1. Control(p)
  BY InvOf
<1>2. stage[p] \in {"await", "exchange"} /\ ~Complete(p) /\ chan[p] = <<>>
  BY DEF SignalFails
<1>3. CASE Browser(p) /\ p = "answerer" /\ stage[p] = "exchange"
  <2>1. described[p]
    BY <1>1, <1>3 DEF Control
  <2>2. BrowserFinish(p, chan[p]) /\ remote_done' = remote_done
    BY <1>2, <1>3 DEF SignalFails
  <2>3. BrowserFinish(p, IF FALSE THEN Tail(chan[p]) ELSE chan[p])
    BY <2>2
  <2>4. QED BY <1>3, <2>1, <2>2, <2>3, BrowserFinishStep
<1>4. CASE ~(Browser(p) /\ p = "answerer" /\ stage[p] = "exchange")
  <2>1. Fail(p, reason) /\ Untouched /\ forwarded' = forwarded
    BY <1>4 DEF SignalFails
  <2>2. reason \in Reasons /\ reason # "none" /\ reason # "peer left"
    BY DEF Reasons
  <2>3. QED BY <1>2, <2>1, <2>2, FailStep
<1>5. QED BY <1>3, <1>4

LEMMA BrowserReceivesDoneStep ==
  ASSUME RtcInv, NEW p \in Peer, BrowserReceivesDone(p)
  PROVE  RtcInv'
<1>1. /\ Browser(p) /\ stage[p] = "exchange" /\ described[p]
      /\ chan[p] # <<>> /\ Head(chan[p]).kind = "ICE_DONE"
      /\ remote_done' = [remote_done EXCEPT ![p] = TRUE]
      /\ BrowserFinish(p, Tail(chan[p]))
  BY DEF BrowserReceivesDone, Receives, Put
<1>2. BrowserFinish(p, IF TRUE THEN Tail(chan[p]) ELSE chan[p])
  BY <1>1
<1>3. QED BY <1>1, <1>2, BrowserFinishStep

-----------------------------------------------------------------------------
(* The faults.                                                             *)

LEMMA CrashStep ==
  ASSUME RtcInv, NEW p \in Peer, Crash(p)
  PROVE  RtcInv'
<1>1. StateTyped /\ LinesTyped /\ Control(p) /\ Control(Other(p))
  BY InvOf
<1>2. /\ stage[p] \notin {"connected", "failed"} /\ Untouched /\ forwarded' = forwarded
      /\ stage' = [stage EXCEPT ![p] = "failed"] /\ why' = [why EXCEPT ![p] = "crash"]
  BY DEF Crash, Put
<1>3. /\ AgentPuts(p) /\ FlagsPuts(p) /\ CandPuts(p) /\ DataPuts(p)
      /\ gather'[p] = gather[p] /\ gathered'[p] = gathered[p]
      /\ described'[p] = described[p] /\ local_done'[p] = local_done[p]
      /\ remote_done'[p] = remote_done[p]
      /\ pending_ice'[p] = pending_ice[p] /\ applied'[p] = applied[p]
      /\ UNCHANGED <<said, heard>> /\ open' = open /\ platform' = platform
  BY <1>1, <1>2, UntouchedKeeps
<1>4. StagePuts(p) /\ stage'[p] = "failed" /\ why'[p] = "crash"
  <2>1. stage \in [Peer -> Stages] /\ why \in [Peer -> Reasons]
    BY <1>1 DEF StateTyped
  <2>2. "failed" \in Stages /\ "crash" \in Reasons
    BY DEF Stages, Reasons
  <2>3. Puts(stage', stage, p, Stages) /\ stage'[p] = "failed"
    BY <1>2, <2>1, <2>2, PutsOne
  <2>4. Puts(why', why, p, Reasons) /\ why'[p] = "crash"
    BY <1>2, <2>1, <2>2, PutsOne
  <2>5. QED BY <2>3, <2>4 DEF StagePuts
<1>5. Puts(forwarded', forwarded, p, 0..MaxIce) /\ forwarded'[p] = forwarded[p]
  BY <1>1, <1>2, SentKept
<1>6. Acts(p)
  BY <1>3, <1>4, <1>5 DEF Acts
<1>7. Bystander(Other(p))
  BY <1>1, <1>6, ActsAre
<1>8. /\ LinesTyped' /\ orphan' = orphan /\ chan'[p] = <<>>
      /\ link' \in [Peer -> {"open", "cut", "left"}]
      /\ Cut(chan'[Other(p)], chan[Other(p)])
  BY <1>1, CrashMoves
<1>9. StateTyped'
  <2>1. forwarded'[p] <= gathered'[p]
    BY <1>1, <1>3, <1>5 DEF StateTyped
  <2>2. open' \in BOOLEAN /\ orphan' \in [Peer -> BOOLEAN]
    BY <1>1, <1>3, <1>8 DEF StateTyped
  <2>3. why'[p] # "none" <=> stage'[p] = "failed"
    BY <1>4
  <2>4. QED BY <1>1, <1>6, <1>8, <2>1, <2>2, <2>3, ActsTyped
<1>10. Wasi(p)' = Wasi(p) /\ Browser(p)' = Browser(p)
  BY <1>3 DEF Wasi, Browser
<1>11. Control(p)'
  BY <1>1, <1>3, <1>4, <1>5, <1>10 DEF Control
<1>12. Control(Other(p))'
  BY <1>1, <1>3, <1>7, BystanderControl
<1>13. DataInv(p)' /\ DataInv(Other(p))'
  <2>1. \A r \in Peer : \/ chan'[r] = chan[r] \/ chan'[r] = <<>>
                        \/ chan'[r] = chan[r] \o PeerLeft \/ Cut(chan'[r], chan[r])
    BY <1>8, TwoPeers
  <2>2. said' = said /\ heard' = heard
    BY <1>3
  <2>3. QED BY <2>1, <2>2, QuietData, TwoPeers
<1>14. QED BY <1>8, <1>9, <1>11, <1>12, <1>13, CrashKeeps, Rebuilt

LEMMA HubCutsStep ==
  ASSUME RtcInv, NEW p \in Peer, HubCuts(p)
  PROVE  RtcInv'
<1>1. StateTyped /\ LinesTyped /\ Control(p) /\ Control(Other(p))
  BY InvOf
<1>2. Untouched /\ forwarded' = forwarded /\ UNCHANGED <<stage, why>>
  BY DEF HubCuts
<1>3. /\ AgentPuts(p) /\ FlagsPuts(p) /\ CandPuts(p) /\ DataPuts(p)
      /\ gather'[p] = gather[p] /\ gathered'[p] = gathered[p]
      /\ described'[p] = described[p] /\ local_done'[p] = local_done[p]
      /\ remote_done'[p] = remote_done[p]
      /\ pending_ice'[p] = pending_ice[p] /\ applied'[p] = applied[p]
      /\ UNCHANGED <<said, heard>> /\ open' = open /\ platform' = platform
  BY <1>1, <1>2, UntouchedKeeps
<1>4. StagePuts(p) /\ stage'[p] = stage[p] /\ why'[p] = why[p]
  BY <1>1, <1>2, StageKept
<1>5. Puts(forwarded', forwarded, p, 0..MaxIce) /\ forwarded'[p] = forwarded[p]
  BY <1>1, <1>2, SentKept
<1>6. Acts(p)
  BY <1>3, <1>4, <1>5 DEF Acts
<1>7. Bystander(Other(p))
  BY <1>1, <1>6, ActsAre
<1>8. /\ LinesTyped' /\ orphan' = orphan /\ chan'[Other(p)] = chan[Other(p)]
      /\ link' \in [Peer -> {"open", "cut", "left"}]
      /\ Cut(chan'[p], chan[p])
  BY <1>1, HubMoves
<1>9. StateTyped'
  <2>1. forwarded'[p] <= gathered'[p]
    BY <1>1, <1>3, <1>5 DEF StateTyped
  <2>2. open' \in BOOLEAN /\ orphan' \in [Peer -> BOOLEAN]
    BY <1>1, <1>3, <1>8 DEF StateTyped
  <2>3. why'[p] # "none" <=> stage'[p] = "failed"
    BY <1>1, <1>4 DEF StateTyped
  <2>4. QED BY <1>1, <1>6, <1>8, <2>1, <2>2, <2>3, ActsTyped
<1>10. Wasi(p)' = Wasi(p) /\ Browser(p)' = Browser(p)
  BY <1>3 DEF Wasi, Browser
<1>11. Control(p)'
  BY <1>1, <1>3, <1>4, <1>5, <1>10 DEF Control
<1>12. Control(Other(p))'
  BY <1>1, <1>3, <1>7, BystanderControl
<1>13. DataInv(p)' /\ DataInv(Other(p))'
  <2>1. \A r \in Peer : \/ chan'[r] = chan[r] \/ chan'[r] = <<>>
                        \/ chan'[r] = chan[r] \o PeerLeft \/ Cut(chan'[r], chan[r])
    BY <1>8, TwoPeers
  <2>2. said' = said /\ heard' = heard
    BY <1>3
  <2>3. QED BY <2>1, <2>2, QuietData, TwoPeers
<1>14. QED BY <1>8, <1>9, <1>11, <1>12, <1>13, HubKeeps, Rebuilt

-----------------------------------------------------------------------------
(* Every step keeps the invariant, and what follows from it.               *)

LEMMA StutterStep ==
  ASSUME RtcInv, UNCHANGED vars
  PROVE  RtcInv'
<1>1. UNCHANGED <<platform, stage, why, link, orphan, chan, gather, gathered, forwarded, described,
                  local_done, remote_done, pending_ice, applied, open, said, heard>>
  BY DEF vars, iceVars, flagVars, iceIn, dataVars
<1>2. StateTyped' /\ LinesTyped' /\ AnswerInv'
  <2>1. StateTyped /\ LinesTyped /\ AnswerInv
    BY DEF RtcInv
  <2>2. StateTyped'
    BY <1>1, <2>1 DEF StateTyped
  <2>3. LinesTyped' /\ AnswerInv'
    BY <1>1, <2>1 DEF LinesTyped, AnswerInv
  <2>4. QED BY <2>2, <2>3
<1>3. ASSUME NEW p \in Peer
      PROVE  Control(p)' /\ Links(p)' /\ LossInv(p)' /\ CandInv(p)' /\ DataInv(p)'
  <2>1. Control(p) /\ Links(p) /\ LossInv(p) /\ CandInv(p) /\ DataInv(p)
    BY InvOf
  <2>2. Control(p)' /\ Links(p)'
    BY <1>1, <2>1 DEF Control, Links, Wasi, Browser
  <2>3. LossInv(p)' /\ DataInv(p)'
    BY <1>1, <2>1 DEF LossInv, LeftWell, DataInv, Wasi, Browser, Native
  <2>4. CandInv(p)'
    BY <1>1, <2>1 DEF CandInv, Got, Wasi, Browser
  <2>5. QED BY <2>2, <2>3, <2>4
<1>4. QED BY <1>2, <1>3 DEF RtcInv

LEMMA NextStep ==
  ASSUME RtcInv, [Next]_vars
  PROVE  RtcInv'
<1>1. CASE UNCHANGED vars
  BY <1>1, StutterStep
<1>2. CASE DataChannelOpens
  BY <1>2, DataChannelOpensStep
<1>3. ASSUME NEW p \in Peer, Agent(p) PROVE RtcInv'
  BY <1>3, AgentStep
<1>4. ASSUME NEW p \in Peer, SignalClosed(p) PROVE RtcInv'
  <2>1. SignalFails(p, "closed") /\ link[p] = "cut"
    BY <1>4 DEF SignalClosed
  <2>2. QED BY <2>1, SignalFailsStep
<1>5. ASSUME NEW p \in Peer, SignalTimeout(p) PROVE RtcInv'
  <2>1. SignalFails(p, "signal timeout")
    BY <1>5 DEF SignalTimeout
  <2>2. QED BY <2>1, SignalFailsStep
<1>6. ASSUME NEW p \in Peer, Receive(p) PROVE RtcInv'
  <2>1. CASE ReceiveOffer(p)
    BY <2>1, ReceiveOfferStep
  <2>2. CASE ReceiveAnswer(p)
    BY <2>2, ReceiveAnswerStep
  <2>3. CASE ReceiveCandidate(p)
    BY <2>3, ReceiveCandidateStep
  <2>4. CASE ReceiveDone(p)
    BY <2>4, ReceiveDoneStep
  <2>5. CASE BrowserReceivesDone(p)
    BY <2>5, BrowserReceivesDoneStep
  <2>6. CASE ReceivePeerLeft(p)
    BY <2>6, ReceivePeerLeftStep
  <2>7. CASE IgnorePeerLeft(p)
    BY <2>7, IgnorePeerLeftStep
  <2>8. QED BY <1>4, <1>6, <2>1, <2>2, <2>3, <2>4, <2>5, <2>6, <2>7 DEF Receive
<1>7. ASSUME NEW p \in Peer, Connect(p) PROVE RtcInv'
  <2>1. CASE CreateOffer(p)
    BY <2>1, CreateOfferStep
  <2>2. CASE SendOffer(p)
    BY <2>2, SendOfferStep
  <2>3. CASE SendAnswer(p)
    BY <2>3, SendAnswerStep
  <2>4. CASE ForwardCandidate(p)
    BY <2>4, ForwardCandidateStep
  <2>5. CASE LocalDone(p)
    BY <2>5, LocalDoneStep
  <2>6. CASE FinishExchange(p)
    BY <2>6, FinishExchangeStep
  <2>7. CASE Established(p)
    BY <2>7, EstablishedStep
  <2>8. CASE DrainWhileOpening(p)
    BY <2>8, DrainWhileOpeningStep
  <2>9. QED BY <1>6, <1>7, <2>1, <2>2, <2>3, <2>4, <2>5, <2>6, <2>7, <2>8 DEF Connect
<1>8. ASSUME NEW p \in Peer, Data(p) PROVE RtcInv'
  <2>1. CASE WasiSend(p)
    BY <2>1, WasiSendStep
  <2>2. CASE WasiRecv(p)
    BY <2>2, WasiRecvStep
  <2>3. CASE WasiClosed(p)
    BY <2>3, WasiClosedStep
  <2>4. QED BY <1>8, <2>1, <2>2, <2>3 DEF Data
<1>9. ASSUME NEW p \in Peer, Crash(p) \/ HubCuts(p) \/ ChannelTimeout(p) PROVE RtcInv'
  BY <1>9, CrashStep, HubCutsStep, ChannelTimeoutStep
<1>10. QED BY <1>1, <1>2, <1>3, <1>5, <1>7, <1>8, <1>9 DEF Next

LEMMA InvariantHolds == Spec => []RtcInv
<1>1. Init => RtcInv
  BY InitRtc
<1>2. RtcInv /\ [Next]_vars => RtcInv'
  BY NextStep
<1>3. QED BY <1>1, <1>2, PTL DEF Spec

(* In every state the variables have their types: no more candidates are   *)
(* forwarded than the agent gathered, a peer has failed exactly when it    *)
(* has an error to return, and no more DATA is heard than is said.         *)
THEOREM ExchangeTypeCorrect == Spec => []TypeOK
<1>1. RtcInv => TypeOK
  BY TypesHold DEF RtcInv
<1>2. QED BY <1>1, InvariantHolds, PTL

(* No candidate reaches the offerer before the answer, whichever           *)
(* implementations meet and wherever a connection is lost: rtc_native.rs   *)
(* would lose it and rtc_browser.rs would fail on it.                      *)
THEOREM AnswerReachesFirst == Spec => []AnswerComesFirst
<1>1. RtcInv => AnswerComesFirst
  BY DEF RtcInv, AnswerInv, AnswerComesFirst, Precedes
<1>2. QED BY <1>1, InvariantHolds, PTL

(* A peer whose connect fails because the other is gone is right about it: *)
(* a peer that finished first and dropped its signaling connection is not  *)
(* taken for a lost one, except a browser that stopped waiting.            *)
THEOREM LossIsReal == Spec => []NoFalseLoss
<1>1. RtcInv => NoFalseLoss
  BY DEF RtcInv, LossInv, NoFalseLoss
<1>2. QED BY <1>1, InvariantHolds, PTL

(* Through a relay that forwards text as it is, a peer that has the remote *)
(* description and the ICE_DONE of a native or wasi peer has given its     *)
(* agent exactly the candidates the other gathered.                        *)
THEOREM EveryCandidateApplied ==
  ASSUME RelayAppendsNewline = FALSE PROVE Spec => []CandidatesComplete
<1>1. ASSUME RtcInv, NEW p \in Peer, remote_done[p], described[p], ~Wasi(p), ~Browser(Other(p))
      PROVE  applied[p] = 1..gathered[Other(p)]
  <2>1. Control(p) /\ CandInv(p)
    BY <1>1, InvOf
  <2>2. pending_ice[p] = {}
    BY <1>1, <2>1 DEF Control
  <2>3. Got(p) = applied[p]
    BY <2>2 DEF Got
  <2>4. Got(p) \subseteq 1..gathered[Other(p)] /\ 1..gathered[Other(p)] \subseteq Got(p)
    BY <1>1, <2>1 DEF CandInv
  <2>5. QED BY <2>3, <2>4
<1>2. RtcInv => CandidatesComplete
  BY <1>1 DEF CandidatesComplete
<1>3. QED BY <1>2, InvariantHolds, PTL

(* Through the hub, which appends a newline to the text, no candidate of   *)
(* any peer is ever given to the other's agent.                            *)
THEOREM NoCandidateThroughHub ==
  ASSUME RelayAppendsNewline = TRUE
  PROVE  Spec => [](\A p \in Peer : applied[p] = {} /\ pending_ice[p] = {})
<1>1. Arriving = {}
  BY DEF Arriving
<1>2. RtcInv => \A p \in Peer : applied[p] = {} /\ pending_ice[p] = {}
  BY <1>1 DEF RtcInv, StateTyped
<1>3. QED BY <1>2, InvariantHolds, PTL
=============================================================================
