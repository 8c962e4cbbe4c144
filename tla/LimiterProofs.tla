---------------------------- MODULE LimiterProofs ----------------------------
(***************************************************************************)
(* Proofs about the limiter, for any finite set of callers and any limits  *)
(* a server may state: that it counts its slots and lets none idle, and    *)
(* that it implements SlotPool.                                            *)
(***************************************************************************)
EXTENDS Limiter, FiniteSetTheorems, SequenceTheorems, TLAPS

------------------------------------------------------------------------------
(* The inductive invariant.  Counting the slots needs to know who has one: *)
(* a queue names each caller once, apart from those whose slot is closed,  *)
(* and those two are exactly the callers that wait or leave.               *)

Distinct(w) == \A i, j \in 1..Len(w) : w[i] = w[j] => i = j

QueueApart == Elements(waiting) \cap closed = {}

WaitersPlaced ==
  \A c \in Callers :
    pc[c] \in {"waiting", "leaving"} <=> c \in Elements(waiting) \cup closed

IInv ==
  /\ TypeOK
  /\ Distinct(waiting)
  /\ QueueApart
  /\ WaitersPlaced
  /\ SlotsAccounted
  /\ NoIdleSlot

------------------------------------------------------------------------------

(* What handOut gives: no more than there are waiting, nothing beyond the  *)
(* limit, and enough that a caller left waiting finds no slot free.        *)
LEMMA GivenFacts ==
  ASSUME NEW n \in Nat, NEW h \in Nat, NEW l \in Nat
  PROVE  /\ Given(n, h, l) \in 0..n
         /\ Given(n, h, l) > 0 => l = 0 \/ h + Given(n, h, l) <= l
         /\ Given(n, h, l) < n => ~ Free(h + Given(n, h, l), l)
  BY DEF Given, Free

(* The queue handOut leaves, and the callers it takes from its head.       *)
LEMMA HandedFacts ==
  ASSUME NEW w \in Seq(Callers), Distinct(w), NEW n \in 0..Len(w)
  PROVE  /\ SubSeq(w, n + 1, Len(w)) \in Seq(Callers)
         /\ Len(SubSeq(w, n + 1, Len(w))) = Len(w) - n
         /\ Distinct(SubSeq(w, n + 1, Len(w)))
         /\ {w[i] : i \in 1..n} \subseteq Elements(w)
         /\ Elements(SubSeq(w, n + 1, Len(w))) = Elements(w) \ {w[i] : i \in 1..n}
<1> DEFINE v == SubSeq(w, n + 1, Len(w))
<1>1. /\ v \in Seq(Callers)
      /\ Len(v) = Len(w) - n
      /\ \A i \in 1..Len(v) : v[i] = w[n + i]
  OBVIOUS
<1> HIDE DEF v
<1>2. Distinct(v)
  BY <1>1 DEF Distinct
<1>3. {w[i] : i \in 1..n} \subseteq Elements(w)
  BY DEF Elements
<1>4. ASSUME NEW c PROVE c \in Elements(v) <=> c \in Elements(w) \ {w[i] : i \in 1..n}
  <2>1. ASSUME NEW i \in 1..Len(v), c = v[i]
        PROVE  c \in Elements(w) \ {w[j] : j \in 1..n}
    <3>1. n + i \in 1..Len(w) /\ c = w[n + i]
      BY <1>1, <2>1
    <3>2. ASSUME NEW j \in 1..n PROVE w[j] # c
      BY <3>1 DEF Distinct
    <3> QED BY <3>1, <3>2 DEF Elements
  <2>2. ASSUME NEW i \in 1..Len(w), c = w[i], c \notin {w[j] : j \in 1..n}
        PROVE  c \in Elements(v)
    <3>1. i \notin 1..n
      BY <2>2
    <3>2. i - n \in 1..Len(v) /\ c = v[i - n]
      BY <1>1, <2>2, <3>1
    <3> QED BY <3>2 DEF Elements
  <2> QED BY <2>1, <2>2 DEF Elements
<1> QED BY <1>1, <1>2, <1>3, <1>4 DEF v

(* The first n of a queue are n callers: what held counts.                 *)
LEMMA HandedCount ==
  ASSUME NEW w \in Seq(Callers), Distinct(w), NEW n \in 0..Len(w),
         NEW S \in SUBSET Callers, S \cap Elements(w) = {}
  PROVE  /\ IsFiniteSet(S \cup {w[i] : i \in 1..n})
         /\ Cardinality(S \cup {w[i] : i \in 1..n}) = Cardinality(S) + n
<1> DEFINE P == {w[i] : i \in 1..n}
           f == [i \in 1..n |-> w[i]]
<1>1. f \in Bijection(1..n, P)
  <2>1. f \in [1..n -> P]
    OBVIOUS
  <2>2. \A i, j \in 1..n : f[i] = f[j] => i = j
    BY DEF Distinct
  <2>3. \A t \in P : \E i \in 1..n : f[i] = t
    OBVIOUS
  <2> QED BY <2>1, <2>2, <2>3 DEF Bijection, Injection, Surjection, IsInjective
<1>2. IsFiniteSet(1..n) /\ Cardinality(1..n) = n
  BY FS_Interval
<1>3. IsFiniteSet(P) /\ Cardinality(P) = n
  <2>1. ExistsBijection(1..n, P)
    BY <1>1 DEF ExistsBijection
  <2> QED BY <2>1, <1>2, FS_Bijection
<1>4. IsFiniteSet(S) /\ Cardinality(S) \in Nat
  BY CallersAssumption, FS_Subset, FS_CardinalityType
<1>5. Cardinality(S \cap P) = 0
  <2>1. S \cap P = {}
    BY DEF Elements
  <2> QED BY <2>1, FS_EmptySet
<1> HIDE DEF P
<1>6. /\ IsFiniteSet(S \cup P)
      /\ Cardinality(S \cup P) = Cardinality(S) + Cardinality(P) - Cardinality(S \cap P)
  BY <1>3, <1>4, FS_Union
<1>7. Cardinality(S \cup P) = Cardinality(S) + n
  BY <1>3, <1>4, <1>5, <1>6
<1> QED BY <1>6, <1>7 DEF P

(* handOut run where the holders are H, the closed channels C, and the     *)
(* slots out h of them: what the invariant says holds again.               *)
LEMMA HandOutKeeps ==
  ASSUME waiting \in Seq(Callers), Distinct(waiting),
         NEW H \in SUBSET Callers, NEW C \in SUBSET Callers, NEW l \in Nat, NEW h \in Nat,
         (H \cup C) \cap Elements(waiting) = {},
         h = Cardinality(H \cup C),
         HandOut(waiting, h, l, C)
  PROVE  /\ waiting' \in Seq(Callers) /\ held' \in Nat /\ closed' \in SUBSET Callers
         /\ Distinct(waiting')
         /\ Elements(waiting') \cap closed' = {}
         /\ Elements(waiting') \cup closed' = Elements(waiting) \cup C
         /\ held' = Cardinality(H \cup closed')
         /\ waiting' # <<>> => ~ Free(held', l)
<1> DEFINE n == Given(Len(waiting), h, l)
           P == {waiting[i] : i \in 1..n}
<1>1. /\ waiting' = SubSeq(waiting, n + 1, Len(waiting))
      /\ held' = h + n
      /\ closed' = C \cup P
  BY DEF HandOut
<1>2. Len(waiting) \in Nat
  OBVIOUS
<1>3. /\ n \in 0..Len(waiting)
      /\ n < Len(waiting) => ~ Free(h + n, l)
  BY <1>2, GivenFacts
<1> HIDE DEF n
<1>4. /\ waiting' \in Seq(Callers)
      /\ Len(waiting') = Len(waiting) - n
      /\ Distinct(waiting')
      /\ P \subseteq Elements(waiting)
      /\ Elements(waiting') = Elements(waiting) \ P
  BY <1>1, <1>3, HandedFacts
<1>5. Cardinality((H \cup C) \cup P) = Cardinality(H \cup C) + n
  BY <1>3, HandedCount
<1> HIDE DEF P
<1>6. Elements(waiting) \subseteq Callers
  BY DEF Elements
<1>7. H \cup closed' = (H \cup C) \cup P
  BY <1>1
<1>8. held' = Cardinality(H \cup closed')
  BY <1>1, <1>5, <1>7
<1>9. waiting' # <<>> => ~ Free(held', l)
  BY <1>1, <1>2, <1>3, <1>4
<1>10. held' \in Nat
  BY <1>1, <1>3
<1> QED BY <1>1, <1>4, <1>6, <1>8, <1>9, <1>10

------------------------------------------------------------------------------

LEMMA InitInv == Init => IInv
<1> SUFFICES ASSUME Init PROVE IInv
  OBVIOUS
<1>1. TypeOK
  BY LimitsAssumption DEF Init, TypeOK, PC
<1>2. Elements(waiting) = {} /\ Distinct(waiting)
  BY DEF Init, Elements, Distinct
<1>3. Owners = {}
  BY DEF Init, Owners
<1> QED BY <1>1, <1>2, <1>3, FS_EmptySet
     DEF Init, IInv, QueueApart, WaitersPlaced, SlotsAccounted, NoIdleSlot

(* A caller's slot is one of those held counts.                            *)
LEMMA OwnerCounted ==
  ASSUME IInv, NEW c \in Owners
  PROVE  held - 1 \in Nat /\ Cardinality(Owners \ {c}) = held - 1
<1>1. IsFiniteSet(Owners) /\ held = Cardinality(Owners)
  BY CallersAssumption, FS_Subset DEF Owners, IInv, SlotsAccounted, TypeOK
<1>2. Cardinality(Owners \ {c}) = held - 1 /\ IsFiniteSet(Owners \ {c})
  BY <1>1, FS_RemoveElement
<1>3. Cardinality(Owners \ {c}) \in Nat
  BY <1>2, FS_CardinalityType
<1> QED BY <1>2, <1>3

LEMMA ReleaseInv == ASSUME IInv, NEW c \in Callers, Release(c) PROVE IInv'
<1> DEFINE H == {d \in Callers : pc'[d] = "holding"}
<1>1. /\ waiting \in Seq(Callers) /\ limit \in Nat /\ held \in Nat
      /\ closed \in SUBSET Callers /\ pc \in [Callers -> PC] /\ Distinct(waiting)
  BY DEF IInv, TypeOK
<1>2. /\ pc[c] = "holding" /\ pc' = [pc EXCEPT ![c] = "idle"]
      /\ HandOut(waiting, held - 1, limit, closed)
      /\ stated' = stated /\ asked' = asked /\ limit' = limit /\ ended' = ended
  BY DEF Release
<1>3. c \notin closed /\ c \notin Elements(waiting)
  BY <1>2 DEF IInv, WaitersPlaced
<1>4. H \cup closed = Owners \ {c}
  BY <1>1, <1>2, <1>3 DEF Owners
<1>5. c \in Owners
  BY <1>2 DEF Owners
<1>6. Cardinality(H \cup closed) = held - 1 /\ held - 1 \in Nat
  BY <1>4, <1>5, OwnerCounted
<1>7. (H \cup closed) \cap Elements(waiting) = {}
  BY <1>1, <1>2 DEF IInv, QueueApart, WaitersPlaced
<1>8. H \in SUBSET Callers
  OBVIOUS
<1> HIDE DEF H
<1>9. /\ waiting' \in Seq(Callers) /\ held' \in Nat /\ closed' \in SUBSET Callers
      /\ Distinct(waiting')
      /\ Elements(waiting') \cap closed' = {}
      /\ Elements(waiting') \cup closed' = Elements(waiting) \cup closed
      /\ held' = Cardinality(H \cup closed')
      /\ waiting' # <<>> => ~ Free(held', limit)
  BY <1>1, <1>2, <1>6, <1>7, <1>8, HandOutKeeps
<1>10. TypeOK'
  BY <1>1, <1>2, <1>9 DEF IInv, TypeOK, PC
<1>11. WaitersPlaced'
  BY <1>1, <1>2, <1>3, <1>9 DEF IInv, WaitersPlaced, Elements
<1>12. SlotsAccounted'
  BY <1>9 DEF SlotsAccounted, Owners, H
<1> QED BY <1>2, <1>9, <1>10, <1>11, <1>12 DEF IInv, QueueApart, NoIdleSlot, Elements

LEMMA AbandonSlotInv == ASSUME IInv, NEW c \in Callers, AbandonSlot(c) PROVE IInv'
<1> DEFINE H == {d \in Callers : pc'[d] = "holding"}
           C == closed \ {c}
<1>1. /\ waiting \in Seq(Callers) /\ limit \in Nat /\ held \in Nat
      /\ closed \in SUBSET Callers /\ pc \in [Callers -> PC] /\ Distinct(waiting)
  BY DEF IInv, TypeOK
<1>2. /\ pc[c] = "leaving" /\ pc' = [pc EXCEPT ![c] = "idle"]
      /\ c \notin Elements(waiting)
      /\ HandOut(waiting, held - 1, limit, C)
      /\ stated' = stated /\ asked' = asked /\ limit' = limit /\ ended' = ended
  BY DEF AbandonSlot
<1>3. c \in closed
  BY <1>2 DEF IInv, WaitersPlaced
<1>4. H \cup C = Owners \ {c}
  BY <1>1, <1>2, <1>3 DEF Owners
<1>5. c \in Owners
  BY <1>3 DEF Owners
<1>6. Cardinality(H \cup C) = held - 1 /\ held - 1 \in Nat
  BY <1>4, <1>5, OwnerCounted
<1>7. (H \cup C) \cap Elements(waiting) = {}
  BY <1>1, <1>2 DEF IInv, QueueApart, WaitersPlaced
<1>8. H \in SUBSET Callers /\ C \in SUBSET Callers
  BY <1>1
<1> HIDE DEF H
<1>9. /\ waiting' \in Seq(Callers) /\ held' \in Nat /\ closed' \in SUBSET Callers
      /\ Distinct(waiting')
      /\ Elements(waiting') \cap closed' = {}
      /\ Elements(waiting') \cup closed' = Elements(waiting) \cup C
      /\ held' = Cardinality(H \cup closed')
      /\ waiting' # <<>> => ~ Free(held', limit)
  BY <1>1, <1>2, <1>6, <1>7, <1>8, HandOutKeeps
<1>10. TypeOK'
  BY <1>1, <1>2, <1>9 DEF IInv, TypeOK, PC
<1>11. WaitersPlaced'
  BY <1>1, <1>2, <1>3, <1>9 DEF IInv, WaitersPlaced, Elements
<1>12. SlotsAccounted'
  BY <1>9 DEF SlotsAccounted, Owners, H
<1> QED BY <1>2, <1>9, <1>10, <1>11, <1>12 DEF IInv, QueueApart, NoIdleSlot, Elements

(* A queue that loses its ith caller loses nobody else.                    *)
LEMMA WithoutFacts ==
  ASSUME NEW w \in Seq(Callers), Distinct(w), NEW i \in 1..Len(w)
  PROVE  /\ Without(w, i) \in Seq(Callers)
         /\ Len(Without(w, i)) = Len(w) - 1
         /\ Distinct(Without(w, i))
         /\ Elements(Without(w, i)) = Elements(w) \ {w[i]}
<1> DEFINE v == Without(w, i)
<1>1. /\ v \in Seq(Callers)
      /\ Len(v) = Len(w) - 1
      /\ \A j \in 1..Len(v) : v[j] = IF j < i THEN w[j] ELSE w[j + 1]
  BY DEF Without
<1> HIDE DEF v
<1>2. Distinct(v)
  BY <1>1 DEF Distinct
<1>3. ASSUME NEW j \in 1..Len(v) PROVE v[j] \in Elements(w) \ {w[i]}
  <2>1. CASE j < i
    <3>1. j \in 1..Len(w) /\ v[j] = w[j] /\ j # i
      BY <1>1, <2>1
    <3> QED BY <3>1 DEF Distinct, Elements
  <2>2. CASE ~ (j < i)
    <3>1. j + 1 \in 1..Len(w) /\ v[j] = w[j + 1] /\ j + 1 # i
      BY <1>1, <2>2
    <3> QED BY <3>1 DEF Distinct, Elements
  <2> QED BY <2>1, <2>2
<1>4. ASSUME NEW k \in 1..Len(w), k # i PROVE w[k] \in Elements(v)
  <2>1. CASE k < i
    <3>1. k \in 1..Len(v) /\ v[k] = w[k]
      BY <1>1, <2>1
    <3> QED BY <3>1 DEF Elements
  <2>2. CASE k > i
    <3>1. k - 1 \in 1..Len(v) /\ v[k - 1] = w[k]
      BY <1>1, <2>2
    <3> QED BY <3>1 DEF Elements
  <2> QED BY <1>4, <2>1, <2>2
<1>5. Elements(v) = Elements(w) \ {w[i]}
  BY <1>3, <1>4 DEF Elements
<1> QED BY <1>1, <1>2, <1>5 DEF v

LEMMA AbandonQueueInv == ASSUME IInv, NEW c \in Callers, AbandonQueue(c) PROVE IInv'
<1>1. PICK i \in 1..Len(waiting) : waiting[i] = c /\ waiting' = Without(waiting, i)
  BY DEF AbandonQueue
<1>2. /\ pc[c] = "leaving" /\ pc' = [pc EXCEPT ![c] = "idle"]
      /\ UNCHANGED <<stated, asked, limit, held, closed, ended>>
  BY DEF AbandonQueue
<1>3. /\ waiting \in Seq(Callers) /\ Distinct(waiting) /\ pc \in [Callers -> PC]
  BY DEF IInv, TypeOK
<1>4. /\ waiting' \in Seq(Callers)
      /\ Distinct(waiting')
      /\ Elements(waiting') = Elements(waiting) \ {c}
  BY <1>1, <1>3, WithoutFacts
<1>5. waiting # <<>>
  BY <1>1, <1>3
<1>6. c \notin closed /\ Owners' = Owners
  BY <1>1, <1>2, <1>3 DEF IInv, QueueApart, Elements, Owners
<1>7. TypeOK'
  BY <1>2, <1>3, <1>4 DEF IInv, TypeOK, PC
<1>8. WaitersPlaced'
  BY <1>2, <1>3, <1>4, <1>6 DEF IInv, WaitersPlaced, Elements
<1>9. QueueApart'
  BY <1>2, <1>4 DEF IInv, QueueApart, Elements
<1> QED BY <1>2, <1>4, <1>5, <1>6, <1>7, <1>8, <1>9
     DEF IInv, SlotsAccounted, NoIdleSlot, Free

(* What the steps of hold start from.                                      *)
LEMMA HoldFacts ==
  ASSUME IInv, NEW c \in Callers
  PROVE  /\ waiting \in Seq(Callers) /\ Len(waiting) \in Nat /\ Distinct(waiting)
         /\ held \in Nat /\ asked[c] \in Nat
         /\ closed \in SUBSET Callers /\ pc \in [Callers -> PC]
<1>1. waiting \in Seq(Callers) /\ Len(waiting) \in Nat
  BY DEF IInv, TypeOK
<1>2. asked[c] \in Limits /\ held \in Nat /\ closed \in SUBSET Callers
  BY DEF IInv, TypeOK
<1>3. asked[c] \in Nat
  BY <1>2, LimitsAssumption
<1> QED BY <1>1, <1>2, <1>3 DEF IInv, TypeOK

LEMMA HoldAtOnceInv == ASSUME IInv, NEW c \in Callers, HoldAtOnce(c) PROVE IInv'
<1> DEFINE n == Len(waiting)
           P == {waiting[i] : i \in 1..n}
<1>1. /\ waiting \in Seq(Callers) /\ held \in Nat /\ asked[c] \in Nat
      /\ closed \in SUBSET Callers /\ pc \in [Callers -> PC] /\ Distinct(waiting)
      /\ n \in Nat
  BY HoldFacts
<1>2. /\ pc[c] = "asking" /\ pc' = [pc EXCEPT ![c] = "holding"]
      /\ held' = held + n + 1 /\ limit' = asked[c]
      /\ closed' = closed \cup Elements(waiting) /\ waiting' = <<>>
      /\ stated' = stated /\ asked' = asked /\ ended' = ended
  BY DEF HoldAtOnce
<1>3. c \notin Owners /\ c \notin Elements(waiting) /\ Owners \cap Elements(waiting) = {}
  BY <1>1, <1>2 DEF IInv, QueueApart, WaitersPlaced, Owners
<1>4. Owners \in SUBSET Callers /\ held = Cardinality(Owners)
  BY <1>1 DEF Owners, IInv, SlotsAccounted
<1>5. P = Elements(waiting) /\ P \subseteq Callers
  BY <1>1 DEF Elements
<1>6. /\ IsFiniteSet(Owners \cup P)
      /\ Cardinality(Owners \cup P) = held + n
  <2>1. n \in 0..Len(waiting)
    BY <1>1
  <2> QED BY <1>1, <1>3, <1>4, <2>1, HandedCount
<1>7. Owners' = (Owners \cup P) \cup {c}
  BY <1>1, <1>2, <1>5 DEF Owners
<1> HIDE DEF P, n
<1>8. Cardinality(Owners') = held + n + 1
  BY <1>3, <1>5, <1>6, <1>7, FS_AddElement
<1>9. TypeOK'
  BY <1>1, <1>2, <1>5 DEF IInv, TypeOK, PC
<1>10. Elements(waiting') = {} /\ Distinct(waiting')
  BY <1>2 DEF Elements, Distinct
<1>11. WaitersPlaced'
  BY <1>1, <1>2, <1>10 DEF IInv, WaitersPlaced, Elements
<1> QED BY <1>2, <1>8, <1>9, <1>10, <1>11
     DEF IInv, QueueApart, SlotsAccounted, NoIdleSlot, Elements

LEMMA HoldWaitsInv == ASSUME IInv, NEW c \in Callers, HoldWaits(c) PROVE IInv'
<1> DEFINE n == Given(Len(waiting), held, asked[c])
           P == {waiting[i] : i \in 1..n}
           v == SubSeq(waiting, n + 1, Len(waiting))
<1>1. /\ waiting \in Seq(Callers) /\ held \in Nat /\ asked[c] \in Nat
      /\ closed \in SUBSET Callers /\ pc \in [Callers -> PC] /\ Distinct(waiting)
      /\ Len(waiting) \in Nat
  BY HoldFacts
<1>2. /\ pc[c] = "asking" /\ pc' = [pc EXCEPT ![c] = "waiting"]
      /\ held' = held + n /\ limit' = asked[c]
      /\ closed' = closed \cup P /\ waiting' = Append(v, c)
      /\ stated' = stated /\ asked' = asked /\ ended' = ended
      /\ ~ (n = Len(waiting) /\ Free(held + n, asked[c]))
  BY DEF HoldWaits
<1>3. /\ n \in 0..Len(waiting)
      /\ n < Len(waiting) => ~ Free(held + n, asked[c])
  BY <1>1, GivenFacts
<1>4. ~ Free(held', limit')
  BY <1>1, <1>2, <1>3
<1>5. c \notin Owners /\ c \notin Elements(waiting) /\ Owners \cap Elements(waiting) = {}
  BY <1>1, <1>2 DEF IInv, QueueApart, WaitersPlaced, Owners
<1>6. Owners \in SUBSET Callers /\ held = Cardinality(Owners)
  BY <1>1 DEF Owners, IInv, SlotsAccounted
<1> HIDE DEF n
<1>7. Cardinality(Owners \cup P) = held + n
  BY <1>1, <1>3, <1>5, <1>6, HandedCount
<1>8. /\ v \in Seq(Callers) /\ Distinct(v)
      /\ P \subseteq Elements(waiting)
      /\ Elements(v) = Elements(waiting) \ P
  BY <1>1, <1>3, HandedFacts
<1> HIDE DEF P, v
<1>9. /\ waiting' \in Seq(Callers)
      /\ Elements(waiting') = Elements(v) \cup {c}
      /\ Distinct(waiting')
  <2>1. /\ waiting' \in Seq(Callers)
        /\ Len(v) \in Nat /\ Len(waiting') = Len(v) + 1
        /\ \A i \in 1..Len(v) : waiting'[i] = v[i]
        /\ waiting'[Len(v) + 1] = c
    BY <1>2, <1>8
  <2>2. Elements(waiting') = Elements(v) \cup {c}
    BY <2>1 DEF Elements
  <2>3. \A i \in 1..Len(v) : v[i] # c
    BY <1>5, <1>8 DEF Elements
  <2>4. Distinct(waiting')
    BY <1>8, <2>1, <2>3 DEF Distinct
  <2> QED BY <2>1, <2>2, <2>4
<1>10. Elements(waiting) \subseteq Callers
  BY <1>1 DEF Elements
<1>11. Owners' = Owners \cup P
  BY <1>1, <1>2 DEF Owners
<1>12. TypeOK'
  BY <1>1, <1>2, <1>3, <1>8, <1>9, <1>10 DEF IInv, TypeOK, PC
<1>13. WaitersPlaced'
  BY <1>1, <1>2, <1>8, <1>9 DEF IInv, WaitersPlaced, Elements
<1>14. Elements(waiting') \cap closed' = {}
  <2>1. Elements(waiting) \cap closed = {} /\ c \notin closed
    BY <1>5 DEF IInv, QueueApart, Owners
  <2> QED BY <1>2, <1>5, <1>8, <1>9, <2>1
<1>15. QueueApart'
  BY <1>14 DEF QueueApart, Elements
<1> QED BY <1>2, <1>4, <1>6, <1>7, <1>9, <1>11, <1>12, <1>13, <1>15
     DEF IInv, SlotsAccounted, NoIdleSlot, Free

(* The steps that move one caller and leave the limiter alone.             *)
LEMMA OtherStepsInv ==
  ASSUME IInv,
         \/ \E n \in Limits : SessionStates(n)
         \/ \E c \in Callers :
              ReadLimit(c) \/ TakeSlot(c) \/ GiveUp(c) \/ ContextEnds(c)
  PROVE  IInv'
<1>1. limit' = limit /\ held' = held /\ waiting' = waiting
  BY DEF SessionStates, ReadLimit, TakeSlot, GiveUp, ContextEnds
<1>2. TypeOK' /\ QueueApart'
  BY DEF IInv, TypeOK, QueueApart, PC, SessionStates, ReadLimit, TakeSlot, GiveUp,
         ContextEnds, Elements
<1>3. WaitersPlaced'
  BY DEF IInv, TypeOK, QueueApart, WaitersPlaced, PC, SessionStates, ReadLimit, TakeSlot,
         GiveUp, ContextEnds, Elements
<1>4. Owners' = Owners
  BY DEF IInv, TypeOK, PC, Owners, SessionStates, ReadLimit, TakeSlot, GiveUp, ContextEnds
<1> QED BY <1>1, <1>2, <1>3, <1>4 DEF IInv, SlotsAccounted, NoIdleSlot, Free

LEMMA NextInv == ASSUME IInv, [Next]_vars PROVE IInv'
<1>1. CASE UNCHANGED vars
  BY <1>1 DEF IInv, vars, TypeOK, QueueApart, WaitersPlaced, SlotsAccounted, NoIdleSlot,
              Owners, Free, Elements
<1>2. CASE Next
  BY <1>2, HoldAtOnceInv, HoldWaitsInv, AbandonQueueInv, AbandonSlotInv, ReleaseInv,
     OtherStepsInv DEF Next, Caller
<1> QED BY <1>1, <1>2

------------------------------------------------------------------------------

(* The limiter keeps the invariant, whatever the callers and the limits.   *)
THEOREM Invariance == Spec => []IInv
  BY InitInv, NextInv, PTL DEF Spec

(* The fields keep their types: held never goes below zero, which a slot   *)
(* returned twice would do.                                                *)
THEOREM TypeCorrect == Spec => []TypeOK
<1>1. IInv => TypeOK
  BY DEF IInv
<1> QED BY <1>1, Invariance, PTL

(* held counts the slots that are out: none is lost, and none is returned  *)
(* twice, however a caller's context races the slot handed to it.          *)
THEOREM SlotsNeverLost == Spec => []SlotsAccounted
<1>1. IInv => SlotsAccounted
  BY DEF IInv
<1> QED BY <1>1, Invariance, PTL

(* No caller waits beside a free slot.                                     *)
THEOREM NoLostWakeUp == Spec => []NoIdleSlot
<1>1. IInv => NoIdleSlot
  BY DEF IInv
<1> QED BY <1>1, Invariance, PTL

------------------------------------------------------------------------------
(* The limiter implements SlotPool: who is out of the queue, in which      *)
(* order, and under which limit is settled where hold, release and abandon *)
(* say, and not where a waiter's select finds out.                         *)

(* The pool counts its owners as the limiter does.                         *)
LEMMA SameCount == \A S : Pool!Cardinality(S) = Cardinality(S)
  BY DEF Pool!Cardinality, Cardinality

(* The order of a queue survives taking from its head: the ones that come  *)
(* last come last, and the rest keep their places.                         *)
LEMMA TakenThenJoined ==
  ASSUME NEW w \in Seq(Callers), NEW c \in Callers, NEW n \in 0..Len(w)
  PROVE  /\ SubSeq(Append(w, c), n + 1, Len(Append(w, c))) = Append(SubSeq(w, n + 1, Len(w)), c)
         /\ {Append(w, c)[i] : i \in 1..n} = {w[i] : i \in 1..n}
<1> DEFINE q == Append(w, c)
           l == SubSeq(q, n + 1, Len(q))
           r == Append(SubSeq(w, n + 1, Len(w)), c)
<1>1. /\ q \in Seq(Callers) /\ Len(q) = Len(w) + 1 /\ Len(w) \in Nat
      /\ \A i \in 1..Len(w) : q[i] = w[i]
      /\ q[Len(w) + 1] = c
  OBVIOUS
<1>2. /\ l \in Seq(Callers) /\ Len(l) = Len(w) + 1 - n
      /\ \A i \in 1..(Len(w) + 1 - n) : l[i] = q[n + i]
  <2> HIDE DEF q
  <2> QED BY <1>1
<1>3. /\ r \in Seq(Callers) /\ Len(r) = Len(w) - n + 1
      /\ \A i \in 1..(Len(w) - n) : r[i] = w[n + i]
      /\ r[Len(w) - n + 1] = c
  OBVIOUS
<1> HIDE DEF q, l, r
<1>4. ASSUME NEW i \in 1..(Len(w) + 1 - n) PROVE l[i] = r[i]
  <2>1. CASE i \in 1..(Len(w) - n)
    <3>1. n + i \in 1..Len(w)
      BY <1>1, <2>1
    <3> QED BY <1>1, <1>2, <1>3, <2>1, <3>1
  <2>2. CASE i = Len(w) - n + 1
    <3>1. n + i = Len(w) + 1
      BY <1>1, <2>2
    <3> QED BY <1>1, <1>2, <1>3, <2>2, <3>1
  <2> QED BY <1>1, <1>4, <2>1, <2>2
<1>5. l = r
  BY <1>1, <1>2, <1>3, <1>4, SeqEqual
<1>6. {q[i] : i \in 1..n} = {w[i] : i \in 1..n}
  BY <1>1
<1> QED BY <1>5, <1>6 DEF q, l, r

(* What handOut takes fits, and what it leaves does not.                   *)
LEMMA GivenFits ==
  ASSUME NEW n \in Nat, NEW h \in Nat, NEW l \in Nat
  PROVE  /\ Given(n, h, l) > 0 => Pool!Fits(h + Given(n, h, l), l)
         /\ Given(n, h, l) < n => ~ Pool!Fits(h + Given(n, h, l) + 1, l)
<1>1. /\ Given(n, h, l) \in 0..n
      /\ Given(n, h, l) > 0 => l = 0 \/ h + Given(n, h, l) <= l
      /\ Given(n, h, l) < n => ~ Free(h + Given(n, h, l), l)
  BY GivenFacts
<1> QED BY <1>1 DEF Free, Pool!Fits

(* A slot that goes back serves the queue as the pool does.                *)
LEMMA HandOutServes ==
  ASSUME waiting \in Seq(Callers), limit \in Nat, limit' = limit, NEW h \in Nat, NEW O, NEW C,
         h = Cardinality(O), HandOut(waiting, h, limit, C),
         Owners' = O \cup {waiting[i] : i \in 1..Given(Len(waiting), h, limit)}
  PROVE  Pool!Serve(waiting, O, limit)
<1> DEFINE n == Given(Len(waiting), h, limit)
<1>1. Len(waiting) \in Nat
  OBVIOUS
<1>2. n \in 0..Len(waiting) /\ waiting' = SubSeq(waiting, n + 1, Len(waiting))
  BY <1>1, GivenFacts DEF HandOut
<1>3. /\ n > 0 => Pool!Fits(Cardinality(O) + n, limit)
      /\ n < Len(waiting) => ~ Pool!Fits(Cardinality(O) + n + 1, limit)
  BY <1>1, GivenFits
<1> HIDE DEF n
<1>4. Owners' = O \cup {waiting[i] : i \in 1..n}
  BY DEF n
<1>5. Pool!Served(waiting, O, limit, n)
  BY <1>2, <1>3, <1>4, SameCount DEF Pool!Served
<1> QED BY <1>2, <1>5 DEF Pool!Serve

------------------------------------------------------------------------------

LEMMA InitPool == Init => Pool!PoolInit
  BY DEF Init, Owners, Pool!PoolInit

LEMMA HoldAtOnceJoins ==
  ASSUME IInv, NEW c \in Callers, HoldAtOnce(c)
  PROVE  Pool!Join(c, asked[c])
<1> DEFINE q == Append(waiting, c)
           n == Len(waiting)
           P == {waiting[i] : i \in 1..n}
<1>1. /\ waiting \in Seq(Callers) /\ n \in Nat /\ held \in Nat /\ asked[c] \in Nat
      /\ closed \in SUBSET Callers /\ pc \in [Callers -> PC]
  BY HoldFacts
<1>2. /\ pc[c] = "asking" /\ pc' = [pc EXCEPT ![c] = "holding"]
      /\ Free(held + n, asked[c]) /\ limit' = asked[c]
      /\ closed' = closed \cup Elements(waiting) /\ waiting' = <<>>
  BY DEF HoldAtOnce
<1>3. c \notin Owners /\ c \notin Elements(waiting)
  BY <1>1, <1>2 DEF IInv, WaitersPlaced, Owners
<1>4. held = Cardinality(Owners)
  BY DEF IInv, SlotsAccounted
<1>5. Owners' = (Owners \cup P) \cup {c}
  BY <1>1, <1>2 DEF Owners, Elements
<1>6. /\ q \in Seq(Callers) /\ Len(q) = n + 1
      /\ \A i \in 1..n : q[i] = waiting[i]
      /\ q[n + 1] = c
  BY <1>1
<1>7. SubSeq(q, (n + 1) + 1, Len(q)) = <<>>
  <2> HIDE DEF q
  <2> QED BY <1>1, <1>6
<1> HIDE DEF q
<1>8. {q[i] : i \in 1..(n + 1)} = P \cup {c}
  <2>1. 1..(n + 1) = (1..n) \cup {n + 1}
    BY <1>1
  <2> QED BY <1>6, <2>1
<1>9. Pool!Fits(Cardinality(Owners) + (n + 1), asked[c])
  BY <1>1, <1>2, <1>4 DEF Free, Pool!Fits
<1> HIDE DEF P, n
<1>10. Pool!Served(q, Owners, asked[c], n + 1)
  BY <1>1, <1>2, <1>5, <1>6, <1>7, <1>8, <1>9, SameCount DEF Pool!Served
<1>11. n + 1 \in 0..Len(q)
  BY <1>1, <1>6
<1>12. Pool!Serve(Append(waiting, c), Owners, asked[c])
  BY <1>10, <1>11 DEF Pool!Serve, q
<1>13. \A i \in 1..Len(waiting) : waiting[i] # c
  BY <1>3 DEF Elements
<1> QED BY <1>3, <1>12, <1>13 DEF Pool!Join

LEMMA HoldWaitsJoins ==
  ASSUME IInv, NEW c \in Callers, HoldWaits(c)
  PROVE  Pool!Join(c, asked[c])
<1> DEFINE q == Append(waiting, c)
           n == Given(Len(waiting), held, asked[c])
           P == {waiting[i] : i \in 1..n}
<1>1. /\ waiting \in Seq(Callers) /\ Len(waiting) \in Nat /\ held \in Nat /\ asked[c] \in Nat
      /\ closed \in SUBSET Callers /\ pc \in [Callers -> PC]
  BY HoldFacts
<1>2. /\ pc[c] = "asking" /\ pc' = [pc EXCEPT ![c] = "waiting"]
      /\ ~ (n = Len(waiting) /\ Free(held + n, asked[c])) /\ limit' = asked[c]
      /\ closed' = closed \cup P
      /\ waiting' = Append(SubSeq(waiting, n + 1, Len(waiting)), c)
  BY DEF HoldWaits
<1>3. /\ n \in 0..Len(waiting)
      /\ n > 0 => Pool!Fits(held + n, asked[c])
      /\ n < Len(waiting) => ~ Pool!Fits(held + n + 1, asked[c])
  BY <1>1, GivenFacts, GivenFits
<1>4. c \notin Owners /\ c \notin Elements(waiting) /\ held = Cardinality(Owners)
  BY <1>1, <1>2 DEF IInv, WaitersPlaced, SlotsAccounted, Owners
<1>5. Owners' = Owners \cup P
  BY <1>1, <1>2 DEF Owners
<1> HIDE DEF n
<1>6. waiting' = SubSeq(q, n + 1, Len(q)) /\ {q[i] : i \in 1..n} = P
  BY <1>1, <1>2, <1>3, TakenThenJoined
<1>7. Len(q) = Len(waiting) + 1
  BY <1>1
<1> HIDE DEF q
<1>8. ~ Pool!Fits(held + n + 1, asked[c])
  <2>1. CASE n < Len(waiting)
    BY <1>3, <2>1
  <2>2. CASE n = Len(waiting)
    BY <1>1, <1>2, <1>3, <2>2 DEF Free, Pool!Fits
  <2> QED BY <1>1, <1>3, <2>1, <2>2
<1> HIDE DEF P
<1>9. Pool!Served(q, Owners, asked[c], n)
  BY <1>2, <1>3, <1>4, <1>5, <1>6, <1>8, SameCount DEF Pool!Served
<1>10. n \in 0..Len(q)
  BY <1>1, <1>3, <1>7
<1>11. Pool!Serve(Append(waiting, c), Owners, asked[c])
  BY <1>9, <1>10 DEF Pool!Serve, q
<1>12. \A i \in 1..Len(waiting) : waiting[i] # c
  BY <1>4 DEF Elements
<1> QED BY <1>4, <1>11, <1>12 DEF Pool!Join

LEMMA AbandonQueueLeaves ==
  ASSUME IInv, NEW c \in Callers, AbandonQueue(c)
  PROVE  Pool!Leave(c)
<1>1. /\ pc \in [Callers -> PC] /\ pc[c] = "leaving" /\ pc' = [pc EXCEPT ![c] = "idle"]
      /\ closed' = closed /\ limit' = limit
  BY DEF AbandonQueue, IInv, TypeOK
<1>2. Owners' = Owners
  BY <1>1 DEF Owners
<1>3. \E i \in 1..Len(waiting) : waiting[i] = c /\ waiting' = Without(waiting, i)
  BY DEF AbandonQueue
<1> QED BY <1>1, <1>2, <1>3 DEF Without, Pool!Leave

LEMMA SlotGoesBack ==
  ASSUME IInv, NEW c \in Callers, Release(c) \/ AbandonSlot(c)
  PROVE  Pool!Return(c)
<1> DEFINE P == {waiting[i] : i \in 1..Given(Len(waiting), held - 1, limit)}
<1>1. /\ waiting \in Seq(Callers) /\ limit \in Nat /\ closed \in SUBSET Callers /\ pc \in [Callers -> PC]
      /\ P \subseteq Elements(waiting)
  <2>1. waiting \in Seq(Callers) /\ limit \in Nat /\ closed \in SUBSET Callers /\ pc \in [Callers -> PC]
    BY DEF IInv, TypeOK
  <2>2. c \in Owners
    BY DEF Release, AbandonSlot, IInv, WaitersPlaced, Owners
  <2>3. held - 1 \in Nat
    BY <2>2, OwnerCounted
  <2>4. Len(waiting) \in Nat
    BY <2>1
  <2>5. Given(Len(waiting), held - 1, limit) \in 0..Len(waiting)
    BY <2>1, <2>3, <2>4, GivenFacts
  <2> QED BY <2>1, <2>5 DEF Elements
<1>2. /\ c \in Owners /\ c \notin Elements(waiting) /\ limit' = limit
      /\ Owners' = (Owners \ {c}) \cup P
      /\ \E C : HandOut(waiting, held - 1, limit, C)
  <2>1. CASE Release(c)
    <3>1. /\ pc[c] = "holding" /\ pc' = [pc EXCEPT ![c] = "idle"] /\ limit' = limit
          /\ HandOut(waiting, held - 1, limit, closed)
      BY <2>1 DEF Release
    <3>2. c \notin closed /\ c \notin Elements(waiting)
      BY <3>1 DEF IInv, WaitersPlaced
    <3>3. closed' = closed \cup P
      BY <3>1 DEF HandOut
    <3> HIDE DEF P
    <3>4. Owners' = (Owners \ {c}) \cup P
      BY <1>1, <3>1, <3>2, <3>3 DEF Owners
    <3> QED BY <3>1, <3>2, <3>4 DEF Owners
  <2>2. CASE AbandonSlot(c)
    <3>1. /\ pc[c] = "leaving" /\ pc' = [pc EXCEPT ![c] = "idle"] /\ limit' = limit
          /\ c \notin Elements(waiting)
          /\ HandOut(waiting, held - 1, limit, closed \ {c})
      BY <2>2 DEF AbandonSlot
    <3>2. c \in closed
      BY <3>1 DEF IInv, WaitersPlaced
    <3>3. closed' = (closed \ {c}) \cup P
      BY <3>1 DEF HandOut
    <3> HIDE DEF P
    <3>4. Owners' = (Owners \ {c}) \cup P
      BY <1>1, <3>1, <3>2, <3>3 DEF Owners
    <3> QED BY <3>1, <3>2, <3>4 DEF Owners
  <2> QED BY <2>1, <2>2
<1>3. held - 1 \in Nat /\ Cardinality(Owners \ {c}) = held - 1
  BY <1>2, OwnerCounted
<1>4. PICK C : HandOut(waiting, held - 1, limit, C)
  BY <1>2
<1>5. Pool!Serve(waiting, Owners \ {c}, limit)
  BY <1>1, <1>2, <1>3, <1>4, HandOutServes
<1> QED BY <1>2, <1>5 DEF Pool!Return

(* The steps that move one caller and leave the pool alone: among them the *)
(* select that receives a slot the caller has had since its channel was    *)
(* closed.                                                                 *)
LEMMA OtherStepsStutter ==
  ASSUME IInv,
         \/ \E n \in Limits : SessionStates(n)
         \/ \E c \in Callers : ReadLimit(c) \/ TakeSlot(c) \/ GiveUp(c) \/ ContextEnds(c)
  PROVE  UNCHANGED <<limit, waiting, Owners>>
<1>1. limit' = limit /\ waiting' = waiting
  BY DEF SessionStates, ReadLimit, TakeSlot, GiveUp, ContextEnds
<1>2. Owners' = Owners
  BY DEF IInv, TypeOK, PC, Owners, SessionStates, ReadLimit, TakeSlot, GiveUp, ContextEnds
<1> QED BY <1>1, <1>2

LEMMA StepPool == IInv /\ [Next]_vars => [Pool!PoolNext]_(Pool!poolVars)
<1> SUFFICES ASSUME IInv, [Next]_vars PROVE [Pool!PoolNext]_(Pool!poolVars)
  OBVIOUS
<1>1. CASE UNCHANGED vars
  BY <1>1 DEF vars, Owners, Pool!poolVars
<1>2. ASSUME NEW c \in Callers, HoldAtOnce(c) \/ HoldWaits(c) PROVE Pool!PoolNext
  <2>1. asked[c] \in Limits
    BY DEF IInv, TypeOK
  <2>2. Pool!Join(c, asked[c])
    BY <1>2, HoldAtOnceJoins, HoldWaitsJoins
  <2> QED BY <2>1, <2>2 DEF Pool!PoolNext
<1>3. ASSUME NEW c \in Callers, AbandonQueue(c) PROVE Pool!PoolNext
  BY <1>3, AbandonQueueLeaves DEF Pool!PoolNext
<1>4. ASSUME NEW c \in Callers, Release(c) \/ AbandonSlot(c) PROVE Pool!PoolNext
  BY <1>4, SlotGoesBack DEF Pool!PoolNext
<1>5. ASSUME \/ \E n \in Limits : SessionStates(n)
             \/ \E c \in Callers : ReadLimit(c) \/ TakeSlot(c) \/ GiveUp(c) \/ ContextEnds(c)
      PROVE  UNCHANGED Pool!poolVars
  BY <1>5, OtherStepsStutter DEF Pool!poolVars
<1> QED BY <1>1, <1>2, <1>3, <1>4, <1>5 DEF Next, Caller

(* The limiter, with its channels, its counter and the select that may     *)
(* find both a slot and an ended context, is a pool with one queue, served *)
(* in order and never beyond its cap.                                      *)
THEOREM LimiterIsSlotPool == Spec => IsSlotPool
<1> QED BY InitPool, StepPool, Invariance, PTL DEF Spec, IsSlotPool, Pool!PoolSpec

==============================================================================
