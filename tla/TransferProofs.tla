---------------------------- MODULE TransferProofs ----------------------------
(***************************************************************************)
(* Proofs about what a client transfers: a call of Do, for any requests,   *)
(* sessions, records and changes; and downloads, for blobs and lengths of  *)
(* any size an int64 counts, any buffers and any number of downloads.      *)
(***************************************************************************)
EXTENDS Exchange, Download, FiniteSetTheorems, SequenceTheorems, TLAPS

-----------------------------------------------------------------------------
(* The inductive invariant.                                                *)

Calls   == [id : CallIDs, name : {"get", "set"}, ids : Seq(Records), ref : CallIDs]
Answers == [id : CallIDs, name : {"get", "set", "error"}, state : Nat,
            list : Seq(Records), notFound : Seq(Records)]

Types ==
  /\ r \in Requests /\ options \in Options
  /\ past \in Seq(SUBSET Records) /\ began \in 1..State
  /\ advertised \in Sessions /\ renewals \in Nat /\ had \in SUBSET Sessions /\ core \in Sessions \cup {None}
  /\ limit \in Nat /\ at \in Nat \ {0} /\ rest \in Seq(Records)
  /\ first \in Seq(Calls) /\ extra \in Seq([call : Calls, into : CallIDs])
  /\ perRequest \in Nat /\ start \in Nat /\ joined \in Nat /\ posted \in BOOLEAN
  /\ sent \in Seq(Calls) /\ got \in Seq(Answers) /\ resp \in Seq(Answers)

(* The ids that the first k of some further calls ask for as parts of a    *)
(* call, and with those its own first part asks for.                       *)
PartOf(e, k, id)   == {j \in 1..k : e[j].into = id}
PartsAsk(e, k, id) == UNION {ToSet(e[j].call.ids) : j \in PartOf(e, k, id)}
Asked(i, k)        == ToSet(first[i].ids) \cup PartsAsk(extra, k, r.calls[i].id)

Plain(c) == c.name = "get" /\ c.ref = NoRef

InPlan == pc \in {"splitting", "grouping", "posting", "sent", "joining"} \/ (pc = "returned" /\ posted)

(* The calls that stand in for r's ask for just the ids r's do, but for    *)
(* those left of the call the plan is at.                                  *)
FirstCovers ==
  /\ Len(first) = Len(r.calls)
  /\ \A i \in DOMAIN r.calls :
       /\ first[i] = [r.calls[i] EXCEPT !.ids = first[i].ids]
       /\ ToSet(r.calls[i].ids) = Asked(i, Len(extra)) \cup (IF i = at - 1 THEN ToSet(rest) ELSE {})
       /\ first[i].ids # r.calls[i].ids =>
            PartOf(extra, Len(extra), r.calls[i].id) # {} \/ (i = at - 1 /\ rest # <<>>)
       /\ pc = "splitting" /\ i >= at => first[i] = r.calls[i]

(* Each further call is a part of a get, and has an id of its own.         *)
PartsApart ==
  /\ \A k \in DOMAIN extra :
       /\ Plain(extra[k].call)
       /\ \E i \in DOMAIN r.calls : extra[k].into = r.calls[i].id /\ Plain(r.calls[i])
  /\ \A k, l \in DOMAIN extra : extra[k].call.id = extra[l].call.id => k = l

(* Ids are left only while their call is being split.                      *)
RestOfOne ==
  /\ rest # <<>> => pc = "splitting" /\ at - 1 \in DOMAIN r.calls /\ Plain(r.calls[at - 1])
  /\ pc = "splitting" => limit > 0

PlanCovers == InPlan => FirstCovers /\ PartsApart /\ RestOfOne

(* An answer is of the records as they were at one moment since Do was     *)
(* called, h being what the records were.                                  *)
Of(a, ids, h) == ToSet(a.list) = ids \cap h[a.state] /\ ToSet(a.notFound) = ids \ h[a.state]

AnswerTo(a, c, b, h) ==
  /\ a.id = c.id /\ a.name \in {"error", c.name}
  /\ a.name = "get" /\ c.ref = NoRef => a.state \in b..Len(h) /\ Of(a, ToSet(c.ids), h)

(* Where the parts are, and what is on the way.                            *)
Sending ==
  /\ ~posted => start = 0 /\ joined = 0
  /\ pc \in {"posting", "sent", "joining"} =>
    /\ start <= joined /\ joined <= Len(extra)
    /\ extra # <<>> => perRequest >= 1
    /\ posted => start < Len(extra)
    /\ pc = "joining" => posted /\ joined < PartEnd
    /\ pc # "joining" => joined = start
    /\ pc # "posting" => /\ sent = Toward /\ Len(got) <= Len(sent)
                         /\ \A m \in DOMAIN got : AnswerTo(got[m], sent[m], began, past)

InJoining == {"unanswered", "state changed"}

(* What has been joined so far: of one moment unless an error says not, and*)
(* all of what was asked for unless one says that was not answered.        *)
JoinedSoFar ==
  posted /\ errs \subseteq InJoining \cup {"method"} =>
    /\ Len(resp) <= Len(r.calls)
    /\ \A i \in DOMAIN resp :
         /\ resp[i].id = r.calls[i].id /\ resp[i].name \in {"error", r.calls[i].name}
         /\ resp[i].name = "get" /\ r.calls[i].ref = NoRef =>
              /\ resp[i].state \in began..State
              /\ "unanswered" \notin errs =>
                   ToSet(resp[i].list) \cup ToSet(resp[i].notFound) = Asked(i, joined)
              /\ errs \cap InJoining = {} => Of(resp[i], Asked(i, joined), past)
    /\ "unanswered" \notin errs =>
         \A j \in 1..joined : \E i \in DOMAIN resp : resp[i].id = extra[j].into

Ending ==
  /\ pc # "returned" => errs \subseteq InJoining
  /\ pc = "returned" /\ errs \subseteq InJoining \cup {"method"} => posted /\ joined = Len(extra)
  /\ posted => pc \in {"posting", "sent", "joining", "returned"}

Whole == PlanCovers /\ Sending /\ JoinedSoFar /\ Ending

(* Splitting is asked for, with a session to go by.                        *)
Held == /\ options.splitGets /\ ~AsksNoSession
        /\ \A c \in ToSet(r.calls) : ~Referenced(c.id)

Small(c) == limit > 0 /\ Plain(c) => Len(c.ids) <= limit

(* What is gone by is a session the server has had.                        *)
Known == /\ advertised \in had /\ core \in {None} \cup had
         /\ pc \in {"planning", "splitting", "grouping", "posting", "sent", "joining"} => core # None

SmallCalls ==
  pc \in {"splitting", "grouping", "posting", "sent", "joining"} /\ r.encodes =>
    /\ \E s \in had : limit = s.objects
    /\ \A i \in DOMAIN first : i < at \/ pc # "splitting" => Small(first[i])
    /\ \A k \in DOMAIN extra : Small(extra[k].call)

FewParts ==
  pc \in {"posting", "sent", "joining"} /\ extra # <<>> => \E s \in had : s.calls = 0 \/ perRequest <= s.calls

SizesKept == Held => ~refusedSize /\ Known /\ SmallCalls /\ FewParts /\ (pc = "sent" => r.encodes)

IInv == Types /\ Whole /\ SizesKept

-----------------------------------------------------------------------------
(* What the model's operators are made of: the least of a set of naturals, *)
(* the elements of a sequence, sets that are written out in some order.    *)

(* The order of the naturals is well founded.                              *)
LEMMA LessThan == \E R : IsWellFoundedOn(R, Nat) /\ \A x, y \in Nat : x < y => <<x, y>> \in R
<1> DEFINE R == OpToRel(<, Nat)
<1>1. IsWellFoundedOn(R, Nat)
  BY NatLessThanWellFounded, Zenon
<1>2. ASSUME NEW x \in Nat, NEW y \in Nat, x < y PROVE <<x, y>> \in R
  BY <1>2, SMT DEF OpToRel
<1> HIDE DEF R
<1> QED BY <1>1, <1>2

(* So a set of naturals that is not empty has a least element.             *)
LEMMA LeastIn == ASSUME NEW S, S \subseteq Nat, S # {} PROVE \E n \in S : \A m \in S : n <= m
<1>1. PICK R : IsWellFoundedOn(R, Nat) /\ \A x, y \in Nat : x < y => <<x, y>> \in R
  BY LessThan
<1>2. PICK n \in S : \A m \in S : ~ (<<m, n>> \in R)
  <2>1. IsWellFoundedOn(R, Nat)
    BY <1>1
  <2> QED BY <2>1, WFMin, Zenon
<1>3. ASSUME NEW m \in S PROVE n <= m
  <2>1. \A u, v \in Nat : u < v => <<u, v>> \in R
    BY <1>1
  <2>2. n \in Nat /\ m \in Nat
    OBVIOUS
  <2>3. ~ (m < n)
    BY <1>2, <2>1, <2>2, Zenon
  <2> QED BY <2>2, <2>3
<1> QED BY <1>3

LEMMA ElementsOf == ASSUME NEW S, NEW s \in Seq(S)
                    PROVE  ToSet(s) = {s[i] : i \in 1..Len(s)} /\ ToSet(s) \subseteq S /\ IsFiniteSet(ToSet(s))
<1>1. DOMAIN s = 1..Len(s) /\ Len(s) \in Nat /\ \A i \in 1..Len(s) : s[i] \in S
  OBVIOUS
<1>2. ToSet(s) = {s[i] : i \in 1..Len(s)}
  BY <1>1 DEF ToSet
<1>3. IsFiniteSet(1..Len(s))
  BY <1>1, FS_Interval
<1>4. s \in Surjection(1..Len(s), ToSet(s))
  BY <1>1, <1>2 DEF Surjection
<1>5. IsFiniteSet(ToSet(s))
  BY <1>3, <1>4, FS_Surjection
<1> QED BY <1>1, <1>2, <1>5

LEMMA NoElements == ToSet(<<>>) = {}
<1> DEFINE e == <<>>
<1>1. e \in Seq({})
  OBVIOUS
<1> HIDE DEF e
<1>2. ToSet(e) \subseteq {}
  BY <1>1, ElementsOf
<1> QED BY <1>2 DEF e

(* Cut in two, a sequence has the elements of both parts.                  *)
LEMMA Cut ==
  ASSUME NEW S, NEW s \in Seq(S), NEW n \in 0..Len(s)
  PROVE  /\ SubSeq(s, 1, n) \in Seq(S) /\ Len(SubSeq(s, 1, n)) = n
         /\ SubSeq(s, n + 1, Len(s)) \in Seq(S) /\ Len(SubSeq(s, n + 1, Len(s))) = Len(s) - n
         /\ ToSet(s) = ToSet(SubSeq(s, 1, n)) \cup ToSet(SubSeq(s, n + 1, Len(s)))
<1> DEFINE t == SubSeq(s, 1, n)
           u == SubSeq(s, n + 1, Len(s))
<1>1. n \in Int /\ n + 1 \in Int /\ Len(s) \in Int /\ 1 \in Int /\ \A i \in 1..Len(s) : s[i] \in S
  OBVIOUS
<1>2. t \in Seq(S) /\ Len(t) = n /\ \A i \in 1..n : t[i] = s[i]
  <2>1. \A i \in 1..n : s[i] \in S
    BY <1>1
  <2>2. t \in Seq(S) /\ Len(t) = (IF 1 <= n THEN n - 1 + 1 ELSE 0) /\ \A i \in 1..(n - 1 + 1) : t[i] = s[1 + i - 1]
    BY <1>1, <2>1, SubSeqProperties
  <2> HIDE DEF t
  <2> QED BY <2>2
<1>3. u \in Seq(S) /\ Len(u) = Len(s) - n /\ \A i \in 1..(Len(s) - n) : u[i] = s[n + i]
  <2>1. \A i \in (n + 1)..Len(s) : s[i] \in S
    BY <1>1
  <2>2. /\ u \in Seq(S) /\ Len(u) = (IF n + 1 <= Len(s) THEN Len(s) - (n + 1) + 1 ELSE 0)
        /\ \A i \in 1..(Len(s) - (n + 1) + 1) : u[i] = s[n + 1 + i - 1]
    BY <1>1, <2>1, SubSeqProperties
  <2> HIDE DEF u
  <2> QED BY <2>2
<1> HIDE DEF t, u
<1>4. /\ ToSet(s) = {s[i] : i \in 1..Len(s)} /\ ToSet(t) = {t[i] : i \in 1..Len(t)}
      /\ ToSet(u) = {u[i] : i \in 1..Len(u)}
  BY <1>2, <1>3, ElementsOf
<1>5. ToSet(s) \subseteq ToSet(t) \cup ToSet(u)
  <2> SUFFICES ASSUME NEW i \in 1..Len(s) PROVE s[i] \in ToSet(t) \cup ToSet(u)
    BY <1>4
  <2>1. CASE i <= n
    BY <2>1, <1>2, <1>4
  <2>2. CASE ~(i <= n)
    <3>1. i - n \in 1..(Len(s) - n) /\ n + (i - n) = i
      BY <2>2
    <3> QED BY <3>1, <1>3, <1>4
  <2> QED BY <2>1, <2>2
<1>6. ToSet(t) \subseteq ToSet(s)
  BY <1>2, <1>4
<1>7. ToSet(u) \subseteq ToSet(s)
  <2> SUFFICES ASSUME NEW i \in 1..(Len(s) - n) PROVE s[n + i] \in ToSet(s)
    BY <1>3, <1>4
  <2> QED BY <1>4
<1> QED BY <1>2, <1>3, <1>5, <1>6, <1>7 DEF t, u

LEMMA ElementsOfBoth ==
  ASSUME NEW S, NEW s \in Seq(S), NEW t \in Seq(S)
  PROVE  s \o t \in Seq(S) /\ ToSet(s \o t) = ToSet(s) \cup ToSet(t)
<1> DEFINE u == s \o t
<1>1. /\ u \in Seq(S) /\ Len(u) = Len(s) + Len(t)
      /\ \A i \in 1..(Len(s) + Len(t)) : u[i] = IF i <= Len(s) THEN s[i] ELSE t[i - Len(s)]
  BY ConcatProperties
<1> HIDE DEF u
<1>2. /\ ToSet(u) = {u[i] : i \in 1..Len(u)} /\ ToSet(s) = {s[i] : i \in 1..Len(s)}
      /\ ToSet(t) = {t[i] : i \in 1..Len(t)}
  BY <1>1, ElementsOf
<1>3. ToSet(u) \subseteq ToSet(s) \cup ToSet(t)
  <2> SUFFICES ASSUME NEW i \in 1..(Len(s) + Len(t)) PROVE u[i] \in ToSet(s) \cup ToSet(t)
    BY <1>1, <1>2
  <2>1. CASE i <= Len(s)
    BY <2>1, <1>1, <1>2
  <2>2. CASE ~(i <= Len(s))
    <3>1. i - Len(s) \in 1..Len(t)
      BY <2>2
    <3> QED BY <3>1, <2>2, <1>1, <1>2
  <2> QED BY <2>1, <2>2
<1>4. ToSet(s) \subseteq ToSet(u)
  BY <1>1, <1>2
<1>5. ToSet(t) \subseteq ToSet(u)
  <2> SUFFICES ASSUME NEW i \in 1..Len(t) PROVE t[i] \in ToSet(u)
    BY <1>2
  <2>1. Len(s) + i \in 1..(Len(s) + Len(t)) /\ ~(Len(s) + i <= Len(s)) /\ (Len(s) + i) - Len(s) = i
    OBVIOUS
  <2> QED BY <2>1, <1>1, <1>2
<1> QED BY <1>1, <1>3, <1>4, <1>5 DEF u

(* A set of records, written out, is all there and nothing else.           *)
LEMMA ListedIs == ASSUME NEW ids, IsFiniteSet(ids) PROVE Listed(ids) \in Seq(ids) /\ ToSet(Listed(ids)) = ids
<1> DEFINE n == Cardinality(ids)
           f == Listed(ids)
<1>1. n \in Nat /\ \E b : b \in Bijection(1..n, ids)
  BY FS_CardinalityType DEF ExistsBijection
<1>2. \E b \in [1..n -> ids] : IsInjective(b)
  BY <1>1, Zenon DEF Bijection, Injection
<1>3. f \in [1..n -> ids] /\ IsInjective(f)
  BY <1>2, Zenon DEF Listed, SetToSeq
<1> HIDE DEF f
<1>4. f \in Injection(1..n, ids)
  BY <1>3 DEF Injection
<1>5. IsFiniteSet(1..n) /\ Cardinality(1..n) = n
  BY <1>1, FS_Interval
<1>6. f \in Surjection(1..n, ids)
  BY <1>4, <1>5, FS_Injection
<1>7. \A x \in ids : \E i \in 1..n : f[i] = x
  BY <1>6 DEF Surjection
<1>8. f \in Seq(ids) /\ DOMAIN f = 1..n
  BY <1>1, <1>3
<1> QED BY <1>3, <1>7, <1>8 DEF f, ToSet

-----------------------------------------------------------------------------
(* What the model's operators give.                                        *)

LEMMA FindIs ==
  ASSUME NEW S, NEW answers \in Seq(S), NEW id, Answered(id, answers)
  PROVE  Find(id, answers) \in DOMAIN answers /\ answers[Find(id, answers)].id = id
<1> DEFINE Those == {i \in DOMAIN answers : answers[i].id = id}
<1>1. DOMAIN answers = 1..Len(answers) /\ Len(answers) \in Nat
  OBVIOUS
<1>2. Those \subseteq Nat /\ Those # {}
  BY <1>1 DEF Answered
<1>3. PICK n \in Those : \A m \in Those : n <= m
  BY <1>2, LeastIn
<1>4. \A j \in 1..(n - 1) : answers[j].id # id
  <2> SUFFICES ASSUME NEW j \in 1..(n - 1), answers[j].id = id PROVE FALSE
    OBVIOUS
  <2>1. n \in 1..Len(answers)
    BY <1>1
  <2>2. j \in 1..Len(answers) /\ ~(n <= j)
    BY <2>1
  <2>3. j \in Those
    BY <2>2, <1>1
  <2> QED BY <2>2, <2>3, <1>3
<1>5. \E i \in DOMAIN answers : answers[i].id = id /\ \A j \in 1..(i - 1) : answers[j].id # id
  BY <1>4
<1> QED BY <1>5 DEF Find

(* The calls of a request.                                                 *)
LEMMA CallsTyped ==
  ASSUME r \in Requests
  PROVE  /\ r.calls \in Seq(Calls) /\ r.encodes \in BOOLEAN
         /\ DOMAIN r.calls = 1..Len(r.calls) /\ Len(r.calls) \in Nat
         /\ \A i \in DOMAIN r.calls : r.calls[i] \in Calls
         /\ \A i, j \in DOMAIN r.calls : r.calls[i].id = r.calls[j].id => i = j
<1>1. /\ r.calls \in Seq(Calls) /\ r.encodes \in BOOLEAN
      /\ \A i, j \in DOMAIN r.calls : r.calls[i].id = r.calls[j].id => i = j
  BY RequestsAssumption DEF Calls
<1> QED BY <1>1

LEMMA LimitIsNat == ASSUME Types PROVE Limit("objects") \in Nat /\ Limit("calls") \in Nat /\ Limit("size") \in Nat
<1>1. core \in Sessions \cup {None}
  BY DEF Types
<1> QED BY <1>1, SessionsAssumption DEF Limit

(* No call has the id that unusedCallID makes.                             *)
LEMMA UnusedIs ==
  ASSUME Types, NEW base \in CallIDs
  PROVE  UnusedCallID(base) \in CallIDs \ Taken
<1> DEFINE id(n) == <<base[1], Append(base[2], n)>>
           top == Cardinality(Taken) + 1
           Free(n) == n \in 1..top /\ id(n) \notin Taken
<1>1. base[1] \in STRING /\ base[2] \in Seq(Nat)
  BY DEF CallIDs
<1>2. ASSUME NEW n \in Nat PROVE id(n) \in CallIDs
  <2>1. Append(base[2], n) \in Seq(Nat)
    BY <1>1
  <2> QED BY <1>1, <2>1, Zenon DEF CallIDs
<1>3. IsFiniteSet(Taken)
  <2> DEFINE f == [i \in 1..Len(r.calls) |-> r.calls[i].id]
             g == [k \in 1..Len(extra) |-> extra[k].call.id]
             S == {r.calls[i].id : i \in DOMAIN r.calls}
             T == {extra[k].call.id : k \in DOMAIN extra}
  <2>1. DOMAIN r.calls = 1..Len(r.calls) /\ Len(r.calls) \in Nat
    BY CallsTyped DEF Types
  <2>2. DOMAIN extra = 1..Len(extra) /\ Len(extra) \in Nat
    BY DEF Types
  <2>3. f \in Surjection(1..Len(r.calls), S)
    BY <2>1 DEF Surjection
  <2>4. g \in Surjection(1..Len(extra), T)
    BY <2>2 DEF Surjection
  <2>5. IsFiniteSet(1..Len(r.calls)) /\ IsFiniteSet(1..Len(extra))
    BY <2>1, <2>2, FS_Interval
  <2> HIDE DEF f, g, S, T
  <2>6. IsFiniteSet(S) /\ IsFiniteSet(T)
    BY <2>3, <2>4, <2>5, FS_Surjection
  <2>7. IsFiniteSet(S \cup T)
    BY <2>6, FS_Union
  <2> QED BY <2>7 DEF S, T, Taken
<1>4. Cardinality(Taken) \in Nat
  BY <1>3, FS_CardinalityType
<1>5. \A m, n \in Nat : id(m) = id(n) => m = n
  <2> SUFFICES ASSUME NEW m \in Nat, NEW n \in Nat, id(m) = id(n) PROVE m = n
    OBVIOUS
  <2>1. Append(base[2], m) = Append(base[2], n)
    OBVIOUS
  <2>2. Append(base[2], m)[Len(base[2]) + 1] = m /\ Append(base[2], n)[Len(base[2]) + 1] = n
    BY <1>1
  <2> QED BY <2>1, <2>2
<1>6. \E n \in 1..top : id(n) \notin Taken
  <2> SUFFICES ASSUME \A n \in 1..top : id(n) \in Taken PROVE FALSE
    OBVIOUS
  <2> DEFINE h == [n \in 1..top |-> id(n)]
  <2>1. h \in [1..top -> Taken]
    OBVIOUS
  <2>2. IsFiniteSet(1..top) /\ Cardinality(1..top) = top
    BY <1>4, FS_Interval
  <2>3. Cardinality(Taken) < Cardinality(1..top)
    BY <1>4, <2>2
  <2>4. \E x, y \in 1..top : x # y /\ h[x] = h[y]
    <3> HIDE DEF h
    <3> QED BY <1>3, <2>1, <2>2, <2>3, FS_PigeonHole
  <2>5. PICK x \in 1..top, y \in 1..top : x # y /\ id(x) = id(y)
    BY <2>4
  <2>6. x \in Nat /\ y \in Nat
    BY <1>4
  <2> QED BY <2>5, <2>6, <1>5
<1>7. \E n \in 1..top : id(n) \notin Taken /\ \A m \in 1..(n - 1) : id(m) \in Taken
  <2> DEFINE Those == {n \in 1..top : id(n) \notin Taken}
  <2>1. Those \subseteq Nat /\ Those # {}
    <3>1. 1..top \subseteq Nat
      BY <1>4
    <3> HIDE DEF top, id
    <3> QED BY <3>1, <1>6
  <2>2. PICK n \in Those : \A m \in Those : n <= m
    <3> HIDE DEF Those
    <3> QED BY <2>1, LeastIn
  <2>3. ASSUME NEW m \in 1..(n - 1) PROVE id(m) \in Taken
    <3>1. n \in 1..top
      OBVIOUS
    <3>2. m \in 1..top /\ ~(n <= m)
      BY <3>1, <1>4
    <3> QED BY <3>2, <2>2
  <2> QED BY <2>3
<1> DEFINE least == CHOOSE n \in 1..top : id(n) \notin Taken /\ \A m \in 1..(n - 1) : id(m) \in Taken
<1>8. least \in 1..top /\ id(least) \notin Taken
  <2> HIDE DEF id, top
  <2> QED BY <1>7
<1>9. UnusedCallID(base) = id(least)
  BY Zenon DEF UnusedCallID
<1> HIDE DEF least
<1>10. least \in Nat
  BY <1>8, <1>4
<1> QED BY <1>2, <1>8, <1>9, <1>10

(* What one more of some further calls asks for.                           *)
LEMMA PartsOfNext ==
  ASSUME NEW e, NEW k \in Nat, NEW id
  PROVE  /\ PartOf(e, k + 1, id) = PartOf(e, k, id) \cup (IF e[k + 1].into = id THEN {k + 1} ELSE {})
         /\ PartsAsk(e, k + 1, id) = PartsAsk(e, k, id) \cup (IF e[k + 1].into = id THEN ToSet(e[k + 1].call.ids) ELSE {})
<1>1. 1..(k + 1) = 1..k \cup {k + 1}
  OBVIOUS
<1>2. PartOf(e, k + 1, id) = PartOf(e, k, id) \cup (IF e[k + 1].into = id THEN {k + 1} ELSE {})
  BY <1>1 DEF PartOf
<1> QED BY <1>2 DEF PartsAsk

(* Only the first k matter.                                                *)
LEMMA PartsSame ==
  ASSUME NEW e, NEW f, NEW k, NEW id, \A j \in 1..k : f[j] = e[j]
  PROVE  PartOf(f, k, id) = PartOf(e, k, id) /\ PartsAsk(f, k, id) = PartsAsk(e, k, id)
<1>1. PartOf(f, k, id) = PartOf(e, k, id)
  BY DEF PartOf
<1>2. \A j \in PartOf(e, k, id) : f[j] = e[j]
  BY DEF PartOf
<1> QED BY <1>1, <1>2 DEF PartsAsk

LEMMA PartsOfNone == ASSUME NEW e, NEW id PROVE PartOf(e, 0, id) = {} /\ PartsAsk(e, 0, id) = {}
<1>1. PartOf(e, 0, id) = {}
  BY DEF PartOf
<1> QED BY <1>1 DEF PartsAsk

(* The request on its way.                                                 *)
LEMMA TowardIs ==
  ASSUME Types, Sending, pc \in {"posting", "sent", "joining"}
  PROVE  /\ Toward \in Seq(Calls)
         /\ ~posted => Toward = first
         /\ posted => /\ PartEnd \in Nat /\ start < PartEnd /\ PartEnd <= Len(extra)
                      /\ PartEnd - start <= perRequest
                      /\ Len(Toward) = PartEnd - start
                      /\ \A n \in 1..(PartEnd - start) : Toward[n] = extra[start + n].call
<1>1. ~posted => Toward = first /\ first \in Seq(Calls)
  BY DEF Toward, Types
<1>2. CASE posted
  <2>1. start < Len(extra) /\ extra \in Seq([call : Calls, into : CallIDs]) /\ start \in Nat /\ perRequest \in Nat
    BY <1>2 DEF Sending, Types
  <2>2. extra # <<>> /\ Len(extra) \in Nat
    BY <2>1
  <2>3. perRequest >= 1
    BY <2>2 DEF Sending
  <2>4. PartEnd \in Nat /\ start < PartEnd /\ PartEnd <= Len(extra) /\ PartEnd - start <= perRequest
    BY <2>1, <2>2, <2>3 DEF PartEnd, Lesser
  <2> DEFINE n == PartEnd - start
  <2>5. n \in Nat /\ \A m \in 1..n : start + m \in 1..Len(extra)
    BY <2>1, <2>4
  <2>6. ASSUME NEW m \in 1..n PROVE extra[start + m].call \in Calls
    <3>1. start + m \in 1..Len(extra)
      BY <2>5
    <3>2. extra[start + m] \in [call : Calls, into : CallIDs]
      BY <2>1, <3>1, ElementOfSeq
    <3> QED BY <3>2
  <2>7. Toward = [m \in 1..n |-> extra[start + m].call]
    BY <1>2 DEF Toward
  <2> HIDE DEF n
  <2>8. Toward \in Seq(Calls) /\ Len(Toward) = n /\ \A m \in 1..n : Toward[m] = extra[start + m].call
    BY <2>5, <2>6, <2>7
  <2> QED BY <1>2, <2>4, <2>8 DEF n
<1> QED BY <1>1, <1>2 DEF Types

LEMMA ResolvedTyped ==
  ASSUME Types, NEW c \in Calls, ~Unresolved(c)
  PROVE  Resolved(c) \in Seq(Records) /\ (c.ref = NoRef => Resolved(c) = c.ids)
<1>1. c.ref # NoRef => Answered(c.ref, got)
  BY DEF Unresolved
<1>2. got \in Seq(Answers)
  BY DEF Types
<1>3. c.ref # NoRef => got[Find(c.ref, got)] \in Answers
  BY <1>1, <1>2, FindIs
<1> QED BY <1>3 DEF Resolved, Calls, Answers

(* What joining an answer onto another gives.                              *)
LEMMA JoinedIs ==
  ASSUME NEW t \in Answers, NEW a \in Answers
  PROVE  /\ Joined(t, a) \in Answers /\ Joined(t, a).id = t.id /\ Joined(t, a).name \in {"error", t.name}
         /\ Joined(t, a).name # "error" =>
              /\ a.name # "error" /\ t.name # "error" /\ Joined(t, a).state = t.state
              /\ ToSet(Joined(t, a).list) = ToSet(t.list) \cup ToSet(a.list)
              /\ ToSet(Joined(t, a).notFound) = ToSet(t.notFound) \cup ToSet(a.notFound)
<1>1. /\ t.list \o a.list \in Seq(Records) /\ ToSet(t.list \o a.list) = ToSet(t.list) \cup ToSet(a.list)
      /\ t.notFound \o a.notFound \in Seq(Records)
      /\ ToSet(t.notFound \o a.notFound) = ToSet(t.notFound) \cup ToSet(a.notFound)
  BY ElementsOfBoth DEF Answers
<1>2. CASE a.name = "error"
  <2>1. Joined(t, a) = [a EXCEPT !.id = t.id]
    BY <1>2 DEF Joined
  <2> QED BY <1>2, <2>1 DEF Answers
<1>3. CASE a.name # "error" /\ t.name = "error"
  <2>1. Joined(t, a) = t
    BY <1>3 DEF Joined
  <2> QED BY <1>3, <2>1
<1>4. CASE a.name # "error" /\ t.name # "error"
  <2>1. Joined(t, a) = [t EXCEPT !.list = t.list \o a.list, !.notFound = t.notFound \o a.notFound]
    BY <1>4 DEF Joined
  <2> QED BY <1>1, <1>4, <2>1 DEF Answers
<1> QED BY <1>2, <1>3, <1>4

(* What a call is answered: with an error, or with what it asked for as it *)
(* is now.                                                                 *)
LEMMA ServedIs ==
  ASSUME IInv, ServeCall
  PROVE  LET c == sent[Len(got) + 1]
         IN  \E a \in Answers : /\ c \in Calls /\ got' = Append(got, a)
                                /\ a.id = c.id /\ a.name \in {"error", c.name}
                                /\ a.name = "get" /\ c.ref = NoRef => a.state = State /\ Of(a, ToSet(c.ids), past)
<1> DEFINE c == sent[Len(got) + 1]
<1>1. /\ got \in Seq(Answers) /\ sent \in Seq(Calls) /\ past \in Seq(SUBSET Records) /\ began \in 1..State
      /\ Len(got) < Len(sent)
  BY DEF IInv, Types, ServeCall
<1>2. Len(got) \in Nat /\ Len(sent) \in Nat /\ State \in Nat /\ Len(got) + 1 \in 1..Len(sent)
  BY <1>1 DEF State
<1>3. c \in Calls
  BY <1>1, <1>2
<1>4. MethodError(c) \in Answers /\ MethodError(c).id = c.id /\ MethodError(c).name = "error"
  <2>1. <<>> \in Seq(Records)
    OBVIOUS
  <2> QED BY <1>3, <2>1 DEF MethodError, Calls, Answers
<1> HIDE DEF c
<1>5. \/ got' = Append(got, MethodError(c))
      \/ /\ ~Unresolved(c) /\ c.name = "get"
         /\ got' = Append(got, Ok(c, State, Listed(ToSet(Resolved(c)) \cap Now), Listed(ToSet(Resolved(c)) \ Now)))
      \/ /\ ~Unresolved(c) /\ c.name = "set"
         /\ past' = Append(past, Now \ ToSet(Resolved(c)))
         /\ got' = Append(got, Ok(c, State', <<>>, <<>>))
  BY DEF ServeCall, c
<1>6. CASE got' = Append(got, MethodError(c))
  BY <1>3, <1>4, <1>6 DEF c
<1>7. ASSUME ~Unresolved(c), c.name = "get",
             got' = Append(got, Ok(c, State, Listed(ToSet(Resolved(c)) \cap Now), Listed(ToSet(Resolved(c)) \ Now)))
      PROVE  \E a \in Answers : /\ got' = Append(got, a) /\ a.id = c.id /\ a.name \in {"error", c.name}
                                /\ a.name = "get" /\ c.ref = NoRef => a.state = State /\ Of(a, ToSet(c.ids), past)
  <2> DEFINE ids == ToSet(Resolved(c))
             a == Ok(c, State, Listed(ids \cap Now), Listed(ids \ Now))
  <2>1. Resolved(c) \in Seq(Records) /\ (c.ref = NoRef => Resolved(c) = c.ids)
    BY <1>3, <1>7, ResolvedTyped DEF IInv
  <2>2. IsFiniteSet(ids) /\ ids \subseteq Records
    BY <2>1, ElementsOf
  <2>3. IsFiniteSet(ids \cap Now) /\ IsFiniteSet(ids \ Now)
    BY <2>2, FS_Intersection, FS_Difference
  <2>4. /\ Listed(ids \cap Now) \in Seq(ids \cap Now) /\ ToSet(Listed(ids \cap Now)) = ids \cap Now
        /\ Listed(ids \ Now) \in Seq(ids \ Now) /\ ToSet(Listed(ids \ Now)) = ids \ Now
    BY <2>3, ListedIs
  <2>5. ids \cap Now \subseteq Records /\ ids \ Now \subseteq Records
    BY <2>2
  <2>6. Listed(ids \cap Now) \in Seq(Records) /\ Listed(ids \ Now) \in Seq(Records)
    BY <2>4, <2>5, SeqMonotonic
  <2>7. /\ a.id = c.id /\ a.name = c.name /\ a.state = State
        /\ a.list = Listed(ids \cap Now) /\ a.notFound = Listed(ids \ Now) /\ a \in Answers
    BY <1>2, <1>3, <2>6 DEF Ok, Calls, Answers
  <2>8. c.ref = NoRef => Of(a, ToSet(c.ids), past)
    BY <2>1, <2>4, <2>7 DEF Of, Now
  <2> HIDE DEF a
  <2> QED BY <1>7, <2>7, <2>8 DEF a
<1>8. ASSUME c.name = "set", past' = Append(past, Now \ ToSet(Resolved(c))), got' = Append(got, Ok(c, State', <<>>, <<>>))
      PROVE  \E a \in Answers : /\ got' = Append(got, a) /\ a.id = c.id /\ a.name \in {"error", c.name}
                                /\ a.name = "get" /\ c.ref = NoRef => a.state = State /\ Of(a, ToSet(c.ids), past)
  <2>1. State' \in Nat /\ <<>> \in Seq(Records)
    BY <1>8, <1>1 DEF State, Now
  <2>2. Ok(c, State', <<>>, <<>>) \in Answers
    BY <1>3, <2>1 DEF Ok, Calls, Answers
  <2>3. Ok(c, State', <<>>, <<>>).id = c.id /\ Ok(c, State', <<>>, <<>>).name = "set"
    BY <1>8 DEF Ok
  <2> QED BY <1>8, <2>2, <2>3
<1> QED BY <1>3, <1>5, <1>6, <1>7, <1>8 DEF c

-----------------------------------------------------------------------------
(* What the steps have in common.                                          *)

(* The records as they were stay what they were.                           *)
Extends(h, g) == Len(g) <= Len(h) /\ \A s \in 1..Len(g) : h[s] = g[s]

LEMMA PastKept == ASSUME Types, Next PROVE past' \in Seq(SUBSET Records) /\ Extends(past', past)
<1>1. past \in Seq(SUBSET Records) /\ Len(past) \in Nat /\ Len(past) >= 1
  BY DEF Types, State
<1>2. \/ past' = past
      \/ \E R \in SUBSET Records : past' = Append(past, R)
  <2>1. Now \in SUBSET Records
    BY <1>1 DEF Now, State
  <2>2. CASE OthersChange
    <3>1. PICK i \in Records : past' = Append(past, IF i \in Now THEN Now \ {i} ELSE Now \cup {i})
      BY <2>2 DEF OthersChange
    <3> QED BY <2>1, <3>1
  <2>3. CASE ServeCall
    <3>1. past' = past \/ past' = Append(past, Now \ ToSet(Resolved(sent[Len(got) + 1])))
      BY <2>3 DEF ServeCall
    <3> QED BY <2>1, <3>1
  <2>4. CASE SessionChanges \/ SessionRefreshed
    BY <2>4 DEF SessionChanges, SessionRefreshed, server
  <2>5. CASE Do
    BY <2>5 DEF Do, Begin, ResolveAPIURL, PlanSplit, SplitCall, SplitRest, Planned, GroupParts, Post, PostFails,
                PostReturns, JoinSplit, server
  <2> QED BY <2>2, <2>3, <2>4, <2>5 DEF Next
<1> QED BY <1>1, <1>2 DEF Extends

(* An answer that was of the records at one moment still is.               *)
LEMMA AnswerKept ==
  ASSUME NEW h \in Seq(SUBSET Records), NEW g \in Seq(SUBSET Records), Extends(h, g), NEW b \in Nat \ {0},
         NEW s \in b..Len(g)
  PROVE  s \in b..Len(h) /\ h[s] = g[s]
<1>1. s \in 1..Len(g) /\ Len(g) \in Nat /\ Len(h) \in Nat
  OBVIOUS
<1> QED BY <1>1 DEF Extends

(* The plan is left alone, once it is made.                                *)
LEMMA PlanFrame ==
  ASSUME PlanCovers, r' = r, limit' = limit, at' = at, rest' = rest, first' = first, extra' = extra,
         InPlan' => InPlan, pc' = pc \/ (pc' # "splitting" /\ (InPlan => rest = <<>>))
  PROVE  PlanCovers'
<1>1. SUFFICES ASSUME InPlan' PROVE (FirstCovers /\ PartsApart /\ RestOfOne)'
  BY DEF PlanCovers
<1>2. InPlan
  BY <1>1
<1>3. FirstCovers'
  BY <1>2 DEF PlanCovers, FirstCovers, Asked
<1>4. PartsApart'
  BY <1>2 DEF PlanCovers, PartsApart
<1>5. RestOfOne'
  BY <1>2 DEF PlanCovers, RestOfOne
<1> QED BY <1>3, <1>4, <1>5

(* Nothing is joined.                                                      *)
LEMMA JoinedFrame ==
  ASSUME Types, Next, JoinedSoFar, r' = r, first' = first, extra' = extra, joined' = joined, resp' = resp,
         posted' = posted, began' = began, errs' \subseteq InJoining \cup {"method"} => errs' = errs
  PROVE  JoinedSoFar'
<1>1. \A i : Asked(i, joined)' = Asked(i, joined)
  BY DEF Asked
<1>2. past' \in Seq(SUBSET Records) /\ Extends(past', past)
  BY PastKept
<1>3. past \in Seq(SUBSET Records) /\ began \in Nat \ {0}
  BY DEF Types, State
<1>4. SUFFICES ASSUME posted, errs \subseteq InJoining \cup {"method"}, errs' = errs PROVE JoinedSoFar'
  BY DEF JoinedSoFar
<1>5. ASSUME NEW i \in DOMAIN resp, resp[i].state \in began..State
      PROVE  /\ resp[i].state \in began..(State') /\ past'[resp[i].state] = past[resp[i].state]
             /\ \A ids : Of(resp[i], ids, past) => Of(resp[i], ids, past')
  <2>1. resp[i].state \in began..Len(past') /\ past'[resp[i].state] = past[resp[i].state]
    BY <1>2, <1>3, <1>5, AnswerKept DEF State
  <2> QED BY <2>1 DEF State, Of
<1> QED BY <1>1, <1>4, <1>5 DEF JoinedSoFar

(* Nothing is sent.                                                        *)
LEMMA SendingFrame ==
  ASSUME Types, Next, Sending, extra' = extra, first' = first, perRequest' = perRequest, posted' = posted,
         start' = start, joined' = joined, sent' = sent, got' = got, pc' = pc, began' = began
  PROVE  Sending'
<1>1. past' \in Seq(SUBSET Records) /\ Extends(past', past)
  BY PastKept
<1>2. past \in Seq(SUBSET Records) /\ began \in Nat \ {0}
  BY DEF Types, State
<1>3. Toward' = Toward /\ PartEnd' = PartEnd
  BY DEF Toward, PartEnd
<1>4. ASSUME NEW m \in DOMAIN got, AnswerTo(got[m], sent[m], began, past)
      PROVE  AnswerTo(got[m], sent[m], began, past')
  <2>1. SUFFICES ASSUME got[m].name = "get", sent[m].ref = NoRef
                 PROVE  got[m].state \in began..Len(past') /\ Of(got[m], ToSet(sent[m].ids), past')
    BY <1>4 DEF AnswerTo
  <2>2. got[m].state \in began..Len(past) /\ Of(got[m], ToSet(sent[m].ids), past)
    BY <1>4, <2>1 DEF AnswerTo
  <2>3. \A s \in began..Len(past) : s \in began..Len(past') /\ past'[s] = past[s]
    BY <1>1, <1>2, AnswerKept
  <2>4. got[m].state \in began..Len(past') /\ past'[got[m].state] = past[got[m].state]
    BY <2>2, <2>3
  <2> QED BY <2>2, <2>4 DEF Of
<1> QED BY <1>3, <1>4 DEF Sending

-----------------------------------------------------------------------------
(* Every variable keeps its type.                                          *)

LEMMA ServerTyped ==
  ASSUME Types, Next
  PROVE  /\ r' \in Requests /\ options' \in Options
         /\ past' \in Seq(SUBSET Records) /\ began' \in 1..State'
         /\ advertised' \in Sessions /\ renewals' \in Nat /\ had' \in SUBSET Sessions
         /\ core' \in Sessions \cup {None}
<1>1. r' = r /\ options' = options
  BY DEF Next, Do, Begin, ResolveAPIURL, PlanSplit, SplitCall, SplitRest, Planned, GroupParts, Post, PostFails,
         PostReturns, JoinSplit, ServeCall, OthersChange, SessionChanges, SessionRefreshed
<1>2. began' \in {began, State}
  BY DEF Next, Do, Begin, ResolveAPIURL, PlanSplit, SplitCall, SplitRest, Planned, GroupParts, Post, PostFails,
         PostReturns, JoinSplit, ServeCall, OthersChange, SessionChanges, SessionRefreshed
<1>3. advertised' \in Sessions /\ renewals' \in {renewals, renewals + 1} /\ had' \in {had, had \cup {advertised'}}
  BY DEF Next, Do, Begin, ResolveAPIURL, PlanSplit, SplitCall, SplitRest, Planned, GroupParts, Post, PostFails,
         PostReturns, JoinSplit, ServeCall, OthersChange, SessionChanges, SessionRefreshed, server, Types
<1>4. core' \in {core, advertised}
  BY DEF Next, Do, Begin, ResolveAPIURL, PlanSplit, SplitCall, SplitRest, Planned, GroupParts, Post, PostFails,
         PostReturns, JoinSplit, ServeCall, OthersChange, SessionChanges, SessionRefreshed
<1>5. past' \in Seq(SUBSET Records) /\ Extends(past', past)
  BY PastKept
<1>6. State' >= State /\ State' \in Nat /\ State \in Nat
  BY <1>5 DEF Extends, State, Types
<1> QED BY <1>1, <1>2, <1>3, <1>4, <1>5, <1>6 DEF Types

(* What a call of r that is split keeps, and what it leaves.               *)
LEMMA SplitTyped ==
  ASSUME Types, PlanCovers, SplitCall
  PROVE  /\ at \in 1..Len(r.calls) /\ at \in DOMAIN first /\ Len(first) = Len(r.calls) /\ r.calls[at] \in Calls
         /\ at' = at + 1 /\ limit > 0 /\ first[at] = r.calls[at] /\ DOMAIN first = 1..Len(first)
         /\ ~Splittable(r.calls[at]) => first' = first /\ rest' = <<>>
         /\ Splittable(r.calls[at]) =>
              /\ Plain(r.calls[at])
              /\ first' = [first EXCEPT ![at] = [r.calls[at] EXCEPT !.ids = SubSeq(r.calls[at].ids, 1, limit)]]
              /\ [r.calls[at] EXCEPT !.ids = SubSeq(r.calls[at].ids, 1, limit)] \in Calls
              /\ Len(SubSeq(r.calls[at].ids, 1, limit)) = limit
              /\ rest' \in Seq(Records) /\ rest' # <<>>
              /\ ToSet(r.calls[at].ids) = ToSet(SubSeq(r.calls[at].ids, 1, limit)) \cup ToSet(rest')
<1>1. pc = "splitting" /\ InPlan /\ at <= Len(r.calls) /\ rest = <<>> /\ at' = at + 1
  BY DEF SplitCall, InPlan
<1>2. /\ r.calls \in Seq(Calls) /\ DOMAIN r.calls = 1..Len(r.calls) /\ Len(r.calls) \in Nat /\ at \in Nat \ {0}
      /\ limit \in Nat /\ first \in Seq(Calls)
  BY CallsTyped DEF Types
<1>3. at \in 1..Len(r.calls) /\ r.calls[at] \in Calls
  BY <1>1, <1>2
<1>4. Len(first) = Len(r.calls) /\ limit > 0 /\ first[at] = r.calls[at]
  <2>1. \A i \in DOMAIN r.calls : pc = "splitting" /\ i >= at => first[i] = r.calls[i]
    BY <1>1, Zenon DEF PlanCovers, FirstCovers
  <2>2. at >= at /\ at \in DOMAIN r.calls
    BY <1>2, <1>3
  <2>3. first[at] = r.calls[at]
    BY <1>1, <2>1, <2>2
  <2> QED BY <1>1, <2>3 DEF PlanCovers, FirstCovers, RestOfOne
<1>5. ~Splittable(r.calls[at]) => first' = first /\ rest' = <<>>
  BY <1>1 DEF SplitCall
<1>6. ASSUME Splittable(r.calls[at])
      PROVE  /\ Plain(r.calls[at])
             /\ first' = [first EXCEPT ![at] = [r.calls[at] EXCEPT !.ids = SubSeq(r.calls[at].ids, 1, limit)]]
             /\ [r.calls[at] EXCEPT !.ids = SubSeq(r.calls[at].ids, 1, limit)] \in Calls
             /\ Len(SubSeq(r.calls[at].ids, 1, limit)) = limit
             /\ rest' \in Seq(Records) /\ rest' # <<>>
             /\ ToSet(r.calls[at].ids) = ToSet(SubSeq(r.calls[at].ids, 1, limit)) \cup ToSet(rest')
  <2> DEFINE c == r.calls[at]
             some == SubSeq(c.ids, 1, limit)
             others == SubSeq(c.ids, limit + 1, Len(c.ids))
  <2>1. c.ids \in Seq(Records) /\ Len(c.ids) > limit /\ Plain(c)
    BY <1>3, <1>6 DEF Splittable, Calls, Plain
  <2>2. limit \in 0..Len(c.ids)
    BY <1>2, <2>1
  <2>3. /\ some \in Seq(Records) /\ Len(some) = limit /\ others \in Seq(Records)
        /\ Len(others) = Len(c.ids) - limit /\ ToSet(c.ids) = ToSet(some) \cup ToSet(others)
    BY <2>1, <2>2, Cut
  <2>4. first' = [first EXCEPT ![at].ids = some] /\ rest' = others
    BY <1>6 DEF SplitCall
  <2>5. [first EXCEPT ![at].ids = some] = [first EXCEPT ![at] = [c EXCEPT !.ids = some]]
    BY <1>4
  <2>6. others # <<>>
    <3>1. Len(others) > 0
      BY <1>2, <2>1, <2>3
    <3> HIDE DEF others
    <3> QED BY <3>1
  <2>7. [c EXCEPT !.ids = some] \in Calls
    BY <1>3, <2>3 DEF Calls
  <2> QED BY <2>1, <2>3, <2>4, <2>5, <2>6, <2>7
<1> QED BY <1>1, <1>2, <1>3, <1>4, <1>5, <1>6

(* What goes into one further call, and what is left.                      *)
LEMMA RestTyped ==
  ASSUME Types, PlanCovers, SplitRest
  PROVE  \E new \in [call : Calls, into : CallIDs], width \in 1..limit :
           /\ at - 1 \in DOMAIN r.calls /\ Plain(r.calls[at - 1])
           /\ extra' = Append(extra, new)
           /\ new.into = r.calls[at - 1].id /\ Plain(new.call) /\ new.call.id \notin Taken
           /\ Len(new.call.ids) = width
           /\ rest' \in Seq(Records) /\ ToSet(rest) = ToSet(new.call.ids) \cup ToSet(rest')
<1>1. pc = "splitting" /\ InPlan /\ rest # <<>>
  BY DEF SplitRest, InPlan
<1>2. at - 1 \in DOMAIN r.calls /\ Plain(r.calls[at - 1]) /\ limit > 0
  BY <1>1 DEF PlanCovers, RestOfOne
<1> DEFINE c == r.calls[at - 1]
           width == Lesser(limit, Len(rest))
           chunk == SubSeq(rest, 1, width)
           call == [c EXCEPT !.id = UnusedCallID(c.id), !.ids = chunk]
           new == [call |-> call, into |-> c.id]
<1>3. c \in Calls
  BY <1>2, CallsTyped DEF Types
<1>4. rest \in Seq(Records) /\ limit \in Nat /\ Len(rest) \in Nat /\ Len(rest) > 0
  BY <1>1 DEF Types
<1>5. width \in 1..limit /\ width \in 0..Len(rest)
  BY <1>2, <1>4 DEF Lesser
<1>6. extra' = Append(extra, new) /\ rest' = SubSeq(rest, width + 1, Len(rest))
  BY DEF SplitRest
<1>7. /\ chunk \in Seq(Records) /\ Len(chunk) = width /\ rest' \in Seq(Records)
      /\ ToSet(rest) = ToSet(chunk) \cup ToSet(rest')
  <2> HIDE DEF width
  <2> QED BY <1>4, <1>5, <1>6, Cut
<1>8. UnusedCallID(c.id) \in CallIDs \ Taken
  <2>1. c.id \in CallIDs
    BY <1>3 DEF Calls
  <2> QED BY <2>1, UnusedIs
<1> HIDE DEF c, width, chunk
<1>9. call \in Calls /\ call.id = UnusedCallID(c.id) /\ call.ids = chunk /\ call.name = c.name /\ call.ref = c.ref
  BY <1>3, <1>7, <1>8 DEF Calls
<1> HIDE DEF call
<1>10. new \in [call : Calls, into : CallIDs] /\ new.call = call /\ new.into = c.id
  BY <1>3, <1>9 DEF Calls
<1> HIDE DEF new
<1> QED BY <1>2, <1>5, <1>6, <1>7, <1>8, <1>9, <1>10 DEF Plain, c

LEMMA PlanTyped ==
  ASSUME IInv, Next
  PROVE  /\ limit' \in Nat /\ at' \in Nat \ {0} /\ rest' \in Seq(Records)
         /\ first' \in Seq(Calls) /\ extra' \in Seq([call : Calls, into : CallIDs]) /\ perRequest' \in Nat
<1>1. /\ limit \in Nat /\ at \in Nat \ {0} /\ rest \in Seq(Records)
      /\ first \in Seq(Calls) /\ extra \in Seq([call : Calls, into : CallIDs]) /\ perRequest \in Nat
  BY DEF IInv, Types
<1>2. CASE PlanSplit
  <2>1. Limit("objects") \in Nat
    BY LimitIsNat DEF IInv
  <2>2. limit' \in Nat
    BY <2>1, <1>2 DEF PlanSplit
  <2>3. r.calls \in Seq(Calls)
    BY CallsTyped DEF IInv, Types
  <2>4. first' = r.calls /\ extra' = <<>> /\ perRequest' = 0 /\ at' = 1 /\ rest' = <<>>
    BY <1>2 DEF PlanSplit
  <2> QED BY <2>2, <2>3, <2>4
<1>3. CASE SplitCall
  <2>1. limit' = limit /\ extra' = extra /\ perRequest' = perRequest
    BY <1>3 DEF SplitCall
  <2>2. Types /\ PlanCovers
    BY DEF IInv, Whole
  <2>3. CASE Splittable(r.calls[at])
    <3>1. at \in 1..Len(first) /\ rest' \in Seq(Records)
      BY <1>3, <2>2, <2>3, SplitTyped
    <3>2. \E c \in Calls : first' = [first EXCEPT ![at] = c]
      BY <1>3, <2>2, <2>3, SplitTyped
    <3>3. first' \in Seq(Calls)
      BY <1>1, <3>1, <3>2, ExceptSeq
    <3>4. at' = at + 1
      BY <1>3, <2>2, SplitTyped
    <3> QED BY <1>1, <2>1, <3>1, <3>3, <3>4
  <2>4. CASE ~Splittable(r.calls[at])
    <3>1. at' = at + 1 /\ first' = first /\ rest' = <<>>
      BY <1>3, <2>2, <2>4, SplitTyped
    <3> QED BY <1>1, <2>1, <3>1
  <2> QED BY <2>3, <2>4
<1>4. CASE SplitRest
  <2>1. limit' = limit /\ first' = first /\ perRequest' = perRequest /\ at' = at
    BY <1>4 DEF SplitRest
  <2>2. rest' \in Seq(Records) /\ \E new \in [call : Calls, into : CallIDs] : extra' = Append(extra, new)
    BY <1>4, RestTyped DEF IInv, Whole
  <2> QED BY <1>1, <2>1, <2>2
<1>5. CASE GroupParts
  <2>1. Limit("calls") \in Nat
    BY LimitIsNat DEF IInv
  <2>2. perRequest' \in Nat
    BY <1>1, <1>5, <2>1 DEF GroupParts, PerRequest, Lesser
  <2> QED BY <1>1, <1>5, <2>2 DEF GroupParts
<1>6. CASE UNCHANGED plan
  BY <1>1, <1>6 DEF plan
<1> QED BY <1>2, <1>3, <1>4, <1>5, <1>6
        DEF Next, Do, Begin, ResolveAPIURL, Planned, Post, PostFails, PostReturns, JoinSplit, ServeCall,
            OthersChange, SessionChanges, SessionRefreshed

(* Where a part is joined: its answer is that of the call in its place, and*)
(* is joined onto that of the call it belongs to.                          *)
LEMMA ChunkIs ==
  ASSUME IInv, JoinSplit
  PROVE  /\ joined + 1 \in DOMAIN extra /\ start < joined + 1 /\ joined + 1 <= PartEnd /\ posted
         /\ errs \subseteq InJoining
         /\ extra[joined + 1] \in [call : Calls, into : CallIDs]
<1>1. pc = "joining" /\ posted /\ joined < PartEnd /\ start <= joined /\ errs \subseteq InJoining
  BY DEF IInv, Whole, Sending, Ending, JoinSplit
<1>2. start \in Nat /\ joined \in Nat /\ extra \in Seq([call : Calls, into : CallIDs])
  BY DEF IInv, Types
<1>3. PartEnd \in Nat /\ PartEnd <= Len(extra)
  BY <1>1, TowardIs DEF IInv, Whole
<1>4. joined + 1 \in 1..Len(extra) /\ start < joined + 1 /\ joined + 1 <= PartEnd
  BY <1>1, <1>2, <1>3
<1>5. extra[joined + 1] \in [call : Calls, into : CallIDs]
  BY <1>2, <1>4, ElementOfSeq
<1> QED BY <1>1, <1>2, <1>4, <1>5

LEMMA JoinTyped ==
  ASSUME IInv, JoinSplit
  PROVE  /\ resp' \in Seq(Answers) /\ Len(resp') = Len(resp)
         /\ joined' \in Nat /\ start' \in Nat
<1> DEFINE chunk == extra[joined + 1]
           i == Find(chunk.into, resp)
           a == got[Find(chunk.call.id, got)]
<1>1. resp \in Seq(Answers) /\ got \in Seq(Answers) /\ joined \in Nat /\ start \in Nat
  BY DEF IInv, Types
<1>2. resp' = JoinChunk(chunk).resp /\ joined' = joined + 1 /\ start' \in {start, joined + 1}
  BY DEF JoinSplit
<1>3. CASE Answered(chunk.call.id, got) /\ Answered(chunk.into, resp)
  <2>1. i \in DOMAIN resp /\ a \in Answers
    <3>1. Find(chunk.call.id, got) \in DOMAIN got /\ i \in DOMAIN resp
      BY <1>1, <1>3, FindIs
    <3> QED BY <1>1, <3>1
  <2>2. i \in 1..Len(resp) /\ resp[i] \in Answers
    BY <1>1, <2>1
  <2>3. Joined(resp[i], a) \in Answers
    BY <2>1, <2>2, JoinedIs
  <2>4. resp' = [resp EXCEPT ![i] = Joined(resp[i], a)]
    BY <1>2, <1>3 DEF JoinChunk
  <2> HIDE DEF i, a
  <2> QED BY <1>1, <1>2, <2>2, <2>3, <2>4, ExceptSeq
<1>4. CASE ~(Answered(chunk.call.id, got) /\ Answered(chunk.into, resp))
  <2>1. resp' = resp
    BY <1>2, <1>4 DEF JoinChunk
  <2> QED BY <1>1, <1>2, <2>1
<1> QED BY <1>3, <1>4

LEMMA TypesKept == ASSUME IInv, Next PROVE Types'
<1>1. Types
  BY DEF IInv
<1>2. /\ start \in Nat /\ joined \in Nat /\ posted \in BOOLEAN
      /\ sent \in Seq(Calls) /\ got \in Seq(Answers) /\ resp \in Seq(Answers)
  BY <1>1 DEF Types
<1>3. SUFFICES /\ start' \in Nat /\ joined' \in Nat /\ posted' \in BOOLEAN
               /\ sent' \in Seq(Calls) /\ got' \in Seq(Answers) /\ resp' \in Seq(Answers)
  BY <1>1, ServerTyped, PlanTyped DEF Types
<1>4. CASE Post
  <2>1. Toward \in Seq(Calls)
    BY <1>4, TowardIs DEF Post, IInv, Whole
  <2>2. (sent' = sent \/ sent' = Toward) /\ (got' = got \/ got' = <<>>)
    BY <1>4 DEF Post, wire
  <2>3. sent' \in Seq(Calls) /\ got' \in Seq(Answers)
    <3>1. <<>> \in Seq(Answers)
      OBVIOUS
    <3> QED BY <1>2, <2>1, <2>2, <3>1
  <2>4. UNCHANGED <<place, resp>>
    BY <1>4 DEF Post
  <2> QED BY <1>2, <2>3, <2>4 DEF place
<1>5. CASE PostReturns
  <2>1. resp' \in {resp, got} /\ posted' \in BOOLEAN
    BY <1>2, <1>5 DEF PostReturns
  <2> QED BY <1>2, <1>5, <2>1 DEF PostReturns, wire
<1>6. CASE JoinSplit
  BY <1>2, <1>6, JoinTyped DEF JoinSplit, wire
<1>7. CASE ServeCall
  <2>1. \E a \in Answers : got' = Append(got, a)
    BY <1>7, ServedIs
  <2> QED BY <1>2, <1>7, <2>1 DEF ServeCall, place
<1>8. CASE UNCHANGED <<place, wire, resp>>
  BY <1>2, <1>8 DEF place, wire
<1> QED BY <1>4, <1>5, <1>6, <1>7, <1>8
        DEF Next, Do, Begin, ResolveAPIURL, PlanSplit, SplitCall, SplitRest, Planned, GroupParts, PostFails,
            OthersChange, SessionChanges, SessionRefreshed

-----------------------------------------------------------------------------
(* The calls that are sent cover what was asked for.                       *)

LEMMA PlanSplitKeeps == ASSUME IInv, PlanSplit PROVE PlanCovers'
<1>1. /\ first' = r.calls /\ extra' = <<>> /\ at' = 1 /\ rest' = <<>> /\ r' = r
      /\ pc' = "splitting" => limit' > 0
  BY DEF PlanSplit, Goto
<1>2. DOMAIN r.calls = 1..Len(r.calls) /\ r.calls \in Seq(Calls) /\ \A i \in DOMAIN r.calls : r.calls[i] \in Calls
  BY CallsTyped DEF IInv, Types
<1>3. Len(extra') = 0 /\ DOMAIN extra' = {}
  BY <1>1
<1>4. ASSUME NEW i \in DOMAIN r.calls
      PROVE  /\ first'[i] = [r.calls[i] EXCEPT !.ids = first'[i].ids]
             /\ ToSet(r.calls[i].ids) = Asked(i, 0)'
             /\ first'[i].ids = r.calls[i].ids /\ first'[i] = r.calls[i]
  <2>1. first'[i] = r.calls[i] /\ r.calls[i] \in Calls
    BY <1>1, <1>2
  <2>2. r.calls[i] = [r.calls[i] EXCEPT !.ids = r.calls[i].ids]
    BY <2>1 DEF Calls
  <2>3. PartsAsk(extra', 0, r.calls[i].id) = {}
    BY PartsOfNone
  <2> QED BY <1>1, <2>1, <2>2, <2>3 DEF Asked
<1>5. ~ (\E i \in DOMAIN r.calls : i = at' - 1)
  BY <1>1, <1>2
<1>6. FirstCovers'
  BY <1>1, <1>3, <1>4, <1>5 DEF FirstCovers
<1> QED BY <1>1, <1>3, <1>6 DEF PlanCovers, PartsApart, RestOfOne

LEMMA SplitCallKeeps == ASSUME IInv, SplitCall PROVE PlanCovers'
<1> DEFINE n == Len(extra)
           c == r.calls[at]
           U(i) == PartsAsk(extra, n, r.calls[i].id)
           P(i) == PartOf(extra, n, r.calls[i].id)
<1>1. Types /\ PlanCovers /\ FirstCovers /\ PartsApart /\ RestOfOne /\ pc = "splitting" /\ InPlan /\ rest = <<>>
  BY DEF IInv, Whole, SplitCall, InPlan, PlanCovers
<1>2. /\ r' = r /\ extra' = extra /\ limit' = limit /\ limit > 0 /\ at' = at + 1 /\ pc' = pc
      /\ at \in DOMAIN r.calls /\ first[at] = c /\ c \in Calls
      /\ Len(first) = Len(r.calls) /\ DOMAIN first = DOMAIN r.calls /\ at' - 1 = at /\ at \in Nat
      /\ DOMAIN r.calls = 1..Len(r.calls) /\ r.calls \in Seq(Calls)
  <2>1. DOMAIN r.calls = 1..Len(r.calls) /\ r.calls \in Seq(Calls) /\ at \in Nat
    BY <1>1, CallsTyped DEF Types
  <2> QED BY <1>1, <2>1, SplitTyped DEF SplitCall
<1>3. /\ Len(first') = Len(first) /\ \A i \in DOMAIN r.calls : i # at => first'[i] = first[i]
      /\ first'[at] = [c EXCEPT !.ids = first'[at].ids]
      /\ ToSet(c.ids) = ToSet(first'[at].ids) \cup ToSet(rest')
      /\ first'[at].ids # c.ids => rest' # <<>>
      /\ rest' # <<>> => Plain(c)
  <2>1. CASE ~Splittable(c)
    <3>1. first' = first /\ rest' = <<>>
      BY <1>1, <2>1, SplitTyped
    <3>2. c = [c EXCEPT !.ids = c.ids] /\ ToSet(<<>>) = {}
      BY <1>2 DEF Calls, ToSet
    <3> QED BY <1>2, <3>1, <3>2
  <2>2. CASE Splittable(c)
    <3> DEFINE some == SubSeq(c.ids, 1, limit)
    <3>1. /\ Plain(c) /\ first' = [first EXCEPT ![at] = [c EXCEPT !.ids = some]]
          /\ [c EXCEPT !.ids = some] \in Calls /\ rest' # <<>>
          /\ ToSet(c.ids) = ToSet(some) \cup ToSet(rest')
      BY <1>1, <2>2, SplitTyped
    <3> HIDE DEF some
    <3>2. first'[at] = [c EXCEPT !.ids = some] /\ \A i \in DOMAIN r.calls : i # at => first'[i] = first[i]
      BY <1>2, <3>1
    <3>3. first'[at].ids = some
      BY <1>2, <3>2 DEF Calls
    <3>4. Len(first') = Len(first)
      BY <1>1, <1>2, <3>1 DEF Types
    <3> QED BY <3>1, <3>2, <3>3, <3>4
  <2> QED BY <2>1, <2>2
<1>4. \A i : Asked(i, n) = ToSet(first[i].ids) \cup U(i) /\ Asked(i, Len(extra))' = ToSet(first'[i].ids) \cup U(i)
  BY <1>2 DEF Asked
<1>5. \A i : P(i) = PartOf(extra, n, r.calls[i].id) /\ P(i) = PartOf(extra', Len(extra'), r'.calls[i].id)
  BY <1>2
<1>6. ToSet(rest) = {} /\ ~(rest # <<>>)
  BY <1>1 DEF ToSet
<1>7. ASSUME NEW i \in DOMAIN r.calls
      PROVE  /\ first[i] = [r.calls[i] EXCEPT !.ids = first[i].ids]
             /\ ToSet(r.calls[i].ids) = Asked(i, n)
             /\ first[i].ids # r.calls[i].ids => P(i) # {}
             /\ i >= at => first[i] = r.calls[i]
  BY <1>1, <1>6 DEF FirstCovers
<1> HIDE DEF c, U, P, n
<1>8. ASSUME NEW i \in DOMAIN r.calls
      PROVE  /\ first'[i] = [r.calls[i] EXCEPT !.ids = first'[i].ids]
             /\ ToSet(r.calls[i].ids) = Asked(i, Len(extra))' \cup (IF i = at THEN ToSet(rest') ELSE {})
             /\ first'[i].ids # r.calls[i].ids => P(i) # {} \/ (i = at /\ rest' # <<>>)
             /\ i >= at + 1 => first'[i] = r.calls[i]
  <2>1. CASE i = at
    <3>1. c = r.calls[i]
      BY <2>1 DEF c
    <3>2. ToSet(c.ids) = ToSet(first[i].ids) \cup U(i)
      BY <1>4, <1>7, <3>1, Zenon
    <3>3. Asked(i, Len(extra))' = ToSet(first'[i].ids) \cup U(i)
      BY <1>4
    <3>4. ToSet(c.ids) = Asked(i, Len(extra))' \cup ToSet(rest')
      BY <1>3, <2>1, <3>2, <3>3
    <3> QED BY <1>2, <1>3, <2>1, <3>1, <3>4
  <2>2. CASE i # at
    <3>1. first'[i] = first[i] /\ i \in Nat
      BY <1>2, <1>3, <2>2
    <3>2. Asked(i, Len(extra))' = Asked(i, n)
      BY <1>4, <3>1, Zenon
    <3>3. ToSet(r.calls[i].ids) = Asked(i, Len(extra))' \cup (IF i = at THEN ToSet(rest') ELSE {})
      <4>1. ToSet(r.calls[i].ids) = Asked(i, Len(extra))'
        BY <1>7, <3>2, Zenon
      <4> QED BY <4>1, <2>2
    <3>4. i >= at + 1 => i >= at
      BY <1>2, <3>1
    <3>5. /\ first[i] = [r.calls[i] EXCEPT !.ids = first[i].ids]
          /\ first[i].ids # r.calls[i].ids => P(i) # {}
          /\ i >= at => first[i] = r.calls[i]
      BY <1>7
    <3> QED BY <3>1, <3>3, <3>4, <3>5
  <2> QED BY <2>1, <2>2
<1>9. FirstCovers'
  <2>1. Len(first') = Len(r'.calls) /\ DOMAIN r'.calls = DOMAIN r.calls
    BY <1>2, <1>3
  <2> QED BY <1>2, <1>5, <1>8, <2>1 DEF FirstCovers
<1>10. PartsApart'
  BY <1>1, <1>2 DEF PartsApart
<1>11. RestOfOne'
  BY <1>1, <1>2, <1>3 DEF RestOfOne, c
<1> QED BY <1>9, <1>10, <1>11 DEF PlanCovers

LEMMA SplitRestKeeps == ASSUME IInv, SplitRest PROVE PlanCovers'
<1> DEFINE n == Len(extra)
           c == r.calls[at - 1]
<1>1. Types /\ PlanCovers /\ FirstCovers /\ PartsApart /\ RestOfOne /\ pc = "splitting" /\ InPlan /\ rest # <<>>
  BY DEF IInv, Whole, SplitRest, InPlan, PlanCovers
<1>2. PICK new \in [call : Calls, into : CallIDs], width \in 1..limit :
        /\ at - 1 \in DOMAIN r.calls /\ Plain(c) /\ extra' = Append(extra, new)
        /\ new.into = c.id /\ Plain(new.call) /\ new.call.id \notin Taken
        /\ Len(new.call.ids) = width
        /\ rest' \in Seq(Records) /\ ToSet(rest) = ToSet(new.call.ids) \cup ToSet(rest')
  BY <1>1, RestTyped
<1>3. r' = r /\ first' = first /\ at' = at /\ limit' = limit /\ pc' = pc
  BY DEF SplitRest
<1>4. \A i, j \in DOMAIN r.calls : r.calls[i].id = r.calls[j].id => i = j
  BY <1>1, CallsTyped DEF Types
<1>5. /\ n \in Nat /\ Len(extra') = n + 1 /\ DOMAIN extra = 1..n /\ DOMAIN extra' = 1..(n + 1)
      /\ extra'[n + 1] = new /\ \A j \in 1..n : extra'[j] = extra[j]
  BY <1>1, <1>2 DEF Types
<1>6. ASSUME NEW id
      PROVE  /\ PartOf(extra', n + 1, id) = PartOf(extra, n, id) \cup (IF c.id = id THEN {n + 1} ELSE {})
             /\ PartsAsk(extra', n + 1, id) = PartsAsk(extra, n, id) \cup (IF c.id = id THEN ToSet(new.call.ids) ELSE {})
  <2>1. PartOf(extra', n, id) = PartOf(extra, n, id) /\ PartsAsk(extra', n, id) = PartsAsk(extra, n, id)
    <3> HIDE DEF n
    <3> QED BY <1>5, PartsSame
  <2>2. /\ PartOf(extra', n + 1, id) = PartOf(extra', n, id) \cup (IF extra'[n + 1].into = id THEN {n + 1} ELSE {})
        /\ PartsAsk(extra', n + 1, id) =
             PartsAsk(extra', n, id) \cup (IF extra'[n + 1].into = id THEN ToSet(extra'[n + 1].call.ids) ELSE {})
    BY <1>5, PartsOfNext
  <2> QED BY <1>2, <1>5, <2>1, <2>2
<1>7. ASSUME NEW i \in DOMAIN r.calls
      PROVE  /\ first[i] = [r.calls[i] EXCEPT !.ids = first[i].ids]
             /\ ToSet(r.calls[i].ids) =
                  (ToSet(first[i].ids) \cup PartsAsk(extra, n, r.calls[i].id))
                    \cup (IF i = at - 1 THEN ToSet(rest) ELSE {})
             /\ first[i].ids # r.calls[i].ids => PartOf(extra, n, r.calls[i].id) # {} \/ i = at - 1
             /\ i >= at => first[i] = r.calls[i]
  BY <1>1 DEF FirstCovers, Asked
<1>8. ASSUME NEW i \in DOMAIN r.calls
      PROVE  /\ ToSet(r.calls[i].ids) =
                  (ToSet(first[i].ids) \cup PartsAsk(extra', n + 1, r.calls[i].id))
                     \cup (IF i = at - 1 THEN ToSet(rest') ELSE {})
             /\ first[i].ids # r.calls[i].ids => PartOf(extra', n + 1, r.calls[i].id) # {}
  <2>1. CASE i = at - 1
    <3>1. c.id = r.calls[i].id
      BY <2>1
    <3>2. /\ PartsAsk(extra', n + 1, r.calls[i].id) = PartsAsk(extra, n, r.calls[i].id) \cup ToSet(new.call.ids)
          /\ PartOf(extra', n + 1, r.calls[i].id) # {}
      BY <1>6, <3>1
    <3> HIDE DEF c, n
    <3> QED BY <1>2, <1>7, <2>1, <3>2
  <2>2. CASE i # at - 1
    <3>1. c.id # r.calls[i].id
      BY <1>2, <1>4, <2>2
    <3>2. /\ PartsAsk(extra', n + 1, r.calls[i].id) = PartsAsk(extra, n, r.calls[i].id)
          /\ PartOf(extra', n + 1, r.calls[i].id) = PartOf(extra, n, r.calls[i].id)
      BY <1>6, <3>1
    <3> HIDE DEF c, n
    <3> QED BY <1>7, <2>2, <3>2
  <2> QED BY <2>1, <2>2
<1> HIDE DEF c
<1>9. FirstCovers'
  BY <1>1, <1>3, <1>5, <1>7, <1>8 DEF FirstCovers, Asked
<1>10. PartsApart'
  <2>1. ASSUME NEW k \in 1..(n + 1)
        PROVE  /\ Plain(extra'[k].call)
               /\ \E i \in DOMAIN r.calls : extra'[k].into = r.calls[i].id /\ Plain(r.calls[i])
    <3>1. CASE k = n + 1
      BY <1>2, <1>5, <3>1 DEF c
    <3>2. CASE k \in 1..n
      BY <1>1, <1>5, <3>2 DEF PartsApart
    <3> QED BY <1>5, <3>1, <3>2
  <2>2. \A k \in 1..n : extra[k].call.id # new.call.id
    BY <1>2, <1>5 DEF Taken
  <2>3. ASSUME NEW k \in 1..(n + 1), NEW l \in 1..(n + 1), extra'[k].call.id = extra'[l].call.id
        PROVE  k = l
    <3>1. CASE k \in 1..n /\ l \in 1..n
      BY <1>1, <1>5, <2>3, <3>1 DEF PartsApart
    <3>2. CASE k = n + 1 \/ l = n + 1
      <4>1. ~(k \in 1..n /\ l = n + 1) /\ ~(l \in 1..n /\ k = n + 1)
        BY <1>5, <2>2, <2>3
      <4>2. (k \in 1..n \/ k = n + 1) /\ (l \in 1..n \/ l = n + 1)
        BY <1>5
      <4> QED BY <3>2, <4>1, <4>2
    <3> QED BY <1>5, <3>1, <3>2
  <2> QED BY <1>3, <1>5, <2>1, <2>3 DEF PartsApart
<1>11. RestOfOne'
  BY <1>1, <1>3 DEF RestOfOne
<1> QED BY <1>9, <1>10, <1>11 DEF PlanCovers

LEMMA PlanKept == ASSUME IInv, Next PROVE PlanCovers'
<1>1. PlanCovers /\ Ending /\ (InPlan /\ pc # "splitting" => rest = <<>>)
  BY DEF IInv, Whole, PlanCovers, RestOfOne
<1>2. CASE Begin \/ ResolveAPIURL
  <2>1. ~posted /\ posted' = posted
    BY <1>1, <1>2 DEF Ending, Begin, ResolveAPIURL, place
  <2>2. pc' \notin {"splitting", "grouping", "posting", "sent", "joining"}
    BY <1>2 DEF Begin, ResolveAPIURL, Return, Goto
  <2> QED BY <2>1, <2>2 DEF PlanCovers, InPlan
<1>3. CASE Planned \/ GroupParts
  <2>1. /\ r' = r /\ limit' = limit /\ at' = at /\ rest' = rest /\ first' = first /\ extra' = extra
        /\ InPlan /\ pc' # "splitting" /\ rest = <<>>
    BY <1>1, <1>3 DEF Planned, GroupParts, Goto, plan, InPlan
  <2> QED BY <1>1, <2>1, PlanFrame
<1>4. CASE Post \/ PostFails \/ PostReturns \/ JoinSplit
  <2>1. /\ r' = r /\ limit' = limit /\ at' = at /\ rest' = rest /\ first' = first /\ extra' = extra
        /\ InPlan /\ pc # "splitting"
    BY <1>4 DEF Post, PostFails, PostReturns, JoinSplit, plan, InPlan
  <2>2. pc' # "splitting"
    BY <1>4 DEF Post, PostFails, PostReturns, JoinSplit, Return, Goto
  <2> QED BY <1>1, <2>1, <2>2, PlanFrame
<1>5. CASE ServeCall \/ OthersChange \/ SessionChanges \/ SessionRefreshed
  <2>1. /\ r' = r /\ limit' = limit /\ at' = at /\ rest' = rest /\ first' = first /\ extra' = extra
        /\ pc' = pc /\ posted' = posted
    BY <1>5 DEF ServeCall, OthersChange, SessionChanges, SessionRefreshed, plan, place
  <2>2. InPlan' => InPlan
    BY <2>1 DEF InPlan
  <2> QED BY <1>1, <2>1, <2>2, PlanFrame
<1> QED BY <1>2, <1>3, <1>4, <1>5, PlanSplitKeeps, SplitCallKeeps, SplitRestKeeps DEF Next, Do

-----------------------------------------------------------------------------
(* Where the parts are, and what is on the way.                            *)

LEMMA PostKeeps == ASSUME IInv, Post PROVE Sending'
<1>1. Types /\ Sending /\ pc = "posting" /\ UNCHANGED <<plan, place, past, began>>
  BY DEF IInv, Whole, Post, server
<1>2. Toward' = Toward /\ PartEnd' = PartEnd /\ posted' = posted /\ start' = start /\ joined' = joined
      /\ extra' = extra /\ perRequest' = perRequest
  BY <1>1 DEF Toward, PartEnd, plan, place
<1>3. pc' = "returned" \/ (pc' = "sent" /\ sent' = Toward /\ got' = <<>>)
  BY DEF Post, Return, Goto
<1>4. Toward \in Seq(Calls)
  BY <1>1, TowardIs
<1>5. got' = <<>> => Len(got') = 0 /\ DOMAIN got' = {}
  OBVIOUS
<1>6. sent' = Toward /\ got' = <<>> => Len(got') <= Len(sent')
  BY <1>4, <1>5
<1> QED BY <1>1, <1>2, <1>3, <1>5, <1>6 DEF Sending

LEMMA PostReturnsKeeps == ASSUME IInv, PostReturns PROVE Sending' /\ Ending'
<1>1. Types /\ Sending /\ Ending /\ pc = "sent" /\ UNCHANGED <<plan, start, joined, wire, past, began>>
  BY DEF IInv, Whole, PostReturns, server
<1>2. joined = start /\ extra \in Seq([call : Calls, into : CallIDs]) /\ errs \subseteq InJoining
  BY <1>1 DEF Sending, Types, Ending
<1>3. CASE posted
  <2>1. pc' = "joining" /\ posted' = posted /\ errs' = errs
    BY <1>3 DEF PostReturns, Goto
  <2>2. start < PartEnd
    BY <1>1, <1>3, TowardIs
  <2>3. Toward' = Toward /\ PartEnd' = PartEnd
    BY <1>1, <2>1 DEF Toward, PartEnd, plan
  <2> QED BY <1>1, <1>2, <1>3, <2>1, <2>2, <2>3 DEF Sending, Ending, plan, wire
<1>4. CASE ~posted
  <2>1. posted' = TRUE /\ (IF extra = <<>> THEN Return(Outcome(got, errs)) ELSE Goto("posting"))
    BY <1>4 DEF PostReturns
  <2>2. start = 0 /\ joined = 0
    BY <1>1, <1>4 DEF Sending
  <2>3. CASE extra = <<>>
    <3>1. pc' = "returned" /\ Len(extra) = 0
      BY <2>1, <2>3 DEF Return
    <3> QED BY <1>1, <2>1, <2>2, <3>1 DEF Sending, Ending, plan
  <2>4. CASE extra # <<>>
    <3>1. pc' = "posting" /\ Len(extra) > 0 /\ errs' = errs
      BY <1>2, <2>1, <2>4 DEF Goto
    <3> QED BY <1>1, <1>2, <2>1, <2>2, <3>1 DEF Sending, Ending, plan
  <2> QED BY <2>3, <2>4
<1> QED BY <1>3, <1>4

LEMMA JoinSplitKeeps == ASSUME IInv, JoinSplit PROVE Sending' /\ Ending'
<1>1. /\ Types /\ Sending /\ pc = "joining" /\ posted /\ joined < PartEnd /\ start <= joined
      /\ UNCHANGED <<plan, posted, wire, past, began>>
  BY DEF IInv, Whole, Sending, JoinSplit, server
<1>2. posted'
  <2>1. posted' = posted
    BY <1>1, Zenon
  <2>2. posted = TRUE \/ posted = FALSE
    BY <1>1 DEF Types
  <2> QED BY <1>1, <2>1, <2>2
<1>3. PartEnd \in Nat /\ PartEnd <= Len(extra) /\ start \in Nat /\ joined \in Nat /\ Len(extra) \in Nat
  BY <1>1, TowardIs DEF Types
<1>4. joined' = joined + 1 /\ start' = IF joined' = PartEnd THEN joined' ELSE start
  BY DEF JoinSplit
<1>5. \/ pc' = "joining" /\ joined' < PartEnd
      \/ pc' = "posting" /\ ~(joined' < PartEnd) /\ joined' < Len(extra)
      \/ pc' = "returned" /\ ~(joined' < Len(extra))
  <2>1. ~(joined' < PartEnd) /\ ~(joined' < Len(extra)) => pc' = "returned"
    BY DEF JoinSplit, Return
  <2>2. joined' < PartEnd => pc' = "joining"
    BY DEF JoinSplit
  <2>3. ~(joined' < PartEnd) /\ joined' < Len(extra) => pc' = "posting"
    BY DEF JoinSplit
  <2> QED BY <1>3, <1>4, <2>1, <2>2, <2>3
<1>6. pc' # "returned" => errs' \subseteq InJoining
  <2>1. JoinChunk(extra[joined + 1]).errs \subseteq InJoining
    BY ChunkIs DEF JoinChunk, InJoining
  <2>2. pc' # "returned" => errs' = JoinChunk(extra[joined + 1]).errs
    BY DEF JoinSplit, Return
  <2> QED BY <2>1, <2>2
<1>7. Ending'
  <2>1. pc' = "returned" => joined' = Len(extra)
    BY <1>1, <1>3, <1>4, <1>5
  <2> QED BY <1>1, <1>5, <1>6, <2>1 DEF Ending, plan
<1>8. CASE pc' = "joining"
  <2>1. joined' < PartEnd /\ start' = start
    BY <1>3, <1>4, <1>5, <1>8
  <2>2. Toward' = Toward /\ PartEnd' = PartEnd
    BY <1>1, <2>1 DEF Toward, PartEnd, plan
  <2>3. /\ extra # <<>> => perRequest >= 1
        /\ start < Len(extra)
        /\ sent = Toward /\ Len(got) <= Len(sent) /\ \A m \in DOMAIN got : AnswerTo(got[m], sent[m], began, past)
    BY <1>1 DEF Sending
  <2> QED BY <1>1, <1>3, <1>4, <1>7, <1>8, <1>2, <2>1, <2>2, <2>3 DEF Sending, plan, wire
<1>9. CASE pc' = "posting"
  <2>1. joined' = PartEnd /\ start' = joined' /\ joined' < Len(extra)
    BY <1>1, <1>3, <1>4, <1>5, <1>9
  <2>2. extra # <<>> => perRequest >= 1
    BY <1>1 DEF Sending
  <2> QED BY <1>1, <1>3, <1>7, <1>9, <1>2, <2>1, <2>2 DEF Sending, plan
<1>10. CASE pc' = "returned"
  BY <1>7, <1>10, <1>2 DEF Sending
<1> QED BY <1>5, <1>7, <1>8, <1>9, <1>10

LEMMA ServeCallKeeps == ASSUME IInv, ServeCall PROVE Sending'
<1>1. /\ Types /\ Sending /\ pc = "sent" /\ pc' = pc /\ UNCHANGED <<plan, place, sent, began>> /\ Len(got) < Len(sent)
  BY DEF IInv, Whole, ServeCall
<1>2. PICK a \in Answers : /\ got' = Append(got, a)
                           /\ a.id = sent[Len(got) + 1].id /\ a.name \in {"error", sent[Len(got) + 1].name}
                           /\ a.name = "get" /\ sent[Len(got) + 1].ref = NoRef =>
                                a.state = State /\ Of(a, ToSet(sent[Len(got) + 1].ids), past)
  BY ServedIs
<1>3. /\ got \in Seq(Answers) /\ sent \in Seq(Calls) /\ Len(got) \in Nat /\ Len(sent) \in Nat
      /\ began \in 1..State /\ State \in Nat
  BY <1>1 DEF Types, State
<1>4. Len(got') = Len(got) + 1 /\ DOMAIN got' = 1..(Len(got) + 1) /\ got'[Len(got) + 1] = a
      /\ \A m \in 1..Len(got) : got'[m] = got[m]
  BY <1>2, <1>3
<1>5. \A s \in began..Len(past) : s \in began..Len(past') /\ past'[s] = past[s]
  <2>1. past' \in Seq(SUBSET Records) /\ Extends(past', past)
    BY <1>1, PastKept DEF Next
  <2>2. past \in Seq(SUBSET Records) /\ began \in Nat \ {0}
    BY <1>1 DEF Types, State
  <2> QED BY <2>1, <2>2, AnswerKept
<1>6. ASSUME NEW b, NEW c, AnswerTo(b, c, began, past) PROVE AnswerTo(b, c, began, past')
  <2>1. SUFFICES ASSUME b.name = "get", c.ref = NoRef
                 PROVE  b.state \in began..Len(past') /\ Of(b, ToSet(c.ids), past')
    BY <1>6 DEF AnswerTo
  <2>2. b.state \in began..Len(past) /\ Of(b, ToSet(c.ids), past)
    BY <1>6, <2>1 DEF AnswerTo
  <2> QED BY <1>5, <2>2 DEF Of
<1>7. AnswerTo(a, sent[Len(got) + 1], began, past)
  BY <1>2, <1>3 DEF AnswerTo, State
<1>8. \A m \in DOMAIN got : AnswerTo(got[m], sent[m], began, past)
  BY <1>1 DEF Sending
<1>9. ASSUME NEW m \in 1..(Len(got) + 1) PROVE AnswerTo(got'[m], sent[m], began, past')
  <2>1. CASE m = Len(got) + 1
    BY <1>4, <1>6, <1>7, <2>1
  <2>2. CASE m \in 1..Len(got)
    <3>1. got'[m] = got[m] /\ m \in DOMAIN got
      BY <1>3, <1>4, <2>2
    <3>2. AnswerTo(got[m], sent[m], began, past)
      BY <1>8, <3>1
    <3> QED BY <1>6, <3>1, <3>2
  <2> QED BY <1>3, <2>1, <2>2
<1>10. Toward' = Toward /\ PartEnd' = PartEnd
  BY <1>1 DEF Toward, PartEnd, plan, place
<1>11. Len(got') <= Len(sent)
  BY <1>1, <1>3, <1>4
<1> QED BY <1>1, <1>4, <1>9, <1>10, <1>11 DEF Sending, plan, place

LEMMA SendingKept == ASSUME IInv, Next PROVE Sending' /\ Ending'
<1>1. Types /\ Sending /\ Ending
  BY DEF IInv, Whole
<1>2. CASE Begin \/ ResolveAPIURL \/ PlanSplit \/ SplitCall \/ SplitRest \/ Planned \/ GroupParts
  <2>1. pc \in {"called", "resolving", "planning", "splitting", "grouping"} /\ posted' = posted
        /\ start' = start /\ joined' = joined
    BY <1>2 DEF Begin, ResolveAPIURL, PlanSplit, SplitCall, SplitRest, Planned, GroupParts, place
  <2>2. ~posted /\ start = 0 /\ joined = 0 /\ errs \subseteq InJoining
    BY <1>1, <2>1 DEF Ending, Sending
  <2>3. pc' \notin {"sent", "joining"}
    BY <1>2 DEF Begin, ResolveAPIURL, PlanSplit, SplitCall, SplitRest, Planned, GroupParts, Return, Goto
  <2>4. /\ pc' # "returned" => errs' = errs
        /\ pc' = "returned" => errs' \in {{"encoding"}, {"session"}, {"preflight"}}
    BY <1>2, <2>1 DEF Begin, ResolveAPIURL, PlanSplit, SplitCall, SplitRest, Planned, GroupParts, Return, Goto
  <2>5. pc' = "posting" /\ extra' # <<>> => perRequest' >= 1
    <3>1. CASE Begin \/ ResolveAPIURL \/ PlanSplit \/ SplitCall \/ SplitRest \/ Planned
      BY <2>1, <3>1 DEF Begin, ResolveAPIURL, PlanSplit, SplitCall, SplitRest, Planned, Return, Goto, plan
    <3>2. CASE GroupParts
      <4>1. Limit("calls") \in Nat /\ extra \in Seq([call : Calls, into : CallIDs])
        BY <1>1, LimitIsNat DEF Types
      <4>2. extra' = extra /\ perRequest' = PerRequest(Limit("calls"))
        BY <3>2 DEF GroupParts
      <4>3. extra # <<>> => Len(extra) >= 1 /\ Len(extra) \in Nat
        BY <4>1
      <4> QED BY <4>1, <4>2, <4>3 DEF PerRequest, Lesser
    <3> QED BY <1>2, <3>1, <3>2
  <2>6. extra' \in Seq([call : Calls, into : CallIDs])
    BY PlanTyped
  <2>7. Ending'
    BY <2>1, <2>2, <2>4 DEF Ending, InJoining
  <2> QED BY <2>1, <2>2, <2>3, <2>5, <2>6, <2>7 DEF Sending
<1>3. CASE Post
  <2>1. posted' = posted /\ (pc' # "returned" => errs' = errs /\ pc' = "sent")
        /\ (pc' = "returned" => errs' \in {{"encoding"}, {"size"}}) /\ errs \subseteq InJoining
    BY <1>1, <1>3 DEF Post, Return, Goto, Ending, place
  <2>2. Ending'
    BY <2>1 DEF Ending, InJoining
  <2> QED BY <1>3, <2>2, PostKeeps
<1>4. CASE PostFails
  <2>1. posted' = posted /\ start' = start /\ joined' = joined /\ pc' = "returned" /\ errs' = {"round trip"}
    BY <1>4 DEF PostFails, Return, place
  <2> QED BY <1>1, <2>1 DEF Sending, Ending, InJoining
<1>5. CASE ServeCall
  <2>1. Ending'
    BY <1>1, <1>5 DEF ServeCall, Ending, plan, place
  <2> QED BY <1>5, <2>1, ServeCallKeeps
<1>6. CASE OthersChange \/ SessionChanges \/ SessionRefreshed
  <2>1. UNCHANGED <<plan, place, wire, pc, began, errs>>
    BY <1>6 DEF OthersChange, SessionChanges, SessionRefreshed
  <2>2. Ending'
    BY <1>1, <2>1 DEF Ending, plan, place
  <2> QED BY <1>1, <2>1, <2>2, SendingFrame DEF plan, place, wire
<1> QED BY <1>2, <1>3, <1>4, <1>5, <1>6, PostReturnsKeeps, JoinSplitKeeps DEF Next, Do

-----------------------------------------------------------------------------
(* What has been joined.                                                   *)

(* The answer to the first request is what the parts are joined onto.      *)
LEMMA FirstJoined == ASSUME IInv, PostReturns, ~posted PROVE JoinedSoFar'
<1>1. /\ Types /\ Sending /\ FirstCovers /\ pc = "sent" /\ UNCHANGED <<r, plan, joined, past, began>>
      /\ resp' = got /\ joined = 0
  BY DEF IInv, Whole, PostReturns, server, Sending, PlanCovers, InPlan
<1>2. sent = first /\ Len(got) <= Len(first) /\ \A m \in DOMAIN got : AnswerTo(got[m], first[m], began, past)
  BY <1>1, TowardIs DEF Sending
<1>3. /\ got \in Seq(Answers) /\ first \in Seq(Calls) /\ Len(first) = Len(r.calls) /\ Len(got) \in Nat
      /\ DOMAIN r.calls = 1..Len(r.calls) /\ Len(r.calls) \in Nat /\ DOMAIN got = 1..Len(got)
      /\ \A i \in DOMAIN r.calls : r.calls[i] \in Calls /\ first[i] = [r.calls[i] EXCEPT !.ids = first[i].ids]
  BY <1>1, CallsTyped DEF Types, FirstCovers
<1>4. ASSUME NEW i \in DOMAIN got
      PROVE  /\ got[i].id = r.calls[i].id /\ got[i].name \in {"error", r.calls[i].name}
             /\ got[i].name = "get" /\ r.calls[i].ref = NoRef =>
                  got[i].state \in began..State /\ Of(got[i], Asked(i, 0), past)
  <2>1. i \in DOMAIN r.calls
    BY <1>2, <1>3
  <2>2. first[i].id = r.calls[i].id /\ first[i].name = r.calls[i].name /\ first[i].ref = r.calls[i].ref
    <3>1. r.calls[i] \in Calls /\ first[i] = [r.calls[i] EXCEPT !.ids = first[i].ids]
      BY <1>3, <2>1
    <3> DEFINE ids == first[i].ids
    <3> HIDE DEF ids
    <3>2. first[i] = [r.calls[i] EXCEPT !.ids = ids]
      BY <3>1 DEF ids
    <3> QED BY <3>1, <3>2 DEF Calls
  <2>3. Asked(i, 0) = ToSet(first[i].ids)
    BY PartsOfNone DEF Asked
  <2>4. AnswerTo(got[i], first[i], began, past)
    BY <1>2
  <2> QED BY <2>2, <2>3, <2>4 DEF AnswerTo, State
<1>5. \A i : Asked(i, joined)' = Asked(i, 0)
  BY <1>1 DEF Asked, plan
<1>6. \A a, ids : Of(a, ids, past) => ToSet(a.list) \cup ToSet(a.notFound) = ids
  BY DEF Of
<1>7. past' = past /\ began' = began /\ r' = r /\ joined' = 0 /\ State' = State /\ DOMAIN resp' = DOMAIN got
  BY <1>1 DEF State
<1>8. Len(resp') <= Len(r'.calls)
  BY <1>1, <1>2, <1>3
<1>9. \A i \in DOMAIN got :
        got[i].name = "get" /\ r.calls[i].ref = NoRef => ToSet(got[i].list) \cup ToSet(got[i].notFound) = Asked(i, 0)
  BY <1>4, <1>6
<1>10. 1..joined' = {}
  BY <1>7
<1> QED BY <1>1, <1>4, <1>5, <1>7, <1>8, <1>9, <1>10 DEF JoinedSoFar

(* The part whose turn it is has been answered, if at all, as its own call *)
(* asks, and belongs to a get of r's.                                      *)
LEMMA TurnIs ==
  ASSUME IInv, JoinSplit, Answered(extra[joined + 1].call.id, got)
  PROVE  LET c == extra[joined + 1].call
             a == got[Find(c.id, got)]
         IN  a \in Answers /\ (a.name = "error" \/ (a.state \in began..State /\ Of(a, ToSet(c.ids), past)))
<1> DEFINE k == joined + 1
           c == extra[k].call
           m == Find(c.id, got)
<1>1. /\ Types /\ Sending /\ PartsApart /\ pc = "joining" /\ posted
      /\ sent = Toward /\ Len(got) <= Len(sent) /\ \A n \in DOMAIN got : AnswerTo(got[n], sent[n], began, past)
  BY DEF IInv, Whole, Sending, JoinSplit, PlanCovers, InPlan
<1>2. /\ got \in Seq(Answers) /\ extra \in Seq([call : Calls, into : CallIDs]) /\ start \in Nat /\ Len(got) \in Nat
      /\ DOMAIN extra = 1..Len(extra) /\ Len(extra) \in Nat /\ DOMAIN got = 1..Len(got)
  BY <1>1 DEF Types
<1>3. /\ PartEnd \in Nat /\ start < PartEnd /\ PartEnd <= Len(extra) /\ Len(Toward) = PartEnd - start
      /\ \A n \in 1..(PartEnd - start) : Toward[n] = extra[start + n].call
  BY <1>1, TowardIs
<1>4. k \in DOMAIN extra
  BY ChunkIs
<1>5. m \in DOMAIN got /\ got[m].id = c.id
  BY <1>2, FindIs
<1> HIDE DEF m, c
<1>6. m \in 1..(PartEnd - start) /\ got[m] \in Answers
  BY <1>1, <1>2, <1>3, <1>5
<1>7. start + m \in 1..Len(extra) /\ sent[m] = extra[start + m].call
  BY <1>1, <1>2, <1>3, <1>6
<1>8. AnswerTo(got[m], sent[m], began, past)
  BY <1>1, <1>5
<1>9. extra[start + m].call.id = extra[k].call.id
  BY <1>5, <1>7, <1>8 DEF AnswerTo, c
<1>10. start + m = k
  BY <1>1, <1>2, <1>4, <1>7, <1>9 DEF PartsApart
<1>11. sent[m] = c
  BY <1>7, <1>10 DEF c
<1>12. Plain(c)
  BY <1>1, <1>4 DEF PartsApart, c
<1>13. /\ got[m].name \in {"error", "get"}
       /\ got[m].name = "get" => got[m].state \in began..Len(past) /\ Of(got[m], ToSet(c.ids), past)
  BY <1>8, <1>11, <1>12 DEF AnswerTo, Plain
<1> QED BY <1>6, <1>13 DEF m, c, State

(* The answers of two parts at one state are one answer.                   *)
LEMMA OfBoth ==
  ASSUME NEW t, NEW a, NEW j, NEW S, NEW T, NEW h,
         j.state = t.state, a.state = t.state,
         ToSet(j.list) = ToSet(t.list) \cup ToSet(a.list), ToSet(j.notFound) = ToSet(t.notFound) \cup ToSet(a.notFound),
         Of(t, S, h), Of(a, T, h)
  PROVE  Of(j, S \cup T, h)
BY DEF Of

LEMMA PartJoined == ASSUME IInv, JoinSplit PROVE JoinedSoFar'
<1> DEFINE k == joined + 1
           chunk == extra[k]
           i == Find(chunk.into, resp)
           a == got[Find(chunk.call.id, got)]
<1>1. /\ Types /\ JoinedSoFar /\ PartsApart /\ pc = "joining" /\ posted /\ errs \subseteq InJoining
      /\ UNCHANGED <<r, plan, past, began>>
  BY DEF IInv, Whole, Sending, Ending, JoinSplit, PlanCovers, InPlan, server
<1>2. /\ Len(resp) <= Len(r.calls)
      /\ \A l \in DOMAIN resp :
           /\ resp[l].id = r.calls[l].id /\ resp[l].name \in {"error", r.calls[l].name}
           /\ resp[l].name = "get" /\ r.calls[l].ref = NoRef =>
                /\ resp[l].state \in began..State
                /\ "unanswered" \notin errs => ToSet(resp[l].list) \cup ToSet(resp[l].notFound) = Asked(l, joined)
                /\ errs \cap InJoining = {} => Of(resp[l], Asked(l, joined), past)
      /\ "unanswered" \notin errs => \A j \in 1..joined : \E l \in DOMAIN resp : resp[l].id = extra[j].into
  BY <1>1 DEF JoinedSoFar
<1>3. /\ resp \in Seq(Answers) /\ joined \in Nat /\ DOMAIN resp = 1..Len(resp) /\ Len(resp) \in Nat
      /\ DOMAIN r.calls = 1..Len(r.calls) /\ Len(r.calls) \in Nat
      /\ \A l, m \in DOMAIN r.calls : r.calls[l].id = r.calls[m].id => l = m
  BY <1>1, CallsTyped DEF Types
<1>4. /\ joined' = k /\ resp' = JoinChunk(chunk).resp /\ Len(resp') = Len(resp) /\ resp' \in Seq(Answers)
      /\ past' = past /\ began' = began /\ r' = r /\ State' = State /\ extra' = extra /\ DOMAIN resp' = DOMAIN resp
  <2>1. Len(resp') = Len(resp) /\ resp' \in Seq(Answers)
    BY JoinTyped
  <2> QED BY <1>1, <2>1 DEF JoinSplit, State, plan
<1>5. errs' \cap InJoining = JoinChunk(chunk).errs
  <2>1. JoinChunk(chunk).errs \subseteq InJoining
    BY <1>1 DEF JoinChunk, InJoining
  <2>2. errs' = JoinChunk(chunk).errs \/ errs' = Outcome(JoinChunk(chunk).resp, JoinChunk(chunk).errs)
    BY DEF JoinSplit, Return
  <2>3. Outcome(JoinChunk(chunk).resp, JoinChunk(chunk).errs)
          \in {JoinChunk(chunk).errs, JoinChunk(chunk).errs \cup {"method"}}
    BY DEF Outcome
  <2> QED BY <2>1, <2>2, <2>3 DEF InJoining
<1>6. \A l : /\ Asked(l, joined)' = Asked(l, k)
             /\ Asked(l, k) = Asked(l, joined) \cup (IF chunk.into = r.calls[l].id THEN ToSet(chunk.call.ids) ELSE {})
  <2>1. \A l : Asked(l, joined)' = Asked(l, k)
    BY <1>1, <1>4 DEF Asked, plan
  <2>2. \A id : PartsAsk(extra, joined + 1, id) =
                  PartsAsk(extra, joined, id)
                    \cup (IF extra[joined + 1].into = id THEN ToSet(extra[joined + 1].call.ids) ELSE {})
    BY <1>3, PartsOfNext
  <2> QED BY <2>1, <2>2 DEF Asked
<1> SUFFICES
      /\ \A l \in DOMAIN resp :
           /\ resp'[l].id = r.calls[l].id /\ resp'[l].name \in {"error", r.calls[l].name}
           /\ resp'[l].name = "get" /\ r.calls[l].ref = NoRef =>
                /\ resp'[l].state \in began..State
                /\ "unanswered" \notin errs' => ToSet(resp'[l].list) \cup ToSet(resp'[l].notFound) = Asked(l, k)
                /\ errs' \cap InJoining = {} => Of(resp'[l], Asked(l, k), past)
      /\ "unanswered" \notin errs' => \A j \in 1..k : \E l \in DOMAIN resp : resp'[l].id = extra[j].into
  BY <1>2, <1>4, <1>6 DEF JoinedSoFar
<1>7. CASE ~(Answered(chunk.call.id, got) /\ Answered(chunk.into, resp))
  <2>1. resp' = resp /\ JoinChunk(chunk).errs = errs \cup {"unanswered"}
    BY <1>4, <1>7 DEF JoinChunk
  <2>2. "unanswered" \in errs' /\ errs' \cap InJoining # {}
    BY <1>5, <2>1
  <2> HIDE DEF k
  <2> QED BY <1>2, <2>1, <2>2
<1>8. CASE Answered(chunk.call.id, got) /\ Answered(chunk.into, resp)
  <2>1. i \in DOMAIN resp /\ resp[i].id = chunk.into
    BY <1>3, <1>8, FindIs
  <2>2. a \in Answers /\ (a.name = "error" \/ (a.state \in began..State /\ Of(a, ToSet(chunk.call.ids), past)))
    BY <1>8, TurnIs
  <2>3. resp[i] \in Answers
    BY <1>3, <2>1
  <2>4. /\ resp' = [resp EXCEPT ![i] = Joined(resp[i], a)]
        /\ JoinChunk(chunk).errs = IF Moved(resp[i], a) THEN errs \cup {"state changed"} ELSE errs
    BY <1>4, <1>8 DEF JoinChunk
  <2> HIDE DEF a, i
  <2>5. resp'[i] = Joined(resp[i], a) /\ \A l \in DOMAIN resp : l # i => resp'[l] = resp[l]
    BY <2>1, <2>4
  <2> DEFINE t == resp[i]
             j == Joined(t, a)
  <2>6. /\ j \in Answers /\ j.id = t.id /\ j.name \in {"error", t.name}
        /\ j.name # "error" =>
             /\ a.name # "error" /\ t.name # "error" /\ j.state = t.state
             /\ ToSet(j.list) = ToSet(t.list) \cup ToSet(a.list)
             /\ ToSet(j.notFound) = ToSet(t.notFound) \cup ToSet(a.notFound)
    BY <2>2, <2>3, JoinedIs
  <2>7. chunk.into = r.calls[i].id
    BY <1>2, <2>1
  <2>8. \A l \in DOMAIN resp : l # i => chunk.into # r.calls[l].id
    <3>1. \A l \in DOMAIN resp : l \in DOMAIN r.calls
      BY <1>2, <1>3
    <3> QED BY <1>3, <2>1, <2>7, <3>1
  <2> HIDE DEF chunk
  <2>9. /\ Asked(i, k) = Asked(i, joined) \cup ToSet(chunk.call.ids)
        /\ \A l \in DOMAIN resp : l # i => Asked(l, k) = Asked(l, joined)
    BY <1>6, <2>7, <2>8
  <2> HIDE DEF k
  <2>10. /\ "unanswered" \notin errs' => "unanswered" \notin errs
         /\ errs' \cap InJoining = {} => errs \cap InJoining = {} /\ ~Moved(t, a)
    BY <1>1, <1>5, <2>4 DEF InJoining
  <2> HIDE DEF j
  <2>11. /\ t.id = r.calls[i].id /\ t.name \in {"error", r.calls[i].name}
         /\ t.name = "get" /\ r.calls[i].ref = NoRef =>
              /\ t.state \in began..State
              /\ "unanswered" \notin errs => ToSet(t.list) \cup ToSet(t.notFound) = Asked(i, joined)
              /\ errs \cap InJoining = {} => Of(t, Asked(i, joined), past)
    BY <1>2, <2>1
  <2> HIDE DEF t
  <2>12. ASSUME j.name = "get", r.calls[i].ref = NoRef
         PROVE  /\ j.state \in began..State
                /\ "unanswered" \notin errs' => ToSet(j.list) \cup ToSet(j.notFound) = Asked(i, k)
                /\ errs' \cap InJoining = {} => Of(j, Asked(i, k), past)
    <3>1. j.name # "error" /\ t.name = "get" /\ a.name # "error"
      BY <2>6, <2>12
    <3>2. /\ j.state = t.state
          /\ ToSet(j.list) = ToSet(t.list) \cup ToSet(a.list)
          /\ ToSet(j.notFound) = ToSet(t.notFound) \cup ToSet(a.notFound)
      BY <2>6, <3>1
    <3>3. Of(a, ToSet(chunk.call.ids), past)
      BY <2>2, <3>1 DEF chunk
    <3>4. /\ t.state \in began..State
          /\ "unanswered" \notin errs => ToSet(t.list) \cup ToSet(t.notFound) = Asked(i, joined)
          /\ errs \cap InJoining = {} => Of(t, Asked(i, joined), past)
      BY <2>11, <2>12, <3>1
    <3>5. ToSet(a.list) \cup ToSet(a.notFound) = ToSet(chunk.call.ids)
      BY <3>3 DEF Of
    <3>6. "unanswered" \notin errs' => ToSet(j.list) \cup ToSet(j.notFound) = Asked(i, k)
      BY <2>9, <2>10, <3>2, <3>4, <3>5
    <3>7. ASSUME errs' \cap InJoining = {} PROVE Of(j, Asked(i, k), past)
      <4>1. Of(t, Asked(i, joined), past) /\ a.state = t.state
        BY <2>10, <3>1, <3>4, <3>7 DEF Moved
      <4>2. Of(j, Asked(i, joined) \cup ToSet(chunk.call.ids), past)
        BY <3>2, <3>3, <4>1, OfBoth
      <4> QED BY <2>9, <4>2
    <3> QED BY <3>2, <3>4, <3>6, <3>7
  <2>13. ASSUME NEW l \in DOMAIN resp
         PROVE  /\ resp'[l].id = r.calls[l].id /\ resp'[l].name \in {"error", r.calls[l].name}
                /\ resp'[l].name = "get" /\ r.calls[l].ref = NoRef =>
                     /\ resp'[l].state \in began..State
                     /\ "unanswered" \notin errs' => ToSet(resp'[l].list) \cup ToSet(resp'[l].notFound) = Asked(l, k)
                     /\ errs' \cap InJoining = {} => Of(resp'[l], Asked(l, k), past)
    <3>1. CASE l = i
      <4>1. resp'[l] = j
        BY <2>5, <3>1 DEF j, t
      <4> QED BY <2>6, <2>11, <2>12, <3>1, <4>1
    <3>2. CASE l # i
      <4>1. resp'[l] = resp[l] /\ Asked(l, k) = Asked(l, joined)
        BY <2>5, <2>9, <3>2
      <4> QED BY <1>2, <2>10, <4>1
    <3> QED BY <3>1, <3>2
  <2>14. ASSUME "unanswered" \notin errs', NEW n \in 1..k PROVE \E l \in DOMAIN resp : resp'[l].id = extra[n].into
    <3>1. CASE n = k
      <4>1. extra[n].into = r.calls[i].id
        BY <2>7, <3>1 DEF chunk
      <4> QED BY <2>1, <2>13, <4>1
    <3>2. CASE n # k
      <4>1. n \in 1..joined
        BY <1>3, <3>2 DEF k
      <4>2. PICK l \in DOMAIN resp : resp[l].id = extra[n].into
        BY <1>2, <2>10, <2>14, <4>1
      <4> QED BY <1>2, <2>13, <4>2
    <3> QED BY <3>1, <3>2
  <2> QED BY <2>13, <2>14
<1> QED BY <1>7, <1>8

LEMMA JoinedKept == ASSUME IInv, Next PROVE JoinedSoFar'
<1>1. Types /\ Sending /\ Ending /\ JoinedSoFar
  BY DEF IInv, Whole
<1>2. CASE Begin \/ ResolveAPIURL \/ PlanSplit \/ SplitCall \/ SplitRest \/ Planned \/ GroupParts
  <2>1. pc \in {"called", "resolving", "planning", "splitting", "grouping"} /\ posted' = posted
    BY <1>2 DEF Begin, ResolveAPIURL, PlanSplit, SplitCall, SplitRest, Planned, GroupParts, place
  <2>2. ~posted
    BY <1>1, <2>1 DEF Ending
  <2> QED BY <2>1, <2>2 DEF JoinedSoFar
<1>3. CASE Post
  <2>1. UNCHANGED <<r, plan, place, resp, began>> /\ (errs' = errs \/ errs' \in {{"encoding"}, {"size"}})
    BY <1>3 DEF Post, Return, Goto
  <2>2. errs' \subseteq InJoining \cup {"method"} => errs' = errs
    BY <2>1 DEF InJoining
  <2> QED BY <1>1, <2>1, <2>2, JoinedFrame DEF plan, place
<1>4. CASE PostFails
  <2>1. UNCHANGED <<r, plan, place, resp, began>> /\ errs' = {"round trip"}
    BY <1>4 DEF PostFails, Return
  <2>2. errs' \subseteq InJoining \cup {"method"} => errs' = errs
    BY <2>1 DEF InJoining
  <2> QED BY <1>1, <2>1, <2>2, JoinedFrame DEF plan, place
<1>5. CASE PostReturns /\ posted
  <2>1. UNCHANGED <<r, plan, joined, posted, resp, began, errs>>
    BY <1>5 DEF PostReturns, Goto
  <2> QED BY <1>1, <2>1, JoinedFrame DEF plan
<1>6. CASE ServeCall \/ OthersChange \/ SessionChanges \/ SessionRefreshed
  <2>1. UNCHANGED <<r, plan, place, resp, began, errs>>
    BY <1>6 DEF ServeCall, OthersChange, SessionChanges, SessionRefreshed
  <2> QED BY <1>1, <2>1, JoinedFrame DEF plan, place
<1> QED BY <1>2, <1>3, <1>4, <1>5, <1>6, FirstJoined, PartJoined DEF Next, Do

-----------------------------------------------------------------------------
(* How large what is sent is.                                              *)

LEMMA HeldBefore ==
  ASSUME Types, Next, Held'
  PROVE  /\ Held /\ core' \in {core, advertised} /\ had \subseteq had'
         /\ advertised' = advertised \/ advertised' \in had'
<1>1. r' = r /\ options' = options
  BY DEF Next, Do, Begin, ResolveAPIURL, PlanSplit, SplitCall, SplitRest, Planned, GroupParts, Post, PostFails,
         PostReturns, JoinSplit, ServeCall, OthersChange, SessionChanges, SessionRefreshed
<1>2. had \subseteq had' /\ (advertised' = advertised \/ advertised' \in had')
  BY DEF Next, Do, Begin, ResolveAPIURL, PlanSplit, SplitCall, SplitRest, Planned, GroupParts, Post, PostFails,
         PostReturns, JoinSplit, ServeCall, OthersChange, SessionChanges, SessionRefreshed, server
<1>3. core' \in {core, advertised}
  BY DEF Next, Do, Begin, ResolveAPIURL, PlanSplit, SplitCall, SplitRest, Planned, GroupParts, Post, PostFails,
         PostReturns, JoinSplit, ServeCall, OthersChange, SessionChanges, SessionRefreshed
<1> QED BY <1>1, <1>2, <1>3 DEF Held, AsksNoSession, Referenced

(* The session that is held is one the server has had.                     *)
LEMMA KnownKept == ASSUME IInv, Next, Held' PROVE Known'
<1>1. /\ Held /\ Known /\ core' \in {core, advertised} /\ had \subseteq had' /\ Types
      /\ advertised' = advertised \/ advertised' \in had'
  BY HeldBefore DEF IInv, SizesKept
<1>2. (core # None => core' # None) /\ advertised' \in had' /\ core' \in {None} \cup had'
  <2>1. advertised # None
    BY <1>1, SessionsAssumption DEF Types
  <2> QED BY <1>1, <2>1 DEF Known
<1>3. CASE ResolveAPIURL
  <2>1. ~AsksNoSession
    BY <1>1 DEF Held
  <2>2. pc' = "planning" => core' # None
    BY <1>3, <2>1 DEF ResolveAPIURL, Return
  <2>3. pc' \in {"planning", "returned"}
    BY <1>3 DEF ResolveAPIURL, Return, Goto
  <2> QED BY <1>2, <2>2, <2>3 DEF Known
<1>4. CASE Begin
  <2>1. pc' \in {"resolving", "returned"}
    BY <1>4 DEF Begin, Return, Goto
  <2> QED BY <1>2, <2>1 DEF Known
<1>5. CASE ~(ResolveAPIURL \/ Begin)
  <2>1. pc' = pc \/ pc \in {"planning", "splitting", "grouping", "posting", "sent", "joining"}
    BY <1>5 DEF Next, Do, PlanSplit, SplitCall, SplitRest, Planned, GroupParts, Post, PostFails,
               PostReturns, JoinSplit, ServeCall, OthersChange, SessionChanges, SessionRefreshed
  <2> QED BY <1>1, <1>2, <2>1 DEF Known
<1> QED BY <1>3, <1>4, <1>5

(* No call sent in place of r's asks for more ids than the limit.          *)
LEMMA SmallKept == ASSUME IInv, Next, Held' PROVE SmallCalls'
<1>1. /\ Held /\ Known /\ SmallCalls /\ had \subseteq had' /\ Types /\ Whole
      /\ limit \in Nat
  BY HeldBefore DEF IInv, SizesKept, Types
<1>2. r' = r
  BY DEF Next, Do, Begin, ResolveAPIURL, PlanSplit, SplitCall, SplitRest, Planned, GroupParts, Post, PostFails,
         PostReturns, JoinSplit, ServeCall, OthersChange, SessionChanges, SessionRefreshed
<1>3. limit' = limit => \A c : Small(c)' = Small(c)
  BY DEF Small
<1>4. CASE Begin \/ ResolveAPIURL
  <2>1. pc' \notin {"splitting", "grouping", "posting", "sent", "joining"}
    BY <1>4 DEF Begin, ResolveAPIURL, Return, Goto
  <2> QED BY <2>1 DEF SmallCalls
<1>5. CASE PlanSplit
  <2>1. core \in had /\ core # None /\ options.splitGets
    BY <1>1, <1>5 DEF Known, Held, PlanSplit
  <2>2. limit' = core.objects /\ first' = r.calls /\ extra' = <<>> /\ at' = 1
    BY <1>5, <2>1 DEF PlanSplit, Limit
  <2>3. pc' = "splitting" \/ ~(limit' > 0)
    BY <1>5 DEF PlanSplit, Goto
  <2>4. \A i \in DOMAIN first' : ~(i < at')
    BY <2>2, CallsTyped, <1>1 DEF Types
  <2>5. DOMAIN extra' = {}
    BY <2>2
  <2>6. pc' # "splitting" => \A c : Small(c)'
    BY <2>3 DEF Small
  <2>7. \E s \in had' : limit' = s.objects
    BY <1>1, <2>1, <2>2
  <2> QED BY <2>4, <2>5, <2>6, <2>7 DEF SmallCalls
<1>6. CASE SplitCall /\ r.encodes
  <2> DEFINE c == r.calls[at]
  <2>1. pc = "splitting" /\ (\E s \in had' : limit = s.objects) /\ UNCHANGED <<limit, extra, pc>> /\ PlanCovers
    BY <1>1, <1>6 DEF SmallCalls, SplitCall, Whole
  <2>2. /\ at \in 1..Len(r.calls) /\ at \in DOMAIN first /\ c \in Calls
        /\ at' = at + 1 /\ first[at] = c /\ DOMAIN first = 1..Len(first)
        /\ ~Splittable(c) => first' = first
        /\ Splittable(c) =>
              /\ first' = [first EXCEPT ![at] = [c EXCEPT !.ids = SubSeq(c.ids, 1, limit)]]
              /\ [c EXCEPT !.ids = SubSeq(c.ids, 1, limit)] \in Calls
              /\ Len(SubSeq(c.ids, 1, limit)) = limit
    BY <1>1, <1>6, <2>1, SplitTyped
  <2>3. c \in ToSet(r.calls)
    BY <1>1, <2>2, CallsTyped DEF Types, ToSet
  <2>4. ~Referenced(c.id)
    BY <1>1, <2>3 DEF Held
  <2> DEFINE some == SubSeq(c.ids, 1, limit)
  <2> HIDE DEF c
  <2>5. Small(first'[at]) /\ DOMAIN first' = DOMAIN first /\ \A i \in DOMAIN first : i # at => first'[i] = first[i]
    <3>1. CASE Splittable(c)
      <4> HIDE DEF some
      <4>1. first'[at] = [c EXCEPT !.ids = some] /\ Len(some) = limit
        BY <2>2, <3>1 DEF some
      <4>2. first'[at].ids = some
        BY <2>2, <4>1 DEF Calls
      <4>3. Small(first'[at])
        BY <1>1, <2>1, <4>1, <4>2 DEF Small
      <4>4. DOMAIN first' = DOMAIN first /\ \A i \in DOMAIN first : i # at => first'[i] = first[i]
        BY <2>2, <3>1
      <4> QED BY <4>3, <4>4
    <3>2. CASE ~Splittable(c)
      <4>1. Plain(c) => ~(Len(c.ids) > limit)
        BY <1>6, <2>4, <3>2 DEF Splittable, Plain
      <4>2. Len(c.ids) \in Nat
        BY <2>2 DEF Calls
      <4>3. Small(c)
        BY <1>1, <2>1, <4>1, <4>2 DEF Small
      <4> QED BY <2>2, <3>2, <4>3
    <3> QED BY <3>1, <3>2
  <2>6. \A i \in DOMAIN first : i < at => Small(first[i])
    BY <1>1, <1>6, <2>1 DEF SmallCalls
  <2>7. ASSUME NEW i \in DOMAIN first', i < at + 1 PROVE Small(first'[i])
    <3>1. i = at \/ (i # at /\ i < at)
      BY <2>2, <2>5, <2>7
    <3> QED BY <2>5, <2>6, <2>7, <3>1
  <2>8. \A k \in DOMAIN extra : Small(extra[k].call)
    BY <1>1, <1>6, <2>1 DEF SmallCalls
  <2> QED BY <1>1, <1>3, <2>1, <2>2, <2>7, <2>8 DEF SmallCalls
<1>7. CASE SplitRest /\ r.encodes
  <2>1. pc = "splitting" /\ (\E s \in had' : limit = s.objects) /\ UNCHANGED <<limit, first, at, pc>> /\ PlanCovers
    BY <1>1, <1>7 DEF SmallCalls, SplitRest, Whole
  <2>2. PICK new \in [call : Calls, into : CallIDs], width \in 1..limit :
          extra' = Append(extra, new) /\ Len(new.call.ids) = width
    BY <1>1, <1>7, <2>1, RestTyped
  <2>3. Small(new.call)
    BY <1>1, <2>1, <2>2 DEF Small
  <2>4. extra \in Seq([call : Calls, into : CallIDs])
    BY <1>1 DEF Types
  <2>5. \A k \in DOMAIN extra' : extra'[k] = new \/ (k \in DOMAIN extra /\ extra'[k] = extra[k])
    BY <2>2, <2>4
  <2>6. \A k \in DOMAIN extra : Small(extra[k].call)
    BY <1>1, <1>7, <2>1 DEF SmallCalls
  <2>7. \A k \in DOMAIN extra' : Small(extra'[k].call)
    BY <2>3, <2>5, <2>6
  <2>8. \A i \in DOMAIN first : i < at => Small(first[i])
    BY <1>1, <1>7, <2>1 DEF SmallCalls
  <2> QED BY <1>1, <1>3, <2>1, <2>7, <2>8 DEF SmallCalls
<1>8. CASE Planned
  <2>1. /\ pc = "splitting" /\ UNCHANGED <<limit, first, extra>> /\ at > Len(r.calls) /\ FirstCovers
    BY <1>1, <1>8 DEF Planned, plan, Whole, PlanCovers, InPlan
  <2>2. first \in Seq(Calls) /\ at \in Nat /\ Len(first) = Len(r.calls)
    BY <1>1, <2>1 DEF Types, FirstCovers
  <2>3. \A i \in DOMAIN first : i < at
    BY <2>1, <2>2
  <2> QED BY <1>1, <1>2, <1>3, <2>1, <2>3 DEF SmallCalls
<1>9. CASE GroupParts
  <2>1. UNCHANGED <<limit, first, extra>> /\ pc = "grouping"
    BY <1>9 DEF GroupParts
  <2> QED BY <1>1, <1>2, <1>3, <2>1 DEF SmallCalls
<1>10. CASE Post \/ PostFails \/ PostReturns \/ JoinSplit \/ ServeCall
  <2>1. UNCHANGED plan /\ pc \in {"posting", "sent", "joining"}
    BY <1>10 DEF Post, PostFails, PostReturns, JoinSplit, ServeCall
  <2> QED BY <1>1, <1>2, <1>3, <2>1 DEF SmallCalls, plan
<1>11. CASE OthersChange \/ SessionChanges \/ SessionRefreshed
  <2>1. UNCHANGED plan /\ pc' = pc
    BY <1>11 DEF OthersChange, SessionChanges, SessionRefreshed
  <2> QED BY <1>1, <1>2, <1>3, <2>1 DEF SmallCalls, plan
<1>12. CASE (SplitCall \/ SplitRest) /\ ~r.encodes
  BY <1>2, <1>12 DEF SmallCalls
<1> QED BY <1>4, <1>5, <1>6, <1>7, <1>8, <1>9, <1>10, <1>11, <1>12 DEF Next, Do

(* A request with further calls in it has no more than the server takes.   *)
LEMMA FewKept == ASSUME IInv, Next, Held' PROVE FewParts'
<1>1. Held /\ Known /\ FewParts /\ had \subseteq had' /\ Types
  BY HeldBefore DEF IInv, SizesKept
<1>2. CASE GroupParts
  <2>1. core \in had /\ core # None
    BY <1>1, <1>2 DEF Known, GroupParts
  <2>2. perRequest' = PerRequest(core.calls) /\ extra' = extra
    BY <1>2, <2>1 DEF GroupParts, Limit
  <2>3. Len(extra) \in Nat /\ core.calls \in Nat
    BY <1>1, <2>1, SessionsAssumption DEF Types
  <2>4. core.calls = 0 \/ perRequest' <= core.calls
    BY <2>2, <2>3 DEF PerRequest, Lesser
  <2> QED BY <1>1, <2>1, <2>4 DEF FewParts
<1>3. CASE Post \/ PostFails \/ PostReturns \/ JoinSplit \/ ServeCall
  <2>1. UNCHANGED plan /\ pc \in {"posting", "sent", "joining"}
    BY <1>3 DEF Post, PostFails, PostReturns, JoinSplit, ServeCall
  <2> QED BY <1>1, <2>1 DEF FewParts, plan
<1>4. CASE OthersChange \/ SessionChanges \/ SessionRefreshed
  <2>1. UNCHANGED plan /\ pc' = pc
    BY <1>4 DEF OthersChange, SessionChanges, SessionRefreshed
  <2> QED BY <1>1, <2>1 DEF FewParts, plan
<1>5. CASE Begin \/ ResolveAPIURL \/ SplitCall \/ SplitRest
  <2>1. pc' \notin {"posting", "sent", "joining"}
    BY <1>5 DEF Begin, ResolveAPIURL, SplitCall, SplitRest, Return, Goto
  <2> QED BY <2>1 DEF FewParts
<1>6. CASE PlanSplit \/ Planned
  <2>1. pc' = "posting" => extra' = <<>>
    BY <1>6 DEF PlanSplit, Planned, Goto, plan
  <2>2. pc' \notin {"sent", "joining"}
    BY <1>6 DEF PlanSplit, Planned, Goto
  <2> QED BY <2>1, <2>2 DEF FewParts
<1> QED BY <1>2, <1>3, <1>4, <1>5, <1>6 DEF Next, Do

(* The server refuses nothing for its size that it once took.              *)
LEMMA NotRefused == ASSUME IInv, Next, Held' PROVE ~refusedSize' /\ (pc' = "sent" => r'.encodes)
<1>1. /\ Held /\ Known /\ SmallCalls /\ FewParts /\ ~refusedSize /\ (pc = "sent" => r.encodes)
      /\ Types /\ Sending
  BY HeldBefore DEF IInv, SizesKept, Whole
<1>2. r' = r
  BY DEF Next, Do, Begin, ResolveAPIURL, PlanSplit, SplitCall, SplitRest, Planned, GroupParts, Post, PostFails,
         PostReturns, JoinSplit, ServeCall, OthersChange, SessionChanges, SessionRefreshed
<1>3. CASE PostFails
  <2>1. ASSUME posted, NoLess("calls") PROVE Takes(sent)
    <3>1. pc = "sent" /\ sent = Toward /\ extra # <<>>
      <4>1. pc = "sent" /\ sent = Toward /\ start < Len(extra) /\ start \in Nat
        BY <1>1, <1>3, <2>1 DEF PostFails, Sending, Types
      <4> QED BY <4>1
    <3>2. Len(sent) <= perRequest
      BY <1>1, <2>1, <3>1, TowardIs
    <3>3. PICK s \in had : s.calls = 0 \/ perRequest <= s.calls
      BY <1>1, <3>1 DEF FewParts
    <3>4. Len(sent) \in Nat /\ perRequest \in Nat /\ advertised.calls \in Nat /\ s.calls \in Nat
      BY <1>1, SessionsAssumption DEF Types
    <3>5. advertised.calls = 0 \/ (s.calls # 0 /\ s.calls <= advertised.calls)
      BY <2>1, <3>3 DEF NoLess
    <3> QED BY <3>2, <3>3, <3>4, <3>5 DEF Takes
  <2>2. refusedSize' = FALSE
    BY <1>1, <1>3, <2>1 DEF PostFails
  <2>3. pc' = "returned"
    BY <1>3 DEF PostFails, Return
  <2> QED BY <2>2, <2>3
<1>4. CASE ServeCall
  <2> DEFINE c == sent[Len(got) + 1]
  <2>1. pc = "sent" /\ pc' = pc /\ r.encodes /\ sent = Toward
    BY <1>1, <1>4 DEF ServeCall, Sending
  <2>2. /\ \A i \in DOMAIN first : Small(first[i])
        /\ \A k \in DOMAIN extra : Small(extra[k].call)
        /\ \E s \in had : limit = s.objects
    BY <1>1, <2>1 DEF SmallCalls
  <2>3. Len(got) + 1 \in 1..Len(sent) /\ DOMAIN sent = 1..Len(sent) /\ Len(sent) \in Nat
    BY <1>1, <1>4 DEF Types, ServeCall
  <2>4. Small(c)
    <3>1. CASE ~posted
      <4>1. sent = first
        BY <1>1, <2>1, <3>1, TowardIs
      <4> QED BY <2>2, <2>3, <4>1
    <3>2. CASE posted
      <4>1. /\ PartEnd \in Nat /\ PartEnd <= Len(extra) /\ Len(sent) = PartEnd - start
            /\ \A n \in 1..(PartEnd - start) : sent[n] = extra[start + n].call
        BY <1>1, <2>1, <3>2, TowardIs
      <4>2. start \in Nat /\ Len(extra) \in Nat /\ DOMAIN extra = 1..Len(extra) /\ Len(got) \in Nat
        BY <1>1 DEF Types
      <4>3. start + (Len(got) + 1) \in DOMAIN extra /\ c = extra[start + (Len(got) + 1)].call
        BY <2>3, <4>1, <4>2
      <4> QED BY <2>2, <4>3
    <3> QED BY <3>1, <3>2
  <2>5. c \in Calls
    BY <1>1, <2>3 DEF Types
  <2>6. ASSUME TooMany(c), c.ref = NoRef, NoLess("objects") PROVE FALSE
    <3>1. Resolved(c) = c.ids
      BY <2>6 DEF Resolved
    <3>2. advertised.objects > 0 /\ Len(c.ids) > advertised.objects /\ Plain(c)
      BY <2>6, <3>1 DEF TooMany, Plain
    <3>3. PICK s \in had : limit = s.objects
      BY <2>2
    <3>4. Len(c.ids) \in Nat /\ advertised.objects \in Nat /\ limit \in Nat
      BY <1>1, <2>5, SessionsAssumption DEF Calls, Types
    <3>5. limit # 0 /\ limit <= advertised.objects
      BY <2>6, <3>2, <3>3, <3>4 DEF NoLess
    <3>6. Len(c.ids) <= limit
      BY <2>4, <3>2, <3>4, <3>5 DEF Small
    <3> QED BY <3>2, <3>4, <3>5, <3>6
  <2>7. refusedSize' = refusedSize \/ (TooMany(c) /\ refusedSize' = (refusedSize \/ (c.ref = NoRef /\ NoLess("objects"))))
    BY <1>4 DEF ServeCall
  <2> HIDE DEF c
  <2>8. ~refusedSize'
    BY <1>1, <2>6, <2>7
  <2> QED BY <1>2, <2>1, <2>8
<1>5. CASE ~(PostFails \/ ServeCall)
  <2>1. refusedSize' = refusedSize
    BY <1>5 DEF Next, Do, Begin, ResolveAPIURL, PlanSplit, SplitCall, SplitRest, Planned, GroupParts, Post,
                PostReturns, JoinSplit, OthersChange, SessionChanges, SessionRefreshed
  <2>2. pc' = "sent" => pc = "sent" \/ r.encodes
    BY <1>5 DEF Next, Do, Begin, ResolveAPIURL, PlanSplit, SplitCall, SplitRest, Planned, GroupParts, Post,
                PostReturns, JoinSplit, OthersChange, SessionChanges, SessionRefreshed, Return, Goto
  <2> QED BY <1>1, <1>2, <2>1, <2>2
<1> QED BY <1>3, <1>4, <1>5

-----------------------------------------------------------------------------
(* The invariant, and what it says.                                        *)

LEMMA InitInv == Init => IInv
<1> SUFFICES ASSUME Init PROVE IInv
  OBVIOUS
<1>1. /\ pc = "called" /\ posted = FALSE /\ start = 0 /\ joined = 0 /\ errs = {} /\ refusedSize = FALSE
      /\ core \in {None, advertised} /\ had = {advertised}
  BY DEF Init
<1>2. Types
  <2>1. past = <<Records>> \/ past = <<{}>>
    BY DEF Init
  <2>2. past \in Seq(SUBSET Records) /\ Len(past) = 1
    <3>1. ASSUME NEW R \in SUBSET Records PROVE <<R>> \in Seq(SUBSET Records) /\ Len(<<R>>) = 1
      OBVIOUS
    <3>2. PICK R \in SUBSET Records : past = <<R>>
      BY <2>1
    <3> QED BY <3>1, <3>2
  <2>3. began \in 1..State
    BY <2>2 DEF Init, State
  <2>4. /\ rest = <<>> /\ first = <<>> /\ extra = <<>> /\ sent = <<>> /\ got = <<>> /\ resp = <<>>
        /\ limit = 0 /\ at = 1 /\ perRequest = 0 /\ renewals = 0 /\ had = {advertised}
        /\ r \in Requests /\ advertised \in Sessions
        /\ options \in Options
    BY DEF Init
  <2>5. /\ rest \in Seq(Records) /\ first \in Seq(Calls) /\ extra \in Seq([call : Calls, into : CallIDs])
        /\ sent \in Seq(Calls) /\ got \in Seq(Answers) /\ resp \in Seq(Answers)
    BY <2>4
  <2>6. /\ limit \in Nat /\ at \in Nat \ {0} /\ perRequest \in Nat /\ renewals \in Nat /\ had \in SUBSET Sessions
        /\ start \in Nat /\ joined \in Nat /\ core \in Sessions \cup {None}
    BY <1>1, <2>4
  <2>7. posted \in BOOLEAN
    BY <1>1, Zenon
  <2> QED BY <2>2, <2>3, <2>4, <2>5, <2>6, <2>7, Zenon DEF Types
<1>3. Whole
  BY <1>1 DEF Whole, PlanCovers, InPlan, Sending, JoinedSoFar, Ending
<1>4. SizesKept
  BY <1>1 DEF SizesKept, Known, SmallCalls, FewParts
<1> QED BY <1>2, <1>3, <1>4 DEF IInv

LEMMA NextInv == IInv /\ [Next]_vars => IInv'
<1> SUFFICES ASSUME IInv, [Next]_vars PROVE IInv'
  OBVIOUS
<1>1. CASE Next
  <2>1. Whole'
    BY <1>1, PlanKept, SendingKept, JoinedKept DEF Whole
  <2>2. SizesKept'
    BY <1>1, KnownKept, SmallKept, FewKept, NotRefused DEF SizesKept
  <2> QED BY <1>1, <2>1, <2>2, TypesKept DEF IInv
<1>2. CASE UNCHANGED vars
  <2>1. /\ UNCHANGED <<r, options, advertised, renewals, had, core, began, pc, errs, refusedSize, sent, got, resp>>
        /\ UNCHANGED <<limit, at, rest, first, extra, perRequest, posted, start, joined, past>>
    BY <1>2 DEF vars, server, plan, place, wire
  <2>2. Types'
    BY <2>1 DEF IInv, Types, State
  <2>3. PlanCovers' /\ Ending'
    BY <2>1, PlanFrame DEF IInv, Whole, InPlan, Ending
  <2>4. Sending' /\ JoinedSoFar'
    BY <2>1 DEF IInv, Whole, Sending, JoinedSoFar, Toward, PartEnd, Asked, State
  <2>5. SizesKept'
    BY <2>1 DEF AsksNoSession, IInv, SizesKept, Held, Referenced, Known, SmallCalls, FewParts, Small
  <2> QED BY <2>2, <2>3, <2>4, <2>5 DEF IInv, Whole
<1> QED BY <1>1, <1>2

LEMMA Invariant == Spec => []IInv
<1> QED BY InitInv, NextInv, PTL DEF Spec

(* The answers are in the places of the calls.                             *)
LEMMA InPlace == ASSUME Types, Len(resp) <= Len(r.calls) PROVE \A i \in DOMAIN resp : i \in DOMAIN r.calls
<1>1. DOMAIN r.calls = 1..Len(r.calls) /\ Len(r.calls) \in Nat
  BY CallsTyped DEF Types
<1>2. DOMAIN resp = 1..Len(resp) /\ Len(resp) \in Nat
  BY DEF Types
<1> QED BY <1>1, <1>2

(* What is joined when Do returns is all that was asked for.               *)
LEMMA AllJoined ==
  ASSUME IInv, pc = "returned", errs \subseteq {"method", "state changed"}
  PROVE  /\ FirstCovers /\ joined = Len(extra)
         /\ \A i \in DOMAIN r.calls : ToSet(r.calls[i].ids) = Asked(i, joined)
         /\ \A i \in DOMAIN resp :
              /\ i \in DOMAIN r.calls /\ resp[i].id = r.calls[i].id
              /\ resp[i].name = "get" /\ r.calls[i].ref = NoRef =>
                   /\ resp[i].state \in began..State
                   /\ ToSet(resp[i].list) \cup ToSet(resp[i].notFound) = Asked(i, joined)
                   /\ errs \subseteq {"method"} => Of(resp[i], Asked(i, joined), past)
         /\ \A j \in 1..Len(extra) : \E i \in DOMAIN resp : resp[i].id = extra[j].into
<1>1. Types /\ PlanCovers /\ JoinedSoFar /\ Ending
  BY DEF IInv, Whole
<1>2. /\ errs \subseteq InJoining \cup {"method"} /\ "unanswered" \notin errs
      /\ (errs \subseteq {"method"} => errs \cap InJoining = {})
  BY DEF InJoining
<1>3. posted /\ joined = Len(extra)
  BY <1>1, <1>2 DEF Ending
<1>4. FirstCovers /\ RestOfOne
  BY <1>1, <1>3 DEF PlanCovers, InPlan
<1>5. ToSet(rest) = {}
  <2>1. rest = <<>>
    BY <1>4 DEF RestOfOne
  <2> QED BY <2>1, NoElements
<1>6. \A i \in DOMAIN r.calls : ToSet(r.calls[i].ids) = Asked(i, joined)
  BY <1>3, <1>4, <1>5 DEF FirstCovers
<1>7. \A i \in DOMAIN resp : i \in DOMAIN r.calls
  <2>1. Len(resp) <= Len(r.calls)
    BY <1>1, <1>2, <1>3 DEF JoinedSoFar
  <2> QED BY <1>1, <2>1, InPlace
<1>8. \A i \in DOMAIN resp :
        /\ resp[i].id = r.calls[i].id
        /\ resp[i].name = "get" /\ r.calls[i].ref = NoRef =>
             /\ resp[i].state \in began..State
             /\ ToSet(resp[i].list) \cup ToSet(resp[i].notFound) = Asked(i, joined)
             /\ errs \subseteq {"method"} => Of(resp[i], Asked(i, joined), past)
  BY <1>1, <1>2, <1>3 DEF JoinedSoFar
<1>9. \A j \in 1..Len(extra) : \E i \in DOMAIN resp : resp[i].id = extra[j].into
  BY <1>1, <1>2, <1>3 DEF JoinedSoFar
<1> QED BY <1>3, <1>4, <1>6, <1>7, <1>8, <1>9

LEMMA SnapshotOf == IInv => OneSnapshot
<1> SUFFICES ASSUME IInv, pc = "returned", errs \subseteq {"method"} PROVE OneSnapshot
  BY DEF OneSnapshot, Returned
<1>1. /\ FirstCovers
      /\ \A i \in DOMAIN r.calls : ToSet(r.calls[i].ids) = Asked(i, joined)
      /\ \A i \in DOMAIN resp :
              /\ i \in DOMAIN r.calls /\ resp[i].id = r.calls[i].id
              /\ resp[i].name = "get" /\ r.calls[i].ref = NoRef =>
                   resp[i].state \in began..State /\ Of(resp[i], Asked(i, joined), past)
      /\ \A j \in 1..Len(extra) : \E i \in DOMAIN resp : resp[i].id = extra[j].into
  BY AllJoined
<1>2. ASSUME NEW i \in DOMAIN r.calls, first[i].ids # r.calls[i].ids PROVE i \in DOMAIN resp
  <2>1. rest = <<>>
    BY DEF IInv, Whole, PlanCovers, InPlan, RestOfOne, Ending
  <2>2. PartOf(extra, Len(extra), r.calls[i].id) # {}
    BY <1>1, <1>2, <2>1 DEF FirstCovers
  <2>3. PICK j \in 1..Len(extra) : extra[j].into = r.calls[i].id
    BY <2>2 DEF PartOf
  <2>4. PICK l \in DOMAIN resp : resp[l].id = r.calls[i].id
    BY <1>1, <2>3
  <2>5. l \in DOMAIN r.calls /\ r.calls[l].id = r.calls[i].id
    BY <1>1, <2>4
  <2>6. l = i
    BY <2>5, CallsTyped DEF IInv, Types
  <2> QED BY <2>4, <2>6
<1>3. ASSUME NEW i \in DOMAIN resp, resp[i].name = "get", r.calls[i].ref = NoRef
      PROVE  /\ resp[i].state \in began..State
             /\ ToSet(resp[i].list) = ToSet(r.calls[i].ids) \cap past[resp[i].state]
             /\ ToSet(resp[i].notFound) = ToSet(r.calls[i].ids) \ past[resp[i].state]
  BY <1>1, <1>3 DEF Of
<1> QED BY <1>1, <1>2, <1>3 DEF OneSnapshot

LEMMA EveryIdOf == IInv => EveryIdAnswered
<1> SUFFICES ASSUME IInv, pc = "returned", errs \subseteq {"method", "state changed"} PROVE EveryIdAnswered
  BY DEF EveryIdAnswered, Returned
<1> QED BY AllJoined DEF EveryIdAnswered

(* Where Do returns no error, each /get is answered as the records were at *)
(* one moment during Do, with every id it named, however it was split, in  *)
(* however many requests and whatever others changed meanwhile.            *)
THEOREM AnswersAreOneSnapshot == Spec => []OneSnapshot
<1> QED BY Invariant, SnapshotOf, PTL

(* And where all that went wrong is that the records changed between the   *)
(* parts, or that a call was refused, no id is missing.                    *)
THEOREM NoIdIsLost == Spec => []EveryIdAnswered
<1> QED BY Invariant, EveryIdOf, PTL

(* Whatever the server's limits, and however they change between their     *)
(* being read, what is sent is within one it had, save what cannot be      *)
(* split.                                                                  *)
THEOREM NothingTooLarge == Spec => []NeverTooLarge
<1>1. IInv => NeverTooLarge
  BY DEF IInv, SizesKept, Held, NeverTooLarge
<1> QED BY <1>1, Invariant, PTL

-----------------------------------------------------------------------------
(* The inductive invariant.  Where an octet is written rests on where the  *)
(* part it came in begins, which Accept compares with what was asked for;  *)
(* that all of it came rests on what is still to come of it.               *)

Unread == Len(body.octets)

DownloadTypes ==
  /\ size \in 0..WordMax
  /\ opts \in [from : Nat, length : 0..WordMax]
  /\ answer \in [status : {0, 200, 206, 416}, from : Nat \cup {Malformed}, to : Nat,
                 total : {Unknown, size}, stated : Nat \cup {Unknown}]
  /\ body \in [octets : Seq(Nat), ends : {"eof", "dropped"}]
  /\ left \in Nat \cup {NoReader}
  /\ file \in Seq(Nat) /\ unplaced \in Nat

Inside == unplaced <= Len(file) /\ Len(file) <= size

(* The caller asks for what follows what it has.                           *)
AskedForNext == stage \in {"asked", "answered"} => opts.from = Len(file)

(* Where the octets of a response are from: the place it names.            *)
Begins == IF answer.status = 200 THEN 0 ELSE answer.from

(* The octets of a response are those of the blob from there on, and its   *)
(* end comes where it says, if it says.                                    *)
ResponseRight ==
  stage = "answered" =>
    /\ Unread <= size
    /\ answer.status \in {200, 206} /\ Begins # Malformed =>
         /\ \A i \in 1..Unread : body.octets[i] = Begins + i - 1
         /\ Begins + Unread <= size
    /\ answer.status \in {200, 206} /\ body.ends = "eof" /\ answer.stated # Unknown => Unread = answer.stated

(* The part that is read ends where what was asked for does, or where the  *)
(* blob does.                                                              *)
EndsAsAsked ==
  IF opts.length > 0
  THEN /\ answer.to + 1 <= opts.from + opts.length
       /\ answer.to + 1 = opts.from + opts.length \/ answer.to + 1 = size
  ELSE answer.total = Unknown \/ answer.to + 1 = size

(* What comes next of a body follows what is in the file, until the part   *)
(* is all there, unless it is of a part that no range asked for.           *)
FollowsOn ==
  stage = "reading" /\ left # 0 =>
    /\ ~Unasked => \A i \in 1..Unread : body.octets[i] = Len(file) + i - 1
    /\ Len(file) + Unread <= size

(* The file and what is still to come are together as long as was asked,   *)
(* or without a range as long as was said.                                 *)
StillToCome ==
  stage = "reading" =>
    \/ /\ ~Wanted /\ left = NoReader
       /\ body.ends = "eof" /\ answer.stated # Unknown => Len(file) + Unread = answer.stated
    \/ /\ Wanted /\ answer.status = 206 /\ EndsAsAsked
       /\ left = NoReader /\ body.ends = "eof" => Len(file) + Unread = answer.to + 1
       /\ left # NoReader => Len(file) + left = answer.to + 1

DownloadInv ==
  /\ DownloadTypes
  /\ Inside
  /\ AskedForNext
  /\ ResponseRight
  /\ FollowsOn
  /\ StillToCome
  /\ FileIsTheBlob
  /\ BroughtWhatWasAsked

-----------------------------------------------------------------------------

(* The number that stands for what is not said, or not there.              *)
LEMMA Minus == Unknown = -1 /\ Malformed = -1 /\ NoReader = -1
  BY DEF Unknown, Malformed, NoReader

LEMMA WordIsNat == WordMax \in Nat
  BY SizesAssumption

(* Writing the first octets of a body after the file.                      *)
LEMMA Appended ==
  ASSUME NEW f \in Seq(Nat), NEW o \in Seq(Nat), NEW n \in 0..Len(o)
  PROVE  /\ f \o SubSeq(o, 1, n) \in Seq(Nat)
         /\ Len(f \o SubSeq(o, 1, n)) = Len(f) + n
         /\ \A i \in 1..(Len(f) + n) :
              (f \o SubSeq(o, 1, n))[i] = IF i <= Len(f) THEN f[i] ELSE o[i - Len(f)]
<1> DEFINE s == SubSeq(o, 1, n)
<1>1. n \in Int /\ \A i \in 1..n : o[i] \in Nat
  OBVIOUS
<1>2. s \in Seq(Nat) /\ Len(s) = n /\ \A i \in 1..n : s[i] = o[i]
  BY <1>1, SubSeqProperties
<1> HIDE DEF s
<1>3. /\ f \o s \in Seq(Nat)
      /\ Len(f \o s) = Len(f) + Len(s)
      /\ \A i \in 1..(Len(f) + Len(s)) : (f \o s)[i] = IF i <= Len(f) THEN f[i] ELSE s[i - Len(f)]
  BY <1>2, ConcatProperties
<1>4. ASSUME NEW i \in 1..(Len(f) + n), ~(i <= Len(f))
      PROVE  s[i - Len(f)] = o[i - Len(f)]
  <2>1. i - Len(f) \in 1..n
    BY <1>4
  <2> QED BY <2>1, <1>2
<1>5. \A i \in 1..(Len(f) + n) : (f \o s)[i] = IF i <= Len(f) THEN f[i] ELSE o[i - Len(f)]
  BY <1>2, <1>3, <1>4
<1> QED BY <1>2, <1>3, <1>5 DEF s

(* What is still to come once the first octets of a body are read.         *)
LEMMA Remaining ==
  ASSUME NEW o \in Seq(Nat), NEW n \in 0..Len(o)
  PROVE  /\ SubSeq(o, n + 1, Len(o)) \in Seq(Nat)
         /\ Len(SubSeq(o, n + 1, Len(o))) = Len(o) - n
         /\ \A i \in 1..(Len(o) - n) : SubSeq(o, n + 1, Len(o))[i] = o[n + i]
<1>1. n + 1 \in Int /\ Len(o) \in Int /\ \A i \in (n + 1)..Len(o) : o[i] \in Nat
  OBVIOUS
<1>2. /\ SubSeq(o, n + 1, Len(o)) \in Seq(Nat)
      /\ Len(SubSeq(o, n + 1, Len(o))) = IF n + 1 <= Len(o) THEN Len(o) - (n + 1) + 1 ELSE 0
      /\ \A i \in 1..(Len(o) - (n + 1) + 1) : SubSeq(o, n + 1, Len(o))[i] = o[(n + 1) + i - 1]
  BY <1>1, SubSeqProperties
<1> QED BY <1>2

(* A part that Placed lets through ends as asked, though the sum of where  *)
(* it begins and how long it is may pass the word.                         *)
LEMMA PlacedEnds ==
  ASSUME DownloadTypes, Placed(answer), opts.from <= size
  PROVE  EndsAsAsked /\ answer.from = opts.from /\ answer.to >= answer.from
         /\ (answer.stated >= 0 => answer.stated = answer.to - answer.from + 1)
<1>1. /\ size \in 0..WordMax /\ opts.from \in Nat /\ opts.length \in 0..WordMax
      /\ answer.to \in Nat /\ answer.total \in {Unknown, size}
  BY DEF DownloadTypes
<1>2. opts.length > 0 => answer.to <= LastAsked
  BY DEF Placed, EndsWhereAsked
<1>3. opts.length > 0 => answer.to = LastAsked \/ answer.to = size - 1
  BY <1>1, Minus DEF Placed, EndsWhereAsked
<1>4. ASSUME opts.length > 0
      PROVE  LastAsked = opts.from + opts.length - 1
  BY <1>1, <1>2, <1>4, WordIsNat DEF LastAsked, Wrapped
<1>5. opts.length > 0 => EndsAsAsked
  BY <1>1, <1>2, <1>3, <1>4 DEF EndsAsAsked
<1>6. ~(opts.length > 0) => EndsAsAsked
  BY <1>1, Minus DEF EndsAsAsked, Placed, EndsWhereAsked
<1> QED BY <1>5, <1>6 DEF Placed

-----------------------------------------------------------------------------
\* Reading.

(* What the caller has read is in the file as far as it is written, and    *)
(* the rest of the body follows it, in its place if it is what was asked.  *)
LEMMA Written ==
  ASSUME DownloadTypes, Inside, FollowsOn, FileIsTheBlob, stage = "reading", left # 0,
         NEW n \in Nat, NEW err, Gives(n, err), Write(n), size' = size
  PROVE  /\ n <= Unread /\ Len(file') = Len(file) + n /\ Unread' = Unread - n
         /\ file' \in Seq(Nat) /\ body' \in [octets : Seq(Nat), ends : {"eof", "dropped"}]
         /\ body'.ends = body.ends
         /\ Len(file') + Unread' <= size
         /\ ~Unasked => \A i \in 1..Unread' : body'.octets[i] = Len(file') + i - 1
         /\ ~Unasked /\ unplaced' = unplaced => FileIsTheBlob'
<1> DEFINE o == body.octets
<1>1. o \in Seq(Nat) /\ file \in Seq(Nat) /\ body.ends \in {"eof", "dropped"}
  BY DEF DownloadTypes
<1>2. n \in 0..Len(o)
  BY <1>1 DEF Gives
<1>3. body' = [body EXCEPT !.octets = SubSeq(o, n + 1, Len(o))]
  BY DEF Gives
<1>4. body' = [octets |-> SubSeq(o, n + 1, Len(o)), ends |-> body.ends]
  BY <1>3 DEF DownloadTypes
<1>5. file' = file \o SubSeq(o, 1, n)
  BY DEF Write
<1>6. /\ ~Unasked => \A i \in 1..Len(o) : o[i] = Len(file) + i - 1
      /\ Len(file) + Len(o) <= size
  BY DEF FollowsOn, Unread
<1>7. /\ body'.octets \in Seq(Nat) /\ Len(body'.octets) = Len(o) - n
      /\ \A i \in 1..(Len(o) - n) : body'.octets[i] = o[n + i]
      /\ body'.ends = body.ends
  BY <1>1, <1>2, <1>4, Remaining
<1>8. /\ file' \in Seq(Nat) /\ Len(file') = Len(file) + n
      /\ \A i \in 1..(Len(file) + n) : file'[i] = IF i <= Len(file) THEN file[i] ELSE o[i - Len(file)]
  BY <1>1, <1>2, <1>5, Appended
<1> HIDE DEF o
<1>9. Len(file) \in Nat /\ Len(o) \in Nat /\ size \in Nat
  BY <1>1, WordIsNat DEF DownloadTypes
<1>10. ASSUME ~Unasked, NEW i \in 1..Len(body'.octets) PROVE body'.octets[i] = Len(file') + i - 1
  <2>1. i \in 1..(Len(o) - n) /\ n + i \in 1..Len(o)
    BY <1>2, <1>7, <1>9
  <2>2. o[n + i] = Len(file) + (n + i) - 1
    BY <1>10, <2>1, <1>6
  <2>3. body'.octets[i] = o[n + i]
    BY <2>1, <1>7
  <2>4. i \in Int /\ Len(file') = Len(file) + n
    BY <2>1, <1>2, <1>8, <1>9
  <2>5. Len(file) + (n + i) - 1 = Len(file') + i - 1
    BY <2>4, <1>9
  <2> QED BY <2>2, <2>3, <2>5
<1>11. ASSUME ~Unasked, unplaced' = unplaced PROVE FileIsTheBlob'
  <2> SUFFICES ASSUME NEW i \in 1..Len(file'), i > unplaced PROVE file'[i] = i - 1
    BY <1>8, <1>11 DEF FileIsTheBlob
  <2>1. CASE i <= Len(file)
    <3>1. i \in 1..Len(file) /\ i \in 1..(Len(file) + n)
      BY <2>1, <1>1, <1>8, <1>9
    <3>2. file[i] = i - 1
      BY <3>1, <1>1 DEF FileIsTheBlob
    <3> QED BY <2>1, <3>1, <3>2, <1>8
  <2>2. CASE ~(i <= Len(file))
    <3>1. i - Len(file) \in 1..Len(o) /\ i \in 1..(Len(file) + n)
      BY <2>2, <1>2, <1>8, <1>9
    <3>2. o[i - Len(file)] = Len(file) + (i - Len(file)) - 1
      BY <3>1, <1>6, <1>11
    <3> QED BY <2>2, <3>1, <3>2, <1>8, <1>9
  <2> QED BY <2>1, <2>2
<1>12. Len(file') + Len(body'.octets) <= size
  BY <1>2, <1>6, <1>7, <1>8, <1>9
<1>13. body' \in [octets : Seq(Nat), ends : {"eof", "dropped"}]
  BY <1>1, <1>4, <1>7
<1>14. Unread = Len(o) /\ Unread' = Len(body'.octets)
  BY DEF Unread, o
<1>15. n <= Unread /\ Unread' = Unread - n /\ Len(file') + Unread' <= size
  BY <1>2, <1>7, <1>9, <1>12, <1>14
<1>16. ASSUME ~Unasked PROVE \A i \in 1..Unread' : body'.octets[i] = Len(file') + i - 1
  BY <1>10, <1>14, <1>16
<1> QED
  BY <1>7, <1>8, <1>11, <1>13, <1>15, <1>16

(* A part that has all come, and ends as asked, is all that was asked for. *)
LEMMA EndsMeansBrought ==
  ASSUME DownloadTypes, Wanted, EndsAsAsked, Len(file') = answer.to + 1, Len(file') <= size,
         size' = size, opts' = opts, answer' = answer
  PROVE  BroughtWhatWasAsked'
<1>1. /\ size \in Nat /\ opts.from \in Nat /\ opts.length \in Nat /\ answer.to \in Nat
  BY WordIsNat DEF DownloadTypes
<1>2. CASE opts.length > 0
  BY <1>1, <1>2 DEF EndsAsAsked, BroughtWhatWasAsked, Smaller, Wanted
<1>3. CASE ~(opts.length > 0)
  BY <1>1, <1>3 DEF EndsAsAsked, BroughtWhatWasAsked, Wanted
<1> QED BY <1>2, <1>3

(* A body read as it is: at its end all of it has come.                    *)
LEMMA ReadBodyInv == ASSUME DownloadInv, ReadBody PROVE DownloadInv'
<1>1. PICK b \in Buffers, err \in {"none", "eof", "dropped"} : \E n \in 0..b :
        /\ Gives(n, err) /\ Write(n)
        /\ stage' = CASE err = "none" -> "reading" [] err = "eof" -> "done" [] OTHER -> "short"
  BY DEF ReadBody
<1>2. PICK n \in 0..b :
        /\ Gives(n, err) /\ Write(n)
        /\ stage' = CASE err = "none" -> "reading" [] err = "eof" -> "done" [] OTHER -> "short"
  BY <1>1
<1>3. b \in Nat /\ n \in Nat
  BY <1>2, AsksAssumption
<1>4. /\ stage = "reading" /\ left = NoReader /\ left' = left
      /\ size' = size /\ opts' = opts /\ answer' = answer
      /\ unplaced' = IF Unasked THEN Len(file') ELSE unplaced
  BY DEF ReadBody
<1>5. DownloadTypes /\ Inside /\ FollowsOn /\ FileIsTheBlob /\ StillToCome
  BY DEF DownloadInv
<1>6. left # 0
  BY <1>4, Minus
<1>7. /\ n <= Unread /\ Len(file') = Len(file) + n /\ Unread' = Unread - n
      /\ file' \in Seq(Nat) /\ body' \in [octets : Seq(Nat), ends : {"eof", "dropped"}]
      /\ body'.ends = body.ends
      /\ Len(file') + Unread' <= size
      /\ ~Unasked => \A i \in 1..Unread' : body'.octets[i] = Len(file') + i - 1
      /\ ~Unasked /\ unplaced' = unplaced => FileIsTheBlob'
  BY <1>2, <1>3, <1>4, <1>5, <1>6, Written
<1>8. Len(file) \in Nat /\ Len(file') \in Nat /\ Unread \in Nat /\ unplaced \in Nat /\ size \in Nat
  BY <1>5, <1>7, WordIsNat DEF DownloadTypes, Unread
<1>9. DownloadTypes'
  BY <1>4, <1>5, <1>7, <1>8 DEF DownloadTypes
<1>10. stage' \in {"reading", "done", "short"} /\ (stage' = "reading" => err = "none") /\ (stage' = "done" => err = "eof")
  BY <1>2
<1>11. AskedForNext' /\ ResponseRight'
  BY <1>10 DEF AskedForNext, ResponseRight
<1>12. Inside'
  BY <1>3, <1>4, <1>5, <1>7, <1>8 DEF Inside
<1>13. Unasked' = Unasked /\ Wanted' = Wanted
  BY <1>4 DEF Unasked, Wanted
<1>14. FileIsTheBlob'
  <2>1. CASE Unasked
    <3>1. unplaced' = Len(file') /\ DOMAIN file' = 1..Len(file')
      BY <1>4, <1>7, <2>1
    <3> QED BY <1>8, <3>1 DEF FileIsTheBlob
  <2>2. CASE ~Unasked
    BY <1>4, <1>7, <2>2
  <2> QED BY <2>1, <2>2
<1>15. FollowsOn'
  BY <1>4, <1>7, <1>13 DEF FollowsOn
<1>16. StillToCome'
  BY <1>3, <1>4, <1>5, <1>7, <1>8, <1>13 DEF StillToCome, EndsAsAsked
<1>17. BroughtWhatWasAsked'
  <2> SUFFICES ASSUME stage' = "done" PROVE BroughtWhatWasAsked'
    BY DEF BroughtWhatWasAsked
  <2>1. body.ends = "eof" /\ n = Unread
    BY <1>2, <1>10 DEF Gives, Unread
  <2>2. Len(file') = Len(file) + Unread /\ Len(file') <= size
    BY <2>1, <1>7, <1>8
  <2>3. CASE ~Wanted /\ (answer.stated # Unknown => Len(file') = answer.stated)
    <3>1. opts.length = 0
      BY <2>3, <1>5 DEF Wanted, DownloadTypes
    <3> QED BY <2>3, <3>1, <1>4, <1>13 DEF BroughtWhatWasAsked
  <2>4. CASE Wanted /\ EndsAsAsked /\ Len(file') = answer.to + 1
    BY <2>2, <2>4, <1>4, <1>5, EndsMeansBrought
  <2> QED BY <2>1, <2>2, <2>3, <2>4, <1>4, <1>5 DEF StillToCome
<1> QED BY <1>9, <1>11, <1>12, <1>14, <1>15, <1>16, <1>17 DEF DownloadInv

(* A part in chunks, while there is something left of it.                  *)
LEMMA ReadPartInv == ASSUME DownloadInv, ReadPart PROVE DownloadInv'
<1>1. PICK b \in Buffers, err \in {"none", "eof", "dropped"} : \E n \in 0..Smaller(b, left) :
        /\ Gives(n, err) /\ Write(n)
        /\ left' = left - n
        /\ stage' = CASE err = "none" \/ (err = "eof" /\ left' = 0) -> "reading" [] OTHER -> "short"
  BY DEF ReadPart
<1>2. PICK n \in 0..Smaller(b, left) :
        /\ Gives(n, err) /\ Write(n)
        /\ left' = left - n
        /\ stage' = CASE err = "none" \/ (err = "eof" /\ left' = 0) -> "reading" [] OTHER -> "short"
  BY <1>1
<1>3. DownloadTypes /\ Inside /\ FollowsOn /\ FileIsTheBlob /\ StillToCome
  BY DEF DownloadInv
<1>4. /\ stage = "reading" /\ left > 0
      /\ size' = size /\ opts' = opts /\ answer' = answer /\ unplaced' = unplaced
  BY DEF ReadPart
<1>5. left \in Nat /\ left # 0 /\ left # NoReader
  BY <1>3, <1>4, Minus DEF DownloadTypes
<1>6. n \in Nat /\ n <= left
  BY <1>2, <1>5, AsksAssumption DEF Smaller
<1>7. Wanted /\ ~Unasked /\ answer.status = 206 /\ EndsAsAsked /\ Len(file) + left = answer.to + 1
  BY <1>3, <1>4, <1>5 DEF StillToCome, Unasked
<1>8. /\ n <= Unread /\ Len(file') = Len(file) + n /\ Unread' = Unread - n
      /\ file' \in Seq(Nat) /\ body' \in [octets : Seq(Nat), ends : {"eof", "dropped"}]
      /\ body'.ends = body.ends
      /\ Len(file') + Unread' <= size
      /\ \A i \in 1..Unread' : body'.octets[i] = Len(file') + i - 1
      /\ FileIsTheBlob'
  BY <1>2, <1>3, <1>4, <1>5, <1>6, <1>7, Written
<1>9. left' \in Nat /\ left' # NoReader
  BY <1>2, <1>5, <1>6, Minus
<1>10. DownloadTypes'
  BY <1>3, <1>4, <1>8, <1>9 DEF DownloadTypes
<1>11. stage' \in {"reading", "short"}
  BY <1>2
<1>12. AskedForNext' /\ ResponseRight' /\ BroughtWhatWasAsked'
  BY <1>11 DEF AskedForNext, ResponseRight, BroughtWhatWasAsked
<1>13. FollowsOn'
  BY <1>4, <1>8 DEF FollowsOn
<1>14. Len(file) \in Nat /\ answer.to \in Nat /\ Unread \in Nat /\ size \in Nat /\ unplaced \in Nat
  BY <1>3, WordIsNat DEF DownloadTypes, Unread
<1>15. Inside'
  BY <1>3, <1>4, <1>6, <1>8, <1>14 DEF Inside
<1>16. Len(file') + left' = answer.to + 1
  BY <1>2, <1>5, <1>6, <1>7, <1>8, <1>14
<1>17. StillToCome'
  BY <1>4, <1>7, <1>9, <1>16 DEF StillToCome, EndsAsAsked, Wanted
<1> QED BY <1>8, <1>10, <1>12, <1>13, <1>15, <1>17 DEF DownloadInv

(* Once the part is all there: an octet more and the range was ignored,    *)
(* and only the end of the body ends the part.                             *)
LEMMA ReadPastPartInv == ASSUME DownloadInv, ReadPastPart PROVE DownloadInv'
<1>1. PICK err \in {"none", "eof", "dropped"} : \E n \in 0..1 :
        /\ Gives(n, err)
        /\ stage' = CASE n > 0 -> "ignored" [] n = 0 /\ err = "eof" -> "done" [] OTHER -> "short"
  BY DEF ReadPastPart
<1>2. PICK n \in 0..1 :
        /\ Gives(n, err)
        /\ stage' = CASE n > 0 -> "ignored" [] n = 0 /\ err = "eof" -> "done" [] OTHER -> "short"
  BY <1>1
<1>3. DownloadTypes /\ Inside /\ FileIsTheBlob /\ StillToCome
  BY DEF DownloadInv
<1>4. /\ stage = "reading" /\ left = 0 /\ left' = left /\ file' = file /\ unplaced' = unplaced
      /\ size' = size /\ opts' = opts /\ answer' = answer
  BY DEF ReadPastPart
<1>5. body.octets \in Seq(Nat) /\ n \in 0..Len(body.octets)
  BY <1>2, <1>3 DEF DownloadTypes, Gives
<1>6. SubSeq(body.octets, n + 1, Len(body.octets)) \in Seq(Nat)
  BY <1>5, Remaining
<1>7. body' \in [octets : Seq(Nat), ends : {"eof", "dropped"}]
  BY <1>2, <1>3, <1>6 DEF Gives, DownloadTypes
<1>8. DownloadTypes'
  BY <1>3, <1>4, <1>7 DEF DownloadTypes
<1>9. stage' \in {"ignored", "done", "short"}
  BY <1>2
<1>10. AskedForNext' /\ ResponseRight' /\ FollowsOn' /\ StillToCome'
  BY <1>9 DEF AskedForNext, ResponseRight, FollowsOn, StillToCome
<1>11. Inside' /\ FileIsTheBlob'
  BY <1>3, <1>4 DEF Inside, FileIsTheBlob
<1>12. BroughtWhatWasAsked'
  <2>1. Len(file) \in Nat /\ answer.to \in Nat
    BY <1>3 DEF DownloadTypes
  <2>2. Wanted /\ EndsAsAsked /\ Len(file) = answer.to + 1
    BY <1>3, <1>4, <2>1, Minus DEF StillToCome
  <2> QED BY <1>3, <1>4, <2>2, EndsMeansBrought DEF Inside
<1> QED BY <1>8, <1>10, <1>11, <1>12 DEF DownloadInv

-----------------------------------------------------------------------------
\* The other steps.

LEMMA NoAnswerTyped ==
  ASSUME NEW st \in {0, 416}
  PROVE  [NoAnswer EXCEPT !.status = st]
           \in [status : {0, 200, 206, 416}, from : Nat \cup {Malformed}, to : Nat,
                total : {Unknown, size'}, stated : Nat \cup {Unknown}]
  BY DEF NoAnswer

(* The octets a response brings.                                           *)
LEMMA Brought ==
  ASSUME NEW origin \in Nat, NEW n \in Nat
  PROVE  /\ [i \in 1..n |-> origin + i - 1] \in Seq(Nat)
         /\ Len([i \in 1..n |-> origin + i - 1]) = n
<1>1. \A i \in 1..n : origin + i - 1 \in Nat
  OBVIOUS
<1> QED BY <1>1

LEMMA DownloadInitInv == DownloadInit => DownloadInv
<1> SUFFICES ASSUME DownloadInit PROVE DownloadInv
  OBVIOUS
<1>1. DownloadTypes
  BY SizesAssumption, WordIsNat DEF DownloadInit, DownloadTypes, NoAnswer
<1>2. stage = "idle" /\ file = <<>> /\ unplaced = 0 /\ size \in Nat
  BY SizesAssumption DEF DownloadInit
<1> QED BY <1>1, <1>2 DEF DownloadInv, Inside, AskedForNext, ResponseRight, FollowsOn, StillToCome,
                       FileIsTheBlob, BroughtWhatWasAsked

LEMMA AskInv == ASSUME DownloadInv, Ask PROVE DownloadInv'
<1>1. PICK l \in Lengths : opts' = [from |-> Len(file), length |-> l]
  BY DEF Ask
<1>2. /\ stage' = "asked" /\ size' = size /\ answer' = answer /\ body' = body /\ left' = left /\ file' = file
      /\ unplaced' = unplaced
  BY DEF Ask
<1>3. DownloadTypes'
  BY <1>1, <1>2, SizesAssumption DEF DownloadInv, DownloadTypes
<1>4. Inside' /\ FileIsTheBlob'
  BY <1>2 DEF DownloadInv, Inside, FileIsTheBlob
<1>5. AskedForNext'
  BY <1>1, <1>2 DEF AskedForNext
<1> QED BY <1>2, <1>3, <1>4, <1>5 DEF DownloadInv, ResponseRight, FollowsOn, StillToCome, BroughtWhatWasAsked

(* Whatever the server answers, its octets are the blob's.                 *)
LEMMA ServerInv == ASSUME DownloadInv, Server PROVE DownloadInv'
<1>1. DownloadTypes /\ Inside /\ FileIsTheBlob /\ AskedForNext /\ size \in Nat
  BY WordIsNat DEF DownloadInv, DownloadTypes
<1>2. /\ stage = "asked" /\ size' = size /\ opts' = opts /\ left' = left /\ file' = file /\ unplaced' = unplaced
  BY DEF Server, ServerAnswersWhole, ServerAnswersPart, ServerRefuses
<1>3. ASSUME NEW a, NEW origin \in Nat, NEW n \in Nat, NEW ends \in {"eof", "dropped"}, Responds(a, origin, n, ends),
             a \in [status : {0, 200, 206, 416}, from : Nat \cup {Malformed}, to : Nat,
                    total : {Unknown, size'}, stated : Nat \cup {Unknown}],
             a.status = 416 => n = 0,
             a.status = 200 => origin = 0,
             a.status # 200 => a.from \in {origin, Malformed} \/ a.status = 416,
             origin + n <= size,
             a.status \in {200, 206} /\ ends = "eof" /\ a.stated # Unknown => n = a.stated
      PROVE  DownloadInv'
  <2>1. answer' = a /\ body' = [octets |-> [i \in 1..n |-> origin + i - 1], ends |-> ends] /\ stage' = "answered"
    BY <1>3 DEF Responds
  <2>2. body'.octets \in Seq(Nat) /\ Len(body'.octets) = n /\ body'.ends = ends
    BY <2>1, <1>3, Brought
  <2>3. \A i \in 1..n : body'.octets[i] = origin + i - 1
    BY <2>1
  <2>4. DownloadTypes'
    BY <1>1, <1>2, <1>3, <2>1, <2>2 DEF DownloadTypes
  <2>5. Inside' /\ FileIsTheBlob' /\ AskedForNext'
    BY <1>1, <1>2 DEF Inside, FileIsTheBlob, AskedForNext
  <2>6. answer'.status \in {200, 206} /\ Begins' # Malformed => Begins' = origin
    BY <1>3, <2>1 DEF Begins
  <2>7. ResponseRight'
    BY <1>1, <1>2, <1>3, <2>1, <2>2, <2>3, <2>6 DEF ResponseRight, Unread
  <2> QED BY <2>1, <2>4, <2>5, <2>7 DEF DownloadInv, FollowsOn, StillToCome, BroughtWhatWasAsked
<1>4. CASE ServerAnswersWhole
  <2>1. PICK n \in 0..size, stated \in {Unknown, size} : \E ends \in EndOf(n, stated) :
          Responds([status |-> 200, from |-> 0, to |-> 0, total |-> Unknown, stated |-> stated], 0, n, ends)
    BY <1>4 DEF ServerAnswersWhole
  <2>2. PICK ends \in EndOf(n, stated) :
          Responds([status |-> 200, from |-> 0, to |-> 0, total |-> Unknown, stated |-> stated], 0, n, ends)
    BY <2>1
  <2> DEFINE a == [status |-> 200, from |-> 0, to |-> 0, total |-> Unknown, stated |-> stated]
  <2>3. /\ a \in [status : {0, 200, 206, 416}, from : Nat \cup {Malformed}, to : Nat,
                  total : {Unknown, size'}, stated : Nat \cup {Unknown}]
        /\ a.status = 200 /\ a.stated = stated
    BY <1>1
  <2>4. ends \in {"eof", "dropped"} /\ (ends = "eof" /\ stated # Unknown => n = stated)
    BY DEF EndOf
  <2>5. Responds(a, 0, n, ends)
    BY <2>2
  <2>6. n \in Nat /\ 0 + n <= size /\ 0 \in Nat
    BY <1>1
  <2> HIDE DEF a
  <2> QED BY <1>3, <2>3, <2>4, <2>5, <2>6
<1>5. CASE ServerAnswersPart
  <2>1. PICK f \in 0..size, t \in 0..size, n \in 0..size, total \in {Unknown, size} :
          \E from \in {f, Malformed}, stated \in {Unknown} \cup 0..(size + 1) : \E ends \in EndOf(n, stated) :
            /\ f + n <= size
            /\ stated # Unknown => n <= stated
            /\ Responds([status |-> 206, from |-> from, to |-> t, total |-> total, stated |-> stated], f, n, ends)
    BY <1>5 DEF ServerAnswersPart
  <2>2. PICK from \in {f, Malformed}, stated \in {Unknown} \cup 0..(size + 1) : \E ends \in EndOf(n, stated) :
          /\ f + n <= size
          /\ Responds([status |-> 206, from |-> from, to |-> t, total |-> total, stated |-> stated], f, n, ends)
    BY <2>1
  <2>3. PICK ends \in EndOf(n, stated) :
          /\ f + n <= size
          /\ Responds([status |-> 206, from |-> from, to |-> t, total |-> total, stated |-> stated], f, n, ends)
    BY <2>2
  <2> DEFINE a == [status |-> 206, from |-> from, to |-> t, total |-> total, stated |-> stated]
  <2>4. f \in Nat /\ t \in Nat /\ n \in Nat /\ stated \in Nat \cup {Unknown} /\ from \in Nat \cup {Malformed}
    BY <1>1
  <2>5. /\ a \in [status : {0, 200, 206, 416}, from : Nat \cup {Malformed}, to : Nat,
                  total : {Unknown, size'}, stated : Nat \cup {Unknown}]
        /\ a.status = 206 /\ a.from \in {f, Malformed} /\ a.stated = stated
    BY <1>2, <2>4
  <2>6. ends \in {"eof", "dropped"} /\ (ends = "eof" /\ stated # Unknown => n = stated)
    BY DEF EndOf
  <2>7. Responds(a, f, n, ends)
    BY <2>3
  <2> HIDE DEF a
  <2> QED BY <1>3, <2>3, <2>4, <2>5, <2>6, <2>7
<1>6. CASE ServerRefuses
  <2> DEFINE a == [NoAnswer EXCEPT !.status = 416]
  <2>1. Responds(a, 0, 0, "eof")
    BY <1>6 DEF ServerRefuses
  <2>2. a \in [status : {0, 200, 206, 416}, from : Nat \cup {Malformed}, to : Nat,
               total : {Unknown, size'}, stated : Nat \cup {Unknown}]
    BY NoAnswerTyped
  <2>3. a.status = 416
    BY DEF NoAnswer
  <2>4. 0 + 0 <= size /\ 0 \in Nat
    BY <1>1
  <2> HIDE DEF a
  <2> QED BY <1>3, <2>1, <2>2, <2>3, <2>4
<1> QED BY <1>4, <1>5, <1>6 DEF Server

(* What Accept lets through is the part that was asked for.                *)
LEMMA AcceptInv == ASSUME DownloadInv, Accept PROVE DownloadInv'
<1>1. DownloadTypes /\ Inside /\ FileIsTheBlob /\ AskedForNext /\ ResponseRight
  BY DEF DownloadInv
<1>2. /\ stage = "answered" /\ size' = size /\ opts' = opts /\ answer' = answer /\ body' = body /\ file' = file
      /\ unplaced' = unplaced
  BY DEF Accept
<1>3. Inside' /\ FileIsTheBlob'
  BY <1>1, <1>2 DEF Inside, FileIsTheBlob
<1>4. ASSUME stage' \in {"failed", "ignored"}, left' = left
      PROVE  DownloadInv'
  <2>1. DownloadTypes'
    BY <1>1, <1>2, <1>4 DEF DownloadTypes
  <2> QED BY <1>3, <1>4, <2>1 DEF DownloadInv, AskedForNext, ResponseRight, FollowsOn, StillToCome, BroughtWhatWasAsked
<1>5. /\ opts.from = Len(file) /\ Len(file) \in Nat /\ Unread \in Nat /\ size \in Nat
      /\ opts.from <= size
  BY <1>1, <1>2, WordIsNat DEF AskedForNext, DownloadTypes, Unread, Inside
<1>6. CASE answer.status \in {200, 206} /\ ~Wanted /\ stage' = "reading" /\ left' = NoReader
  <2>1. Len(file) = 0
    BY <1>5, <1>6 DEF Wanted
  <2>2. DownloadTypes'
    BY <1>1, <1>2, <1>6 DEF DownloadTypes
  <2>3. /\ Unread <= size
        /\ body.ends = "eof" /\ answer.stated # Unknown => Unread = answer.stated
    BY <1>1, <1>2, <1>6 DEF ResponseRight
  <2>4. answer.status = 200 => \A i \in 1..Unread : body.octets[i] = 0 + i - 1
    BY <1>1, <1>2, Minus DEF ResponseRight, Begins
  <2>5. ~Wanted'
    BY <1>2, <1>6 DEF Wanted
  <2>6. FollowsOn'
    BY <1>2, <1>5, <1>6, <2>1, <2>3, <2>4, <2>5 DEF FollowsOn, Unread, Unasked
  <2>7. StillToCome'
    BY <1>2, <1>5, <1>6, <2>1, <2>3, <2>5 DEF StillToCome, Unread
  <2> QED BY <1>3, <1>6, <2>2, <2>6, <2>7 DEF DownloadInv, AskedForNext, ResponseRight, BroughtWhatWasAsked
<1>7. CASE /\ answer.status = 206 /\ Wanted /\ Placed(answer)
           /\ left' = IF answer.stated < 0 THEN answer.to - answer.from + 1 ELSE NoReader
           /\ stage' = "reading"
  <2>1. /\ EndsAsAsked /\ answer.from = opts.from /\ answer.to >= answer.from
        /\ answer.stated >= 0 => answer.stated = answer.to - answer.from + 1
    BY <1>1, <1>5, <1>7, PlacedEnds
  <2>2. answer.to \in Nat /\ answer.from \in Nat /\ answer.stated \in Nat \cup {-1}
    BY <1>1, <1>5, <2>1, Minus DEF DownloadTypes
  <2>3. left' \in Nat \cup {NoReader} /\ left' # 0
    BY <1>7, <2>1, <2>2, Minus
  <2>4. DownloadTypes'
    BY <1>1, <1>2, <2>3 DEF DownloadTypes
  <2>5. /\ \A i \in 1..Unread : body.octets[i] = Len(file) + i - 1
        /\ Len(file) + Unread <= size
        /\ body.ends = "eof" /\ answer.stated # Unknown => Unread = answer.stated
    <3>1. Begins = answer.from /\ Begins = Len(file) /\ Begins # Malformed
      BY <1>5, <1>7, <2>1, <2>2, Minus DEF Begins
    <3>2. /\ \A i \in 1..Unread : body.octets[i] = Begins + i - 1
          /\ Begins + Unread <= size
          /\ body.ends = "eof" /\ answer.stated # Unknown => Unread = answer.stated
      BY <1>1, <1>2, <1>7, <3>1 DEF ResponseRight
    <3> QED BY <3>1, <3>2, Zenon
  <2>6. FollowsOn'
    BY <1>2, <2>5 DEF FollowsOn, Unread
  <2>7. left' # NoReader => Len(file) + left' = answer.to + 1
    BY <1>5, <1>7, <2>1, <2>2
  <2>8. left' = NoReader => answer.stated >= 0
    BY <1>7, <2>1, <2>2, Minus
  <2>9. left' = NoReader /\ body.ends = "eof" => Len(file) + Unread = answer.to + 1
    <3> SUFFICES ASSUME left' = NoReader, body.ends = "eof" PROVE Len(file) + Unread = answer.to + 1
      OBVIOUS
    <3>1. Unread = answer.stated
      BY <2>5, <2>8, Minus
    <3>2. answer.stated = answer.to - Len(file) + 1
      BY <1>5, <2>1, <2>8
    <3> QED BY <1>5, <2>2, <3>1, <3>2
  <2>10. StillToCome'
    BY <1>2, <1>7, <2>1, <2>7, <2>9 DEF StillToCome, EndsAsAsked, Unread, Wanted
  <2> QED BY <1>3, <1>7, <2>4, <2>6, <2>10 DEF DownloadInv, AskedForNext, ResponseRight, BroughtWhatWasAsked
<1> QED BY <1>4, <1>6, <1>7 DEF Accept, Ignored

(* Taking up a download keeps the file, and starting again empties it.     *)
LEMMA TakeUpInv == ASSUME DownloadInv, TakeUp PROVE DownloadInv'
<1>1. DownloadTypes /\ Inside /\ FileIsTheBlob
  BY DEF DownloadInv
<1>2. /\ size' = size /\ opts' = [from |-> 0, length |-> 0]
      /\ answer' = NoAnswer /\ body' = [octets |-> <<>>, ends |-> "eof"] /\ left' = NoReader
      /\ file' = IF stage = "ignored" THEN <<>> ELSE file
      /\ unplaced' = IF stage = "ignored" THEN 0 ELSE unplaced
      /\ stage' \in {"asked", "idle"}
      /\ stage' = "asked" => stage = "ignored"
  BY DEF TakeUp
<1>3. DownloadTypes'
  BY <1>1, <1>2, WordIsNat DEF DownloadTypes, NoAnswer
<1>4. Inside' /\ FileIsTheBlob'
  BY <1>1, <1>2, WordIsNat DEF Inside, FileIsTheBlob, DownloadTypes
<1>5. AskedForNext'
  BY <1>2 DEF AskedForNext
<1> QED BY <1>2, <1>3, <1>4, <1>5 DEF DownloadInv, ResponseRight, FollowsOn, StillToCome, BroughtWhatWasAsked

LEMMA DownloadNextInv == DownloadInv /\ [DownloadNext]_downloadVars => DownloadInv'
<1> SUFFICES ASSUME DownloadInv, [DownloadNext]_downloadVars PROVE DownloadInv'
  OBVIOUS
<1>1. CASE UNCHANGED downloadVars
  BY <1>1 DEF downloadVars, DownloadInv, DownloadTypes, Inside, AskedForNext, ResponseRight, Begins, Unread, EndsAsAsked,
              FollowsOn, StillToCome, FileIsTheBlob, BroughtWhatWasAsked, Wanted, Unasked
<1>2. CASE Ask
  BY <1>2, AskInv
<1>3. CASE Server
  BY <1>3, ServerInv
<1>4. CASE Accept
  BY <1>4, AcceptInv
<1>5. CASE Read
  BY <1>5, ReadBodyInv, ReadPartInv, ReadPastPartInv DEF Read
<1>6. CASE TakeUp
  BY <1>6, TakeUpInv
<1> QED BY <1>1, <1>2, <1>3, <1>4, <1>5, <1>6 DEF DownloadNext

(* So all of it holds of every reachable state.                           *)
LEMMA DownloadInvariant == DownloadSpec => []DownloadInv
<1> QED BY DownloadInitInv, DownloadNextInv, PTL DEF DownloadSpec

-----------------------------------------------------------------------------

(* Whatever the server answers, and wherever downloads broke off and were  *)
(* taken up, the file is the beginning of the blob, save for what came in a*)
(* part that no range asked for.                                           *)
THEOREM NoOctetMisplaced == DownloadSpec => []FileIsTheBlob
<1>1. DownloadInv => FileIsTheBlob
  BY DEF DownloadInv
<1> QED BY <1>1, DownloadInvariant, PTL

(* A download that ends without an error has brought what was asked for,   *)
(* or without a range what the answer said its length was.                 *)
THEOREM NothingMissing == DownloadSpec => []BroughtWhatWasAsked
<1>1. DownloadInv => BroughtWhatWasAsked
  BY DEF DownloadInv
<1> QED BY <1>1, DownloadInvariant, PTL

==============================================================================
