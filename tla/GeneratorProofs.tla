--------------------------- MODULE GeneratorProofs ---------------------------
(***************************************************************************)
(* Proofs about a program using generated code: for any of the languages,  *)
(* any requests and sessions, any list and any number of changes. And of   *)
(* the catalogue the code is generated from: for any schemas it is made of.*)
(***************************************************************************)
EXTENDS Generated, Project, WellFoundedInduction, TLAPS

-----------------------------------------------------------------------------
(* What the clients share: the first of a set of calls, and the operators  *)
(* that each client has a copy of.                                         *)

(* The order of the naturals is well founded.                              *)
LEMMA LessThan == \E R : IsWellFoundedOn(R, Nat) /\ \A x, y \in Nat : x < y => <<x, y>> \in R
<1> DEFINE R == OpToRel(<, Nat)
<1>1. IsWellFoundedOn(R, Nat)
  BY NatLessThanWellFounded, Zenon
<1>2. ASSUME NEW x \in Nat, NEW y \in Nat, x < y PROVE <<x, y>> \in R
  BY <1>2, SMT DEF OpToRel
<1> HIDE DEF R
<1> QED BY <1>1, <1>2
(* So a set of naturals that is not empty has its least element in it.     *)
LEMMA MinIn == ASSUME NEW S, S \subseteq Nat, S # {} PROVE Min(S) \in S /\ \A y \in S : Min(S) <= y
<1>1. PICK R : IsWellFoundedOn(R, Nat) /\ \A x, y \in Nat : x < y => <<x, y>> \in R
  BY LessThan
<1>2. PICK x \in S : \A y \in S : ~ (<<y, x>> \in R)
  <2>1. IsWellFoundedOn(R, Nat)
    BY <1>1
  <2> QED BY <2>1, WFMin, Zenon
<1>3. ASSUME NEW y \in S PROVE x <= y
  <2>1. \A u, v \in Nat : u < v => <<u, v>> \in R
    BY <1>1
  <2>2. x \in Nat /\ y \in Nat
    OBVIOUS
  <2>3. ~ (y < x)
    BY <1>2, <2>1, <2>2, Zenon
  <2> QED BY <2>2, <2>3
<1> QED BY <1>3, Zenon DEF Min

(* What a client takes from ClientTypes is what Generated takes from it.   *)
LEMMA SameOperators ==
  /\ \A resp, i : /\ Go!First(resp, i) = First(resp, i) /\ Ts!First(resp, i) = First(resp, i)
                  /\ Rust!First(resp, i) = First(resp, i)
  /\ \A r, i : Go!Lists(r, i) = Lists(r, i) /\ Ts!Lists(r, i) = Lists(r, i) /\ Rust!Lists(r, i) = Lists(r, i)
  /\ \A r : Go!Given(r) = Given(r) /\ Ts!Given(r) = Given(r) /\ Rust!Given(r) = Given(r)
  /\ \A r : Go!Aside(r) = Aside(r) /\ Ts!Aside(r) = Aside(r) /\ Rust!Aside(r) = Aside(r)
  /\ \A r, resp : /\ Go!Refused(r, resp) = Refused(r, resp) /\ Ts!Refused(r, resp) = Refused(r, resp)
                  /\ Rust!Refused(r, resp) = Refused(r, resp)
  /\ \A S : Go!Min(S) = Min(S) /\ Ts!Min(S) = Min(S) /\ Rust!Min(S) = Min(S)
  /\ \A S : Go!Range(S) = Range(S) /\ Ts!Range(S) = Range(S) /\ Rust!Range(S) = Range(S)
<1>1. \A r, i : Go!Lists(r, i) = Lists(r, i) /\ Ts!Lists(r, i) = Lists(r, i) /\ Rust!Lists(r, i) = Lists(r, i)
  BY Zenon DEF Go!Lists, Ts!Lists, Rust!Lists, Lists,
               Go!SetErrorFields, Ts!SetErrorFields, Rust!SetErrorFields, SetErrorFields
<1>2. \A r : Go!Given(r) = Given(r) /\ Ts!Given(r) = Given(r) /\ Rust!Given(r) = Given(r)
  BY Zenon DEF Go!Given, Ts!Given, Rust!Given, Given
<1>3. \A resp, i : /\ Go!First(resp, i) = First(resp, i) /\ Ts!First(resp, i) = First(resp, i)
                  /\ Rust!First(resp, i) = First(resp, i)
  BY Zenon DEF Go!First, Ts!First, Rust!First, First
<1>4. \A r : Go!Aside(r) = Aside(r) /\ Ts!Aside(r) = Aside(r) /\ Rust!Aside(r) = Aside(r)
  BY <1>1, <1>2 DEF Go!Aside, Ts!Aside, Rust!Aside, Aside
<1>5. \A r, resp : /\ Go!Refused(r, resp) = Refused(r, resp) /\ Ts!Refused(r, resp) = Refused(r, resp)
                  /\ Rust!Refused(r, resp) = Refused(r, resp)
  BY <1>1, <1>2, <1>3, <1>4, SMT DEF Go!Refused, Ts!Refused, Rust!Refused, Refused
<1>6. \A S : Go!Min(S) = Min(S) /\ Ts!Min(S) = Min(S) /\ Rust!Min(S) = Min(S)
  BY Zenon DEF Go!Min, Ts!Min, Rust!Min, Min
<1>7. \A S : Go!Range(S) = Range(S) /\ Ts!Range(S) = Range(S) /\ Rust!Range(S) = Range(S)
  BY Zenon DEF Go!Range, Ts!Range, Rust!Range, Range
<1> QED BY <1>1, <1>2, <1>3, <1>4, <1>5, <1>6, <1>7, Zenon

-----------------------------------------------------------------------------
(* The generated function: a result without an error is whole.             *)

Entries == {"absent", "answered", "refused", "garbled", "error"}

(* A response the server may give: a call has refused records only where   *)
(* its method answers with them.                                           *)
Responds(r, resp) ==
  /\ DOMAIN resp = DOMAIN r.calls
  /\ \A i \in DOMAIN r.calls : /\ First(resp, i) \in Entries
                               /\ First(resp, i) = "refused" => Lists(r, i)

Unfailed(resp) == \A i \in DOMAIN resp : "error" \notin Range(resp[i])

ReadWhole(r, resp) == \A i \in DOMAIN r.calls : Lists(r, i) => First(resp, i) \in {"answered", "garbled"}

GivenWhole(r, resp, value) ==
  /\ value = Given(r)
  /\ \A i \in value : First(resp, i) = "answered"
  /\ \A i \in Aside(r) : First(resp, i) = "answered"

(* The calls a function gives and reads are calls of the request, and every*)
(* one that lists refusals is given or read.                               *)
LEMMA Places == ASSUME NEW r \in Requests
                PROVE  /\ DOMAIN r.calls \subseteq Nat /\ Given(r) \subseteq DOMAIN r.calls
                       /\ Aside(r) \subseteq DOMAIN r.calls
                       /\ \A i \in DOMAIN r.calls : Lists(r, i) => i \in Given(r) \cup Aside(r)
<1>1. r.calls \in Seq(Range(r.calls)) /\ r.returns \in {0} \cup DOMAIN r.calls
  BY RequestsAssumption
<1>2. DOMAIN r.calls = 1..Len(r.calls) /\ Len(r.calls) \in Nat
  BY <1>1
<1>3. DOMAIN r.calls \subseteq Nat
  BY <1>2
<1>4. Given(r) \subseteq DOMAIN r.calls
  BY <1>1 DEF Given
<1> QED BY <1>3, <1>4 DEF Aside

(* Where no refusal was found, no call that lists them was refused any.    *)
LEMMA NoneRefused ==
  ASSUME NEW r \in Requests, NEW resp, Responds(r, resp), Refused(r, resp) = {},
         NEW i \in DOMAIN r.calls, Lists(r, i)
  PROVE  First(resp, i) # "refused"
<1>1. i \in Given(r) \cup Aside(r)
  BY Places
<1>2. SUFFICES ASSUME First(resp, i) = "refused" PROVE FALSE
  OBVIOUS
<1>3. <<"refused", i>> \in Refused(r, resp)
  BY <1>1, <1>2 DEF Refused
<1> QED BY <1>3

(* The Go function: no error, then everything it gives was answered.       *)
LEMMA GoWhole ==
  ASSUME NEW r \in Requests, NEW resp, Responds(r, resp), Go!Func(r, resp).errors = {}
  PROVE  Unfailed(resp) /\ ReadWhole(r, resp) /\ GivenWhole(r, resp, Go!Func(r, resp).value)
<1> DEFINE err    == Go!Errors(resp)
           unread == {i \in Given(r) : Go!Decode(resp, i) # {}}
           lost   == {i \in Aside(r) : Go!Decode(resp, i) # {}}
<1>1. unread # {} => Go!Decode(resp, Min(unread)) # {}
  BY MinIn, Places
<1>2. lost # {} => Go!Decode(resp, Min(lost)) # {}
  BY MinIn, Places
<1>3. Go!Func(r, resp) =
        IF unread # {} /\ (r.returns # 0 \/ err = {})
        THEN [value |-> {}, errors |-> IF err # {} THEN err ELSE Go!Decode(resp, Min(unread))]
        ELSE IF lost # {} THEN [value |-> {}, errors |-> Go!Decode(resp, Min(lost))]
        ELSE [value |-> Given(r) \ unread, errors |-> err \cup Refused(r, resp)]
  BY SameOperators, Zenon DEF Go!Func, Go!SetErrorChecks, Go!Fails, Go!Gives
<1> HIDE DEF err, unread, lost
<1>4. err = {} /\ unread = {} /\ lost = {} /\ Refused(r, resp) = {} /\ Go!Func(r, resp).value = Given(r) \ unread
  BY <1>1, <1>2, <1>3
<1>5. Unfailed(resp)
  BY <1>4, SameOperators DEF err, Go!Errors, Unfailed
<1>6. ASSUME NEW i \in Given(r) \cup Aside(r) PROVE First(resp, i) = "answered"
  <2>1. Go!Decode(resp, i) = {}
    BY <1>4 DEF unread, lost
  <2>2. First(resp, i) \in {"answered", "refused"}
    BY <2>1, SameOperators, Places DEF Go!Decode, Responds, Entries
  <2> QED BY <2>2, <1>4, NoneRefused, Places DEF Responds
<1>7. ReadWhole(r, resp)
  BY <1>6, Places DEF ReadWhole
<1> QED BY <1>4, <1>5, <1>6, <1>7 DEF GivenWhole

(* The Rust function: the same.                                            *)
LEMMA RustWhole ==
  ASSUME NEW r \in Requests, NEW resp, Responds(r, resp), Rust!Func(r, resp).errors = {}
  PROVE  Unfailed(resp) /\ ReadWhole(r, resp) /\ GivenWhole(r, resp, Rust!Func(r, resp).value)
<1> DEFINE err    == Rust!MethodErrors(resp)
           unread == {i \in Given(r) : Rust!Decode(resp, i) # {}}
           lost   == {i \in Aside(r) : Rust!Decode(resp, i) # {}}
<1>1. unread # {} => Rust!Decode(resp, Min(unread)) # {}
  BY MinIn, Places
<1>2. lost # {} => Rust!Decode(resp, Min(lost)) # {}
  BY MinIn, Places
<1>3. Rust!Func(r, resp) =
        IF unread # {} /\ err = {} THEN [value |-> {}, errors |-> Rust!Decode(resp, Min(unread))]
        ELSE IF unread # {} /\ r.returns # 0 THEN [value |-> {}, errors |-> err]
        ELSE IF err # {} THEN [value |-> Given(r) \ unread, errors |-> err]
        ELSE IF lost # {} THEN [value |-> {}, errors |-> Rust!Decode(resp, Min(lost))]
        ELSE [value |-> Given(r), errors |-> Refused(r, resp)]
  BY SameOperators, Zenon DEF Rust!Func, Rust!SetErrorChecks, Rust!Fails, Rust!Gives
<1> HIDE DEF err, unread, lost
<1>4. err = {} /\ unread = {} /\ lost = {} /\ Refused(r, resp) = {} /\ Rust!Func(r, resp).value = Given(r)
  BY <1>1, <1>2, <1>3
<1>5. Unfailed(resp)
  BY <1>4, SameOperators DEF err, Rust!MethodErrors, Unfailed
<1>6. ASSUME NEW i \in Given(r) \cup Aside(r) PROVE First(resp, i) = "answered"
  <2>1. Rust!Decode(resp, i) = {}
    BY <1>4 DEF unread, lost
  <2>2. First(resp, i) \in {"answered", "refused"}
    BY <2>1, SameOperators, Places DEF Rust!Decode, Responds, Entries
  <2> QED BY <2>2, <1>4, NoneRefused, Places DEF Responds
<1>7. ReadWhole(r, resp)
  BY <1>6, Places DEF ReadWhole
<1> QED BY <1>4, <1>5, <1>6, <1>7 DEF GivenWhole

(* The TypeScript function: no call failed, and what lists refusals was    *)
(* answered or is not what it is read as.                                  *)
LEMMA TsWhole ==
  ASSUME NEW r \in Requests, NEW resp, Responds(r, resp), Ts!Func(r, resp).errors = {}
  PROVE  /\ Unfailed(resp) /\ ReadWhole(r, resp)
         /\ \A i \in Ts!Func(r, resp).value : First(resp, i) # "absent"
<1> DEFINE err     == Ts!MethodErrors(resp)
           there   == IF r.returns = 0 THEN {i \in Given(r) : Ts!Answered(resp, i)} ELSE Given(r)
           unread  == {i \in there : Ts!Decode(resp, i) # {}}
           lost    == {i \in Aside(r) : Ts!Decode(resp, i) # {}}
           nothing == {i \in Given(r) \ there : Lists(r, i)}
           thrown  == {<<"thrown", Min(nothing)>>}
<1>1. unread # {} => Ts!Decode(resp, Min(unread)) # {}
  BY MinIn, Places
<1>2. lost # {} => Ts!Decode(resp, Min(lost)) # {}
  BY MinIn, Places
<1>3. Ts!Func(r, resp) =
        IF r.returns # 0 /\ err # {} /\ ~Ts!Answered(resp, r.returns) THEN [value |-> {}, errors |-> err]
        ELSE IF unread # {} THEN [value |-> {}, errors |-> Ts!Decode(resp, Min(unread))]
        ELSE IF err # {} THEN [value |-> there, errors |-> err]
        ELSE IF lost # {} THEN [value |-> {}, errors |-> Ts!Decode(resp, Min(lost))]
        ELSE IF nothing # {} THEN [value |-> {}, errors |-> thrown]
        ELSE [value |-> there, errors |-> Refused(r, resp)]
  BY SameOperators, Zenon DEF Ts!Func, Ts!SetErrorChecks, Ts!Fails, Ts!Gives
<1>0. thrown # {}
  OBVIOUS
<1> HIDE DEF err, there, unread, lost, nothing, thrown
<1>4. err = {} /\ unread = {} /\ lost = {} /\ nothing = {} /\ Refused(r, resp) = {}
      /\ Ts!Func(r, resp).value = there
  <2>2. unread = {}
    BY <1>1, <1>3
  <2>3. err = {}
    BY <1>3, <2>2
  <2>4. lost = {}
    BY <1>2, <1>3, <2>2, <2>3
  <2>5. nothing = {}
    BY <1>0, <1>3, <2>2, <2>3, <2>4
  <2> QED BY <1>3, <2>2, <2>3, <2>4, <2>5
<1>5. Unfailed(resp)
  BY <1>4, SameOperators DEF err, Ts!MethodErrors, Unfailed
<1>6. ASSUME NEW i \in DOMAIN r.calls, Lists(r, i) PROVE First(resp, i) \in {"answered", "garbled"}
  <2>1. i \in there \cup Aside(r)
    BY <1>4, <1>6, Places DEF nothing
  <2>2. Ts!Decode(resp, i) = {}
    BY <1>4, <2>1 DEF unread, lost
  <2>3. First(resp, i) \in {"answered", "refused", "garbled"}
    BY <2>2, SameOperators DEF Ts!Decode, Responds, Entries
  <2> QED BY <2>3, <1>4, <1>6, NoneRefused
<1>7. ASSUME NEW i \in there PROVE First(resp, i) # "absent"
  <2>1. Ts!Decode(resp, i) = {}
    BY <1>4 DEF unread
  <2> QED BY <2>1, SameOperators DEF Ts!Decode
<1> QED BY <1>4, <1>5, <1>6, <1>7 DEF ReadWhole

-----------------------------------------------------------------------------
(* What stops a request before it is sent: the lookup of its accounts, and *)
(* the check of its capabilities and size.                                 *)

(* A definition of the client of language l.                               *)
Finds(l, s, r) == CASE l = "go"   -> Go!Check(s, Go!Needs(r))
                    [] l = "ts"   -> Ts!CheckNeeds(s, Ts!Needs(r))
                    [] l = "rust" -> Rust!CheckNeeds(s, Rust!Needs(r))
LooksUp(l, s, r) == CASE l = "go"   -> Go!SessionLookups(s, r)
                      [] l = "ts"   -> Ts!SessionLookups(s, r)
                      [] l = "rust" -> Rust!SessionLookups(s, r)
Preflights(l, s, r) == CASE l = "go"   -> Go!Preflight(s, r)
                         [] l = "ts"   -> Ts!Preflight(s, r)
                         [] l = "rust" -> Rust!Preflight(s, r)

(* The first problem of a list is one of them, where there is any.         *)
LEMMA FirstOfSome ==
  ASSUME NEW problems, DOMAIN problems \subseteq Nat
  PROVE  /\ FirstOf(problems) = {} => \A k \in DOMAIN problems : problems[k] = {}
         /\ FirstOf(problems) # {} => \E k \in DOMAIN problems : FirstOf(problems) = problems[k]
<1> DEFINE at == {k \in DOMAIN problems : problems[k] # {}}
<1>1. at # {} => Min(at) \in at
  BY MinIn
<1>2. FirstOf(problems) = IF at = {} THEN {} ELSE problems[Min(at)]
  BY Zenon DEF FirstOf
<1> HIDE DEF at
<1>3. CASE at = {}
  BY <1>2, <1>3 DEF at
<1>4. CASE at # {}
  BY <1>1, <1>2, <1>4 DEF at
<1> QED BY <1>3, <1>4

LEMMA SameFirstOf == \A problems : /\ Go!FirstOf(problems) = FirstOf(problems)
                                   /\ Ts!FirstOf(problems) = FirstOf(problems)
                                   /\ Rust!FirstOf(problems) = FirstOf(problems)
BY SameOperators DEF Go!FirstOf, Ts!FirstOf, Rust!FirstOf, FirstOf

(* What every client finds wrong with a capability, and with the size.     *)
CapabilityProblem(s, uri) == IF uri \in s.caps THEN {} ELSE {<<"unknownCapability", uri>>}
SizeProblem(s, n)        == IF "core" \in s.caps /\ s.max > 0 /\ n > s.max THEN {<<"limit", n>>} ELSE {}

(* The problem a client of language l has with the account of a capability *)
AccountProblem(l, s, cap) == IF l = "go" THEN Go!PrimaryAccountID(s, cap)
                      ELSE IF l = "ts" THEN Ts!PrimaryAccountID(s, cap) ELSE Rust!PrimaryAccountID(s, cap)

LEMMA IsASeq ==
  ASSUME NEW f, NEW n \in Nat, NEW S, DOMAIN f = 1..n, f = [i \in DOMAIN f |-> f[i]], \A i \in 1..n : f[i] \in S
  PROVE  f \in Seq(S) /\ Len(f) = n
<1>1. f \in [1..n -> S]
  BY Zenon
<1> QED BY <1>1

Clients == {"go", "ts", "rust"}

(* The three clients check capabilities and size alike.                    *)
LEMMA SameChecks ==
  ASSUME NEW s, NEW x
  PROVE  /\ Go!RequireCapability(s, x) = CapabilityProblem(s, x)
         /\ Ts!RequireCapability(s, x) = CapabilityProblem(s, x)
         /\ Rust!RequireCapability(s, x) = CapabilityProblem(s, x)
         /\ Go!RequireCalls(s, x) = SizeProblem(s, x) /\ Ts!RequireCalls(s, x) = SizeProblem(s, x)
         /\ Rust!RequireCalls(s, x) = SizeProblem(s, x)
BY Zenon DEF Go!RequireCapability, Ts!RequireCapability, Rust!RequireCapability, CapabilityProblem,
             Go!RequireCalls, Ts!RequireCalls, Rust!RequireCalls, SizeProblem

(* A problem with an account names its capability.                         *)
LEMMA AccountProblemNames ==
  ASSUME NEW l \in Clients, NEW s, NEW cap, NEW e \in AccountProblem(l, s, cap)
  PROVE  e[2] = cap
<1>1. CASE l = "go"
  BY <1>1 DEF AccountProblem, Go!PrimaryAccountID
<1>2. CASE l = "ts"
  <2>1. e \in Ts!PrimaryAccountID(s, cap)
    BY <1>2, "ts" # "go" /\ "rust" # "go" /\ "rust" # "ts" DEF AccountProblem
  <2>2. e = <<"noPrimary", cap>>
    BY <2>1, Zenon DEF Ts!PrimaryAccountID
  <2> QED BY <2>2
<1>3. CASE l = "rust"
  <2>1. e \in Rust!PrimaryAccountID(s, cap)
    BY <1>3, "ts" # "go" /\ "rust" # "go" /\ "rust" # "ts" DEF AccountProblem
  <2>2. e = <<"noPrimary", cap>>
    BY <2>1, Zenon DEF Rust!PrimaryAccountID
  <2> QED BY <2>2
<1> QED BY <1>1, <1>2, <1>3 DEF Clients

(* A lookup stops at one account's problem, or there is none.              *)
LEMMA LookupsOf ==
  ASSUME NEW l \in Clients, NEW s, NEW r \in Requests
  PROVE  /\ LooksUp(l, s, r) = {} => \A cap \in Range(r.primaries) : AccountProblem(l, s, cap) = {}
         /\ LooksUp(l, s, r) # {} => \E cap \in Range(r.primaries) : LooksUp(l, s, r) = AccountProblem(l, s, cap)
<1> DEFINE problems == [i \in DOMAIN r.primaries |-> AccountProblem(l, s, r.primaries[i])]
<1>0. r.primaries \in Seq(Range(r.primaries))
  BY RequestsAssumption
<1>1. DOMAIN problems \subseteq Nat
  BY <1>0
<1>2. LooksUp(l, s, r) = FirstOf(problems)
  <2>1. CASE l = "go"
    BY <2>1, SameFirstOf DEF LooksUp, Go!SessionLookups, AccountProblem
  <2>2. CASE l = "ts"
    BY <2>2, SameFirstOf DEF LooksUp, Ts!SessionLookups, AccountProblem
  <2>3. CASE l = "rust"
    BY <2>3, SameFirstOf DEF LooksUp, Rust!SessionLookups, AccountProblem
  <2> QED BY <2>1, <2>2, <2>3 DEF Clients
<1>3. \A i \in DOMAIN r.primaries : i \in DOMAIN problems /\ problems[i] = AccountProblem(l, s, r.primaries[i])
  OBVIOUS
<1>4. DOMAIN problems = DOMAIN r.primaries
  OBVIOUS
<1> HIDE DEF problems
<1>5. /\ FirstOf(problems) = {} => \A k \in DOMAIN problems : problems[k] = {}
      /\ FirstOf(problems) # {} => \E k \in DOMAIN problems : FirstOf(problems) = problems[k]
  BY <1>1, FirstOfSome
<1> QED BY <1>2, <1>3, <1>4, <1>5 DEF Range

(* A check before sending stops at one capability's problem or the size.   *)
LEMMA PreflightOf ==
  ASSUME NEW l \in Clients, NEW s, NEW r \in Requests, Preflights(l, s, r) # {}
  PROVE  \/ \E uri \in Range(r.using) : Preflights(l, s, r) = CapabilityProblem(s, uri)
         \/ Preflights(l, s, r) = SizeProblem(s, Len(r.calls))
<1> DEFINE first    == [i \in DOMAIN r.using |-> CapabilityProblem(s, r.using[i])]
           problems == Append(first, SizeProblem(s, Len(r.calls)))
<1>0. r.using \in Seq(Range(r.using)) /\ DOMAIN r.using = 1..Len(r.using) /\ Len(r.using) \in Nat
  <2>1. r.using \in Seq(Range(r.using))
    BY RequestsAssumption
  <2> QED BY <2>1
<1>1. first \in Seq({CapabilityProblem(s, x) : x \in Range(r.using)}) /\ Len(first) = Len(r.using)
  <2>1. DOMAIN first = 1..Len(r.using)
    BY <1>0
  <2>2. \A i \in 1..Len(r.using) : first[i] \in {CapabilityProblem(s, x) : x \in Range(r.using)}
    BY <1>0 DEF Range
  <2>3. first = [i \in DOMAIN first |-> first[i]]
    OBVIOUS
  <2> HIDE DEF first
  <2> QED BY <1>0, <2>1, <2>2, <2>3, IsASeq
<1>2. /\ DOMAIN problems = 1..(Len(r.using) + 1)
      /\ \A k \in DOMAIN problems : problems[k] = IF k = Len(r.using) + 1 THEN SizeProblem(s, Len(r.calls))
                                                  ELSE CapabilityProblem(s, r.using[k])
  <2> DEFINE S == {CapabilityProblem(s, x) : x \in Range(r.using)} \cup {SizeProblem(s, Len(r.calls))}
  <2>1. first \in Seq(S) /\ SizeProblem(s, Len(r.calls)) \in S
    BY <1>1
  <2> HIDE DEF S
  <2>2. /\ DOMAIN problems = 1..(Len(first) + 1)
        /\ \A k \in 1..(Len(first) + 1) : problems[k] = IF k = Len(first) + 1 THEN SizeProblem(s, Len(r.calls))
                                                        ELSE first[k]
    <3> HIDE DEF first
    <3> QED BY <2>1
  <2>3. \A k \in 1..Len(first) : first[k] = CapabilityProblem(s, r.using[k])
    BY <1>0, <1>1
  <2>4. Len(first) = Len(r.using) /\ Len(r.using) \in Nat
    BY <1>0, <1>1
  <2> HIDE DEF problems, first
  <2> QED BY <2>2, <2>3, <2>4
<1>3. Preflights(l, s, r) = FirstOf(problems)
  <2>1. CASE l = "go"
    BY <2>1, SameFirstOf, SameChecks DEF Preflights, Go!Preflight
  <2>2. CASE l = "ts"
    BY <2>2, SameFirstOf, SameChecks DEF Preflights, Ts!Preflight
  <2>3. CASE l = "rust"
    BY <2>3, SameFirstOf, SameChecks DEF Preflights, Rust!Preflight
  <2> QED BY <2>1, <2>2, <2>3 DEF Clients
<1> HIDE DEF problems
<1>4. PICK k \in DOMAIN problems : FirstOf(problems) = problems[k]
  <2>1. DOMAIN problems \subseteq Nat
    BY <1>0, <1>2
  <2> QED BY <1>3, <2>1, FirstOfSome
<1>5. k \in 1..(Len(r.using) + 1) /\ (k # Len(r.using) + 1 => k \in DOMAIN r.using)
  BY <1>0, <1>2
<1> QED BY <1>2, <1>3, <1>4, <1>5 DEF Range

-----------------------------------------------------------------------------
(* What verify finds of a request (Complete: everything that would stop it,*)
(* and an account that lacks a capability; Grounded: nothing else).        *)

(* The primary account of a capability is one that says it lacks it.       *)
Lacks(s, cap) == LET id == s.primary[cap] IN
                 id \in DOMAIN s.accounts /\ s.accounts[id] # {} /\ cap \notin s.accounts[id]

Offers(s, r, cap) == cap \in Range(r.using) => cap \in s.caps

(* Every problem found that would stop the request, as long as the         *)
(* capability an account is of is offered; and nothing found without cause.*)
Complete(l, s, r, found) ==
  /\ \A uri \in Range(r.using) : CapabilityProblem(s, uri) \subseteq found
  /\ SizeProblem(s, Len(r.calls)) \subseteq found
  /\ \A cap \in Range(r.primaries) :
       Offers(s, r, cap) => /\ AccountProblem(l, s, cap) \subseteq found
                            /\ AccountProblem(l, s, cap) = {} /\ Lacks(s, cap) => found # {}

Grounded(l, s, r, found) ==
  found # {} => \/ \E uri \in Range(r.using) : CapabilityProblem(s, uri) # {}
                \/ SizeProblem(s, Len(r.calls)) # {}
                \/ \E cap \in Range(r.primaries) : AccountProblem(l, s, cap) # {} \/ Lacks(s, cap)

(* The Go client's Check.                                                  *)
LEMMA GoFinds == ASSUME NEW s, NEW r
                 PROVE  LET found == Go!Check(s, Go!Needs(r)) IN
                        Complete("go", s, r, found) /\ Grounded("go", s, r, found)
<1> DEFINE n == Go!Needs(r)
           found == Go!Check(s, n)
           Own(cap) == IF AccountProblem("go", s, cap) # {} THEN AccountProblem("go", s, cap)
                       ELSE IF Lacks(s, cap) THEN {<<"accountNotSupported", cap>>} ELSE {}
           wanting == {cap \in Range(r.primaries) : Offers(s, r, cap)}
           C == {Go!RequireCapability(s, uri) : uri \in n.using}
           D == {IF Go!PrimaryAccountID(s, cap) # {} THEN Go!PrimaryAccountID(s, cap)
                 ELSE IF Go!AccountSupports(s, s.primary[cap], cap) THEN {}
                 ELSE {<<"accountNotSupported", cap>>} :
                   cap \in {c \in n.primaries : c \in n.using => c \in s.caps}}
<1>1. found = (UNION C) \cup (UNION D) \cup Go!RequireCalls(s, n.calls)
  BY Zenon DEF Go!Check
<1>2. n.using = Range(r.using) /\ n.primaries = Range(r.primaries) /\ n.calls = Len(r.calls)
  <2>1. Go!Needs(r) = [using |-> Range(r.using), primaries |-> Range(r.primaries), calls |-> Len(r.calls)]
    BY SameOperators, Zenon DEF Go!Needs
  <2> QED BY <2>1
<1> HIDE DEF n, found, Own, wanting, C, D
<1>3. ASSUME NEW cap
      PROVE  /\ AccountProblem("go", s, cap) \subseteq Own(cap)
             /\ AccountProblem("go", s, cap) = {} /\ Lacks(s, cap) => Own(cap) # {}
             /\ Own(cap) # {} => AccountProblem("go", s, cap) # {} \/ Lacks(s, cap)
             /\ cap \in wanting <=> cap \in Range(r.primaries) /\ Offers(s, r, cap)
  BY DEF Own, wanting
<1>4. C = {CapabilityProblem(s, uri) : uri \in Range(r.using)}
  <2>1. \A uri : Go!RequireCapability(s, uri) = CapabilityProblem(s, uri)
    BY SameChecks
  <2> QED BY <1>2, <2>1 DEF C
<1>5. D = {Own(cap) : cap \in wanting}
  <2>1. \A cap : AccountProblem("go", s, cap) = Go!PrimaryAccountID(s, cap)
    BY Zenon DEF AccountProblem
  <2>2. \A cap : Go!AccountSupports(s, s.primary[cap], cap) <=> ~Lacks(s, cap)
    BY Zenon DEF Go!AccountSupports, Lacks
  <2>3. \A cap : Own(cap) =
          IF Go!PrimaryAccountID(s, cap) # {} THEN Go!PrimaryAccountID(s, cap)
          ELSE IF Go!AccountSupports(s, s.primary[cap], cap) THEN {} ELSE {<<"accountNotSupported", cap>>}
    BY <2>1, <2>2, Zenon DEF Own
  <2>4. wanting = {c \in n.primaries : c \in n.using => c \in s.caps}
    BY <1>2 DEF Offers, wanting
  <2> QED BY <2>3, <2>4 DEF D
<1>6. found = (UNION C) \cup (UNION D) \cup SizeProblem(s, Len(r.calls))
  <2>1. Go!RequireCalls(s, n.calls) = SizeProblem(s, Len(r.calls))
    BY <1>2, SameChecks
  <2> QED BY <1>1, <2>1, Zenon
<1>7. ASSUME NEW uri \in Range(r.using) PROVE CapabilityProblem(s, uri) \in C
  BY <1>4
<1>8. ASSUME NEW cap \in wanting PROVE Own(cap) \in D
  BY <1>5
<1>9. Complete("go", s, r, found)
  <2>1. /\ \A x \in C : x \subseteq found
        /\ \A x \in D : x \subseteq found
        /\ SizeProblem(s, Len(r.calls)) \subseteq found
    BY <1>6
  <2>2. \A uri \in Range(r.using) : CapabilityProblem(s, uri) \subseteq found
    BY <1>7, <2>1
  <2>3. ASSUME NEW cap \in Range(r.primaries), Offers(s, r, cap)
        PROVE  /\ AccountProblem("go", s, cap) \subseteq found
               /\ AccountProblem("go", s, cap) = {} /\ Lacks(s, cap) => found # {}
    <3>1. Own(cap) \subseteq found
      BY <1>3, <1>8, <2>1, <2>3
    <3> QED BY <1>3, <3>1
  <2> QED BY <2>1, <2>2, <2>3, Zenon DEF Complete
<1>10. ASSUME NEW x \in C PROVE \E uri \in Range(r.using) : x = CapabilityProblem(s, uri)
  BY <1>4
<1>11. ASSUME NEW x \in D PROVE \E cap \in wanting : x = Own(cap)
  BY <1>5
<1>12. Grounded("go", s, r, found)
  BY <1>3, <1>6, <1>10, <1>11 DEF Grounded
<1> QED BY <1>9, <1>12 DEF found, n

(* The TypeScript client's CheckNeeds.                                     *)
LEMMA TsFinds == ASSUME NEW s, NEW r
                 PROVE  LET found == Ts!CheckNeeds(s, Ts!Needs(r)) IN
                        Complete("ts", s, r, found) /\ Grounded("ts", s, r, found)
<1> DEFINE found == Ts!CheckNeeds(s, Ts!Needs(r))
           missing == {uri \in Range(r.using) : CapabilityProblem(s, uri) # {}}
           named   == Range(r.primaries) \ missing
           without == {cap \in named : AccountProblem("ts", s, cap) # {}}
           other   == {cap \in named \ without : Lacks(s, cap)}
<1>1. found = {<<"unknownCapability", uri>> : uri \in missing} \cup {<<"noPrimary", cap>> : cap \in without}
              \cup {<<"accountNotSupported", cap>> : cap \in other} \cup SizeProblem(s, Len(r.calls))
  <2>1. Ts!Needs(r) = [using |-> Range(r.using), primaries |-> Range(r.primaries), calls |-> Len(r.calls)]
    BY SameOperators, Zenon DEF Ts!Needs
  <2>2. \A cap : AccountProblem("ts", s, cap) = Ts!PrimaryAccountID(s, cap)
    BY "ts" # "go" DEF AccountProblem
  <2>3. \A cap : Lacks(s, cap) <=> /\ Ts!Offered(s, s.primary[cap]) # {}
                                   /\ cap \notin Ts!Offered(s, s.primary[cap])
    BY DEF Ts!Offered, Lacks
  <2> DEFINE n == Ts!Needs(r)
  <2>5. n.using = Range(r.using) /\ n.primaries = Range(r.primaries) /\ n.calls = Len(r.calls)
    BY <2>1
  <2>6. \A uri : Ts!RequireCapability(s, uri) = CapabilityProblem(s, uri)
    BY SameChecks
  <2>7. Ts!RequireCalls(s, Len(r.calls)) = SizeProblem(s, Len(r.calls))
    BY SameChecks
  <2> HIDE DEF n
  <2>8. missing = {uri \in n.using : Ts!RequireCapability(s, uri) # {}}
    BY <2>5, <2>6
  <2>9. without = {cap \in n.primaries \ missing : Ts!PrimaryAccountID(s, cap) # {}}
    BY <2>2, <2>5
  <2>10. other = {cap \in (n.primaries \ missing) \ without :
                    Ts!Offered(s, s.primary[cap]) # {} /\ cap \notin Ts!Offered(s, s.primary[cap])}
    BY <2>3, <2>5
  <2> HIDE DEF missing, without, other
  <2>11. Ts!CheckNeeds(s, n) = {<<"unknownCapability", uri>> : uri \in missing}
            \cup {<<"noPrimary", cap>> : cap \in without}
            \cup {<<"accountNotSupported", cap>> : cap \in other} \cup SizeProblem(s, Len(r.calls))
    BY <2>5, <2>7, <2>8, <2>9, <2>10, Zenon DEF Ts!CheckNeeds
  <2> QED BY <2>11 DEF n
<1> HIDE DEF found
<1>2. Complete("ts", s, r, found)
  <2>1. \A uri \in Range(r.using) : CapabilityProblem(s, uri) \subseteq found
    <3>1. \A uri : CapabilityProblem(s, uri) # {} => CapabilityProblem(s, uri) = {<<"unknownCapability", uri>>}
      BY Zenon DEF CapabilityProblem
    <3>2. \A uri \in missing : <<"unknownCapability", uri>> \in found
      BY <1>1
    <3> QED BY <3>1, <3>2
  <2>2. SizeProblem(s, Len(r.calls)) \subseteq found
    BY <1>1
  <2>3. ASSUME NEW cap \in Range(r.primaries), Offers(s, r, cap)
        PROVE  /\ AccountProblem("ts", s, cap) \subseteq found
               /\ AccountProblem("ts", s, cap) = {} /\ Lacks(s, cap) => found # {}
    <3>1. cap \in named
      BY <2>3 DEF Offers, CapabilityProblem
    <3>2. AccountProblem("ts", s, cap) # {} => AccountProblem("ts", s, cap) = {<<"noPrimary", cap>>}
      BY "ts" # "go", Zenon DEF AccountProblem, Ts!PrimaryAccountID
    <3>3. cap \in without => <<"noPrimary", cap>> \in found
      BY <1>1
    <3>4. cap \in other => <<"accountNotSupported", cap>> \in found
      BY <1>1
    <3> QED BY <3>1, <3>2, <3>3, <3>4
  <2> QED BY <2>1, <2>2, <2>3 DEF Complete
<1>3. Grounded("ts", s, r, found)
  BY <1>1 DEF Grounded
<1> QED BY <1>2, <1>3 DEF found
(* The Rust client's runs over the same sets.                              *)
LEMMA RustFindsAsTs ==
  ASSUME NEW s, NEW r
  PROVE  /\ Rust!CheckNeeds(s, Rust!Needs(r)) = Ts!CheckNeeds(s, Ts!Needs(r))
         /\ \A cap : AccountProblem("rust", s, cap) = AccountProblem("ts", s, cap)
<1>1. Rust!Needs(r) = Ts!Needs(r)
  BY SameOperators, Zenon DEF Rust!Needs, Ts!Needs
<1>2. \A uri : Rust!RequireCapability(s, uri) = Ts!RequireCapability(s, uri)
  BY SameChecks
<1>3. \A n : Rust!RequireCalls(s, n) = Ts!RequireCalls(s, n)
  BY SameChecks
<1>4. \A cap : Rust!PrimaryAccountID(s, cap) = Ts!PrimaryAccountID(s, cap)
  BY Zenon DEF Rust!PrimaryAccountID, Ts!PrimaryAccountID
<1>5. \A id : Rust!Offered(s, id) = Ts!Offered(s, id)
  BY Zenon DEF Rust!Offered, Ts!Offered
<1>6. \A n : Rust!CheckNeeds(s, n) = Ts!CheckNeeds(s, n)
  BY <1>2, <1>3, <1>4, <1>5 DEF Rust!CheckNeeds, Ts!CheckNeeds
<1>7. \A cap : AccountProblem("rust", s, cap) = AccountProblem("ts", s, cap)
  BY <1>4, "rust" # "go", "rust" # "ts", "ts" # "go" DEF AccountProblem
<1> QED BY <1>1, <1>6, <1>7, Zenon

LEMMA RustFinds == ASSUME NEW s, NEW r
                   PROVE  LET found == Rust!CheckNeeds(s, Rust!Needs(r)) IN
                          Complete("rust", s, r, found) /\ Grounded("rust", s, r, found)
<1> DEFINE found == Ts!CheckNeeds(s, Ts!Needs(r))
<1>1. Complete("ts", s, r, found) /\ Grounded("ts", s, r, found)
  BY TsFinds
<1> HIDE DEF found
<1>2. Complete("rust", s, r, found) /\ Grounded("rust", s, r, found)
  BY <1>1, RustFindsAsTs DEF Complete, Grounded
<1> QED BY <1>2, RustFindsAsTs, Zenon DEF found

(* Whatever the language.                                                  *)
LEMMA Finding ==
  ASSUME NEW l \in Clients, NEW s, NEW r
  PROVE  Complete(l, s, r, Finds(l, s, r)) /\ Grounded(l, s, r, Finds(l, s, r))
<1>1. CASE l = "go"
  <2>1. Finds(l, s, r) = Go!Check(s, Go!Needs(r))
    BY <1>1, Zenon DEF Finds
  <2> QED BY <1>1, <2>1, GoFinds
<1>2. CASE l = "ts"
  <2>1. Finds(l, s, r) = Ts!CheckNeeds(s, Ts!Needs(r))
    BY <1>2, "ts" # "go" DEF Finds
  <2> QED BY <1>2, <2>1, TsFinds
<1>3. CASE l = "rust"
  <2>1. Finds(l, s, r) = Rust!CheckNeeds(s, Rust!Needs(r))
    BY <1>3, "rust" # "go", "rust" # "ts" DEF Finds
  <2> QED BY <1>3, <2>1, RustFinds
<1> QED BY <1>1, <1>2, <1>3 DEF Clients

(* Requests of one name need the same.                                     *)
LEMMA FindsByName ==
  ASSUME NEW l \in Clients, NEW s, NEW r \in Requests, NEW q \in Requests, r.name = q.name
  PROVE  Finds(l, s, r) = Finds(l, s, q)
<1>1. r.using = q.using /\ r.primaries = q.primaries /\ r.calls = q.calls
  BY RequestsAssumption
<1>2. Go!Needs(r) = Go!Needs(q) /\ Ts!Needs(r) = Ts!Needs(q) /\ Rust!Needs(r) = Rust!Needs(q)
  BY <1>1 DEF Go!Needs, Ts!Needs, Rust!Needs
<1> QED BY <1>2, Zenon DEF Finds

(* Whatever the client would stop a request for was found, by its name.    *)
LEMMA AllStopsFound ==
  ASSUME NEW l \in Clients, NEW s, NEW r \in Requests
  PROVE  /\ \A e \in LooksUp(l, s, r) : \E f \in Finds(l, s, r) : f[2] = e[2]
         /\ \A e \in Preflights(l, s, r) : \E f \in Finds(l, s, r) : f[2] = e[2]
<1> DEFINE found == Finds(l, s, r)
<1>1. Complete(l, s, r, found)
  BY Finding
<1> HIDE DEF found
<1>2. ASSUME NEW e \in LooksUp(l, s, r) PROVE \E f \in found : f[2] = e[2]
  <2>1. PICK cap \in Range(r.primaries) : LooksUp(l, s, r) = AccountProblem(l, s, cap)
    BY <1>2, LookupsOf
  <2>2. e[2] = cap
    BY <1>2, <2>1, AccountProblemNames
  <2>3. CASE Offers(s, r, cap)
    BY <1>1, <1>2, <2>1, <2>3 DEF Complete
  <2>4. CASE ~Offers(s, r, cap)
    <3>1. cap \in Range(r.using) /\ CapabilityProblem(s, cap) = {<<"unknownCapability", cap>>}
      BY <2>4 DEF Offers, CapabilityProblem
    <3>2. <<"unknownCapability", cap>> \in found
      BY <1>1, <3>1 DEF Complete
    <3>3. <<"unknownCapability", cap>>[2] = cap
      OBVIOUS
    <3> QED BY <2>2, <3>2, <3>3
  <2> QED BY <2>3, <2>4
<1>3. ASSUME NEW e \in Preflights(l, s, r) PROVE \E f \in found : f[2] = e[2]
  <2>1. \/ \E uri \in Range(r.using) : Preflights(l, s, r) = CapabilityProblem(s, uri)
        \/ Preflights(l, s, r) = SizeProblem(s, Len(r.calls))
    BY <1>3, PreflightOf
  <2>2. e \in found
    BY <1>1, <1>3, <2>1 DEF Complete
  <2> QED BY <2>2
<1> QED BY <1>2, <1>3 DEF found

(* Where nothing is found, neither the client nor the server stops it.     *)
LEMMA NothingFound ==
  ASSUME NEW l \in Clients, NEW s \in Sessions, NEW r \in Requests, Finds(l, s, r) = {}
  PROVE  /\ LooksUp(l, s, r) = {} /\ Preflights(l, s, r) = {} /\ ~TurnsAway(s, r)
         /\ \A cap \in Range(r.primaries) :
              LET id == s.primary[cap] IN
              id # "" => id \in DOMAIN s.accounts /\ (s.accounts[id] = {} \/ cap \in s.accounts[id])
<1>1. Complete(l, s, r, {})
  BY Finding
<1>2. LooksUp(l, s, r) = {} /\ Preflights(l, s, r) = {}
  BY AllStopsFound
<1>3. Range(r.using) \subseteq s.caps
  <2>1. \A uri \in Range(r.using) : CapabilityProblem(s, uri) = {}
    BY <1>1 DEF Complete
  <2> QED BY <2>1 DEF CapabilityProblem
<1>4. ~("core" \in s.caps /\ s.max > 0 /\ Len(r.calls) > s.max)
  <2>1. SizeProblem(s, Len(r.calls)) = {}
    BY <1>1 DEF Complete
  <2> QED BY <2>1 DEF SizeProblem
<1>5. ASSUME NEW cap \in Range(r.primaries), s.primary[cap] # ""
      PROVE  s.primary[cap] \in DOMAIN s.accounts /\ ~Lacks(s, cap)
  <2>1. Offers(s, r, cap)
    BY <1>3 DEF Offers
  <2>2. AccountProblem(l, s, cap) = {} /\ ~Lacks(s, cap)
    BY <1>1, <2>1 DEF Complete
  <2>3. cap \in DOMAIN s.primary
    BY <2>2 DEF AccountProblem, Clients, Go!PrimaryAccountID, Ts!PrimaryAccountID, Rust!PrimaryAccountID
  <2> QED BY <1>5, <2>2, <2>3, SessionsAssumption
<1> QED BY <1>2, <1>3, <1>4, <1>5 DEF TurnsAway, Lacks

(* Where something is found, the client or the server does.                *)
LEMMA SomethingFound ==
  ASSUME NEW l \in Clients, NEW s \in Sessions, NEW r \in Requests, Finds(l, s, r) # {}
  PROVE  \/ LooksUp(l, s, r) # {} \/ TurnsAway(s, r)
         \/ \E i \in DOMAIN r.calls : r.calls[i].cap \in Range(r.primaries) /\ Lacks(s, r.calls[i].cap)
<1>1. \/ \E uri \in Range(r.using) : CapabilityProblem(s, uri) # {}
      \/ SizeProblem(s, Len(r.calls)) # {}
      \/ \E cap \in Range(r.primaries) : AccountProblem(l, s, cap) # {} \/ Lacks(s, cap)
  BY Finding DEF Grounded
<1>2. CASE \E uri \in Range(r.using) : CapabilityProblem(s, uri) # {}
  BY <1>2 DEF CapabilityProblem, TurnsAway
<1>3. CASE SizeProblem(s, Len(r.calls)) # {}
  BY <1>3 DEF SizeProblem, TurnsAway
<1>4. CASE \E cap \in Range(r.primaries) : AccountProblem(l, s, cap) # {}
  BY <1>4, LookupsOf
<1>5. CASE \E cap \in Range(r.primaries) : Lacks(s, cap)
  <2>1. Range(r.primaries) \subseteq {r.calls[i].cap : i \in DOMAIN r.calls}
    BY RequestsAssumption
  <2> QED BY <1>5, <2>1
<1> QED BY <1>1, <1>2, <1>3, <1>4, <1>5

-----------------------------------------------------------------------------
(* A call under way: what it has been told by the session it used.         *)

Results(l, r, resp) == CASE l = "go"   -> Go!Func(r, resp)
                         [] l = "ts"   -> Ts!Func(r, resp)
                         [] l = "rust" -> Rust!Func(r, resp)

(* A result without an error is whole, whatever the language; and a call   *)
(* that was not reached is not in it.                                      *)
LEMMA ResultsWhole ==
  ASSUME NEW l \in Clients, NEW r \in Requests, NEW resp, Responds(r, resp), Results(l, r, resp).errors = {}
  PROVE  /\ Unfailed(resp) /\ ReadWhole(r, resp)
         /\ l # "ts" => GivenWhole(r, resp, Results(l, r, resp).value)
         /\ \A i \in Results(l, r, resp).value : First(resp, i) # "absent"
<1>1. CASE l = "go"
  <2>1. Results(l, r, resp) = Go!Func(r, resp)
    BY <1>1, Zenon DEF Results
  <2> QED BY <1>1, <2>1, GoWhole DEF GivenWhole
<1>2. CASE l = "ts"
  <2>1. Results(l, r, resp) = Ts!Func(r, resp)
    BY <1>2, "ts" # "go" DEF Results
  <2> QED BY <1>2, <2>1, TsWhole
<1>3. CASE l = "rust"
  <2>1. Results(l, r, resp) = Rust!Func(r, resp)
    BY <1>3, "rust" # "go", "rust" # "ts" DEF Results
  <2> QED BY <1>3, <2>1, RustWhole DEF GivenWhole
<1> QED BY <1>1, <1>2, <1>3 DEF Clients

CallFields == {"pc", "req", "start", "ids", "used", "by", "resp", "page", "value", "errors"}

Ids(s, r) == [cap \in Range(r.primaries) |-> s.primary[cap]]

Refuses(s, ids, c) == /\ c.cap \in DOMAIN ids
                      /\ \/ ids[c.cap] \notin DOMAIN s.accounts
                         \/ s.accounts[ids[c.cap]] # {} /\ c.cap \notin s.accounts[ids[c.cap]]

(* SuccessIsWhole and VerifyTells, said of a call and a session.           *)
Whole(l, c) == c.errors = {} => /\ Unfailed(c.resp) /\ ReadWhole(c.req, c.resp)
                                /\ l # "ts" => GivenWhole(c.req, c.resp, c.value)

Prepared(l, c, s) == c.ids = Ids(s, c.req) /\ LooksUp(l, s, c.req) = {}

LeavesOut(c, s) == \A i \in DOMAIN c.req.calls :
                     Refuses(s, c.ids, c.req.calls[i]) => First(c.resp, i) = "absent" /\ i \notin c.value

Told(l, c, s) ==
  LET found == Finds(l, s, c.req) IN
  /\ found = {} /\ (\A cap \in DOMAIN c.ids : c.ids[cap] # "") => c.by = ""
  /\ found # {} => c.errors # {} \/ (c.by = "server" /\ LeavesOut(c, s))
  /\ c.by = "client" => {e[2] : e \in c.errors} \subseteq {e[2] : e \in found}

(* Where a call has used one session, it holds that session's accounts, and*)
(* what it ended with is what that session says.                           *)
CallOK(l, c) ==
  /\ DOMAIN c = CallFields
  /\ c.pc \in {"idle", "called", "looked", "sent", "done"}
  /\ c.pc # "idle" => c.req \in Requests
  /\ c.used \subseteq Sessions
  /\ c.pc = "called" => c.used = {}
  /\ c.pc \in {"looked", "sent"} => \A s \in Sessions : c.used \subseteq {s} => Prepared(l, c, s)
  /\ c.pc = "done" => Whole(l, c) /\ \A s \in Sessions : c.used = {s} => Told(l, c, s)

(* A call the client stopped was told so by the session it used.           *)
LEMMA Stopped ==
  ASSUME NEW l \in Clients, NEW c, NEW s \in Sessions, c.req \in Requests, c.pc = "done", DOMAIN c = CallFields,
         c.by = "client", c.errors # {}, c.used \subseteq Sessions, \A x \in Sessions : c.used = {x} => x = s,
         c.errors = LooksUp(l, s, c.req) \/ c.errors = Preflights(l, s, c.req)
  PROVE  CallOK(l, c)
<1>1. Whole(l, c)
  BY DEF Whole
<1>2. Told(l, c, s)
  <2>1. Finds(l, s, c.req) # {}
    BY NothingFound
  <2>2. \A e \in c.errors : \E f \in Finds(l, s, c.req) : f[2] = e[2]
    BY AllStopsFound
  <2> QED BY <2>1, <2>2 DEF Told
<1> QED BY <1>1, <1>2 DEF CallOK

(* Where the address is refused, the session was looked at and checked.    *)
LEMMA Addressed ==
  ASSUME language \in Clients, NEW s, NEW r, Address(s, r).errors # {}
  PROVE  Address(s, r).session /\ Address(s, r).errors = Preflights(language, s, r)
<1>1. CASE language = "go"
  <2>1. Address(s, r) = Go!ResolveAPIURL(options, s, r) /\ Preflights(language, s, r) = Go!Preflight(s, r)
    BY <1>1, Zenon DEF Address, Preflights
  <2> DEFINE strict == options.strict  api == options.apiURL  checks == Go!Preflight(s, r)  any == strict \/ ~api
  <2>2. Go!ResolveAPIURL(options, s, r) = [session |-> any, errors |-> IF strict THEN checks ELSE {}]
    BY Zenon DEF Go!ResolveAPIURL
  <2> HIDE DEF strict, api, checks, any
  <2>3. Address(s, r).errors = IF strict THEN checks ELSE {}
    BY <2>1, <2>2
  <2>4. Address(s, r).session = any
    BY <2>1, <2>2
  <2>5. strict => any
    BY DEF any
  <2> QED BY <2>1, <2>3, <2>4, <2>5 DEF checks
<1>2. CASE language = "ts"
  <2>1. Address(s, r) = Ts!RequestTo(options, s, r) /\ Preflights(language, s, r) = Ts!Preflight(s, r)
    BY <1>2, "ts" # "go" DEF Address, Preflights
  <2> DEFINE strict == options.strict  api == options.apiURL  checks == Ts!Preflight(s, r)  any == ~api
  <2>2. Ts!RequestTo(options, s, r) = [session |-> any, errors |-> IF strict /\ ~api THEN checks ELSE {}]
    BY Zenon DEF Ts!RequestTo
  <2> HIDE DEF strict, api, checks, any
  <2>3. Address(s, r).errors = IF strict /\ ~api THEN checks ELSE {}
    BY <2>1, <2>2
  <2>4. Address(s, r).session = any
    BY <2>1, <2>2
  <2>5. ~api => any
    BY DEF any
  <2> QED BY <2>1, <2>3, <2>4, <2>5 DEF checks
<1>3. CASE language = "rust"
  <2>1. Address(s, r) = Rust!RequestTo(options, s, r) /\ Preflights(language, s, r) = Rust!Preflight(s, r)
    BY <1>3, "rust" # "go", "rust" # "ts" DEF Address, Preflights
  <2> DEFINE strict == options.strict  api == options.apiURL  checks == Rust!Preflight(s, r)  any == ~api
  <2>2. Rust!RequestTo(options, s, r) = [session |-> any, errors |-> IF strict /\ ~api THEN checks ELSE {}]
    BY Zenon DEF Rust!RequestTo
  <2> HIDE DEF strict, api, checks, any
  <2>3. Address(s, r).errors = IF strict /\ ~api THEN checks ELSE {}
    BY <2>1, <2>2
  <2>4. Address(s, r).session = any
    BY <2>1, <2>2
  <2>5. ~api => any
    BY DEF any
  <2> QED BY <2>1, <2>3, <2>4, <2>5 DEF checks
<1> QED BY <1>1, <1>2, <1>3 DEF Clients

(* What the server answers is a response, and a call it does not support   *)
(* fails or is left out.                                                   *)
LEMMA AnswersRespond ==
  ASSUME NEW s, NEW r \in Requests, NEW resp, DOMAIN resp = DOMAIN r.calls,
         \A i \in DOMAIN r.calls : resp[i] \in Answers(s, r.calls[i])
  PROVE  /\ Responds(r, resp)
         /\ \A i \in DOMAIN r.calls : First(resp, i) = "error" => "error" \in Range(resp[i])
         /\ \A i \in DOMAIN r.calls : Unsupported(s, r.calls[i]) => First(resp, i) \in {"absent", "error"}
<1> SUFFICES ASSUME NEW i \in DOMAIN r.calls
             PROVE  /\ First(resp, i) \in Entries /\ (First(resp, i) = "refused" => Lists(r, i))
                    /\ First(resp, i) = "error" => "error" \in Range(resp[i])
                    /\ Unsupported(s, r.calls[i]) => First(resp, i) \in {"absent", "error"}
  BY DEF Responds
<1>1. CASE resp[i] = <<>>
  BY <1>1 DEF First, Entries
<1>2. CASE resp[i] # <<>>
  <2>1. PICK k \in Kinds(s, r.calls[i]) : \/ resp[i] = <<k>>
                                          \/ \E more \in Implied(r.calls[i]) : resp[i] = <<k, more>>
    BY <1>2 DEF Answers
  <2>2. k \in Entries \ {"absent"}
    BY DEF Kinds, Entries
  <2>3. resp[i][1] = k /\ 1 \in DOMAIN resp[i]
    BY <2>1
  <2>4. First(resp, i) = k
    BY <1>2, <2>3 DEF First
  <2>5. k = "error" => "error" \in Range(resp[i])
    BY <2>3 DEF Range
  <2> QED BY <2>2, <2>4, <2>5 DEF Kinds, Lists
<1> QED BY <1>1, <1>2

-----------------------------------------------------------------------------
(* A walk: what it holds of its pages, and what the steps of each client's *)
(* iterator make of it.                                                    *)

WalkFields == {"pc", "req", "kind", "given", "param", "start", "first", "pages", "last", "begun"}

Pages == [from : Int, to : Int, told : BOOLEAN, total : Int, more : BOOLEAN, at : Int]

Begins(w) == IF w.kind = "query" THEN Window(w.first) ELSE w.first
Stands(w) == IF w.pages = <<>> THEN w.first ELSE Last(w.pages).to

Chained(w) == \A k \in DOMAIN w.pages : w.pages[k].from = IF k = 1 THEN Begins(w) ELSE w.pages[k - 1].to

PageOf(kind, page, st) ==
  IF kind = "query" THEN page.to \in 0..Total /\ page.total = (IF page.told THEN Total ELSE 0)
  ELSE /\ page.to \in 0..page.at /\ page.at \in 0..st
       /\ ~page.told /\ (~page.more => page.to = page.at)

Covered(w) == IF w.kind = "query" THEN Begins(w) >= Total \/ (w.pages # <<>> /\ Last(w.pages).to = Total)
              ELSE w.pages # <<>> /\ Last(w.pages).to = Last(w.pages).at

Continues(w) == w.pc \in {"wanting", "asking"} \/ (w.pc = "held" /\ ~w.last)
Finished(w)  == w.pc = "ended" \/ (w.pc = "held" /\ w.last)

(* A walk under way: its pages follow each other, it asks on where the last*)
(* one ended, and it ends where nothing is left.                           *)
Walked(w, st) ==
  /\ w.req \in Requests /\ w.kind = w.req.pages /\ w.kind \in {"query", "changes"}
  /\ w.given \in Int /\ w.param \in Int /\ w.start \in Int /\ w.first \in Int /\ w.last \in BOOLEAN
  /\ w.kind = "changes" => {w.given, w.param, w.start, w.first} \subseteq 0..st
  /\ w.pages \in Seq(Pages) /\ Chained(w)
  /\ \A k \in DOMAIN w.pages : PageOf(w.kind, w.pages[k], st)
  /\ Continues(w) => /\ w.start = Stands(w)
                     /\ w.pages # <<>> /\ Last(w.pages).told => Last(w.pages).to < Total
  /\ Finished(w) => Covered(w)

WalkOK(w, st) ==
  /\ DOMAIN w = WalkFields
  /\ w.pc \in {"none", "wanting", "asking", "held", "ended", "failed"}
  /\ w.pc = "none" => w.pages = <<>>
  /\ w.pc # "none" => Walked(w, st)

(* A page that answers one that was asked for from start.                  *)
PageAt(kind, start, page, st) ==
  /\ page \in Pages
  /\ page.from = IF kind = "query" THEN Window(start) ELSE start
  /\ kind = "query" => page.from <= page.to /\ (page.from = page.to => page.from >= Total)
  /\ ~(kind = "query" /\ page.from = page.to) => PageOf(kind, page, st)

Unchanged(v, w) == /\ DOMAIN v = DOMAIN w /\ v.req = w.req /\ v.kind = w.kind /\ v.given = w.given
                   /\ v.first = w.first /\ v.last = w.last /\ v.begun = w.begun

(* What the iterators make of a walk.                                      *)
LEMMA BegunIs ==
  ASSUME language \in Clients, NEW w, DOMAIN w = WalkFields
  PROVE  LET v == Begun(w) IN
         /\ Unchanged(v, w) /\ v.pc = "wanting" /\ v.pages = <<>>
         /\ v.param \in {w.param, w.given} /\ v.start = v.param
<1>1. CASE language = "go"
  <2>1. Begun(w) = Go!BeginPages(w)
    BY <1>1, Zenon DEF Begun
  <2> QED BY <2>1 DEF Go!BeginPages, Unchanged, WalkFields
<1>2. CASE language = "ts"
  <2>1. Begun(w) = Ts!BeginPages(w)
    BY <1>2, "ts" # "go" DEF Begun
  <2> QED BY <2>1 DEF Ts!BeginPages, Unchanged, WalkFields
<1>3. CASE language = "rust"
  <2>1. Begun(w) = Rust!BeginPages(w)
    BY <1>3, "rust" # "go", "rust" # "ts" DEF Begun
  <2> QED BY <2>1 DEF Rust!BeginPages, Unchanged, WalkFields
<1> QED BY <1>1, <1>2, <1>3 DEF Clients

LEMMA AskedIs ==
  ASSUME language \in Clients, NEW w, DOMAIN w = WalkFields
  PROVE  LET v == Asked(w) IN
         /\ Unchanged(v, w) /\ v.pc = "asking" /\ v.pages = w.pages /\ v.param = w.start /\ v.start = w.start
<1>1. CASE language = "go"
  <2>1. Asked(w) = Go!AskPage(w)
    BY <1>1, Zenon DEF Asked
  <2> QED BY <2>1 DEF Go!AskPage, Unchanged, WalkFields
<1>2. CASE language = "ts"
  <2>1. Asked(w) = Ts!AskPage(w)
    BY <1>2, "ts" # "go" DEF Asked
  <2> QED BY <2>1 DEF Ts!AskPage, Unchanged, WalkFields
<1>3. CASE language = "rust"
  <2>1. Asked(w) = Rust!AskPage(w)
    BY <1>3, "rust" # "go", "rust" # "ts" DEF Asked
  <2> QED BY <2>1 DEF Rust!AskPage, Unchanged, WalkFields
<1> QED BY <1>1, <1>2, <1>3 DEF Clients

LEMMA FailedIs ==
  ASSUME language \in Clients, NEW w, DOMAIN w = WalkFields
  PROVE  LET v == Failed(w) IN
         /\ Unchanged(v, w) /\ v.pc \in {"failed", "wanting"} /\ v.pages = w.pages
         /\ v.param = w.param /\ v.start = w.start
<1>1. CASE language = "go"
  <2>1. Failed(w) = Go!PageFails(w)
    BY <1>1, Zenon DEF Failed
  <2> QED BY <2>1 DEF Go!PageFails, Unchanged, WalkFields
<1>2. CASE language = "ts"
  <2>1. Failed(w) = Ts!PageFails(w)
    BY <1>2, "ts" # "go" DEF Failed
  <2> QED BY <2>1 DEF Ts!PageFails, Unchanged, WalkFields
<1>3. CASE language = "rust"
  <2>1. Failed(w) = Rust!PageFails(w)
    BY <1>3, "rust" # "go", "rust" # "ts" DEF Failed
  <2> QED BY <2>1 DEF Rust!PageFails, Unchanged, WalkFields
<1> QED BY <1>1, <1>2, <1>3 DEF Clients

(* What they make of a page.                                               *)
TakenAs(v, w, page) ==
  /\ DOMAIN v = DOMAIN w /\ v.req = w.req /\ v.kind = w.kind /\ v.given = w.given
  /\ v.first = w.first /\ v.begun = w.begun /\ v.param = w.param
  /\ w.kind = "query" /\ page.from = page.to =>
       v.pc = "ended" /\ v.pages = w.pages /\ v.start = w.start /\ v.last = w.last
  /\ ~(w.kind = "query" /\ page.from = page.to) =>
       /\ v.pc = "held" /\ v.pages = Append(w.pages, page) /\ v.last \in BOOLEAN
       /\ v.start = page.to \/ (v.start = w.start /\ w.kind # "query" /\ ~page.more)
       /\ w.kind = "query" => (v.last <=> page.told /\ page.to >= Total)
       /\ w.kind # "query" => (v.last <=> ~page.more)

LEMMA TakenIs ==
  ASSUME language \in Clients, NEW w, DOMAIN w = WalkFields, NEW page \in Pages, page.to \in Nat,
         w.kind = "query" /\ page.from # page.to => page.total = (IF page.told THEN Total ELSE 0) /\ Total > 0
  PROVE  TakenAs(Taken(w, page), w, page)
<1> DEFINE v == Taken(w, page)
<1> SUFFICES TakenAs(v, w, page)
  OBVIOUS
<1>1. CASE language = "go"
  <2> DEFINE start == page.to
             last  == IF w.kind = "query" THEN page.total > 0 /\ page.to >= page.total ELSE ~page.more
  <2>1. Taken(w, page) = Go!TakePage(w, page)
    BY <1>1, Zenon DEF Taken
  <2>2. v = IF w.kind = "query" /\ page.from = page.to THEN [w EXCEPT !.pc = "ended"]
            ELSE [w EXCEPT !.pc = "held", !.pages = Append(@, page), !.start = start, !.last = last]
    BY <2>1, Zenon DEF Go!TakePage
  <2>3. page.told \in BOOLEAN /\ page.more \in BOOLEAN /\ page.to \in Int /\ page.total \in Int
    BY DEF Pages
  <2>4. /\ last \in BOOLEAN
        /\ w.kind = "query" /\ page.from # page.to => (last <=> page.told /\ page.to >= Total)
        /\ w.kind # "query" => (last <=> ~page.more)
    <3>1. ASSUME w.kind = "query", page.from # page.to PROVE last <=> page.told /\ page.to >= Total
      <4>1. page.total = (IF page.told THEN Total ELSE 0) /\ Total > 0 /\ Total \in Nat
        BY <3>1, GeneratedAssumption
      <4>2. CASE page.told
        BY <2>3, <3>1, <4>1, <4>2
      <4>3. CASE ~page.told
        BY <2>3, <3>1, <4>1, <4>3
      <4> QED BY <4>2, <4>3
    <3>2. last \in BOOLEAN /\ (w.kind # "query" => (last <=> ~page.more))
      BY <2>3
    <3> HIDE DEF last
    <3> QED BY <3>1, <3>2
  <2>5. start = page.to \/ (start = w.start /\ w.kind # "query" /\ ~page.more)
    OBVIOUS
  <2> HIDE DEF v, start, last
  <2>6. CASE w.kind = "query" /\ page.from = page.to
    <3>1. v = [w EXCEPT !.pc = "ended"]
      BY <2>2, <2>6
    <3> QED BY <2>6, <3>1 DEF TakenAs, WalkFields
  <2>7. CASE ~(w.kind = "query" /\ page.from = page.to)
    <3>1. v = [w EXCEPT !.pc = "held", !.pages = Append(@, page), !.start = start, !.last = last]
      BY <2>2, <2>7
    <3>2. /\ DOMAIN v = DOMAIN w /\ v.req = w.req /\ v.kind = w.kind /\ v.given = w.given
          /\ v.first = w.first /\ v.begun = w.begun /\ v.param = w.param
          /\ v.pc = "held" /\ v.pages = Append(w.pages, page) /\ v.start = start /\ v.last = last
      BY <3>1 DEF WalkFields
    <3> QED BY <2>4, <2>5, <2>7, <3>2 DEF TakenAs
  <2> QED BY <2>6, <2>7
<1>2. CASE language = "ts"
  <2> DEFINE start == page.to
             last  == IF w.kind = "query" THEN page.told /\ page.to >= page.total ELSE ~page.more
  <2>1. Taken(w, page) = Ts!TakePage(w, page)
    BY <1>2, "ts" # "go" DEF Taken
  <2>2. v = IF w.kind = "query" /\ page.from = page.to THEN [w EXCEPT !.pc = "ended"]
            ELSE [w EXCEPT !.pc = "held", !.pages = Append(@, page), !.start = start, !.last = last]
    BY <2>1, Zenon DEF Ts!TakePage
  <2>3. page.told \in BOOLEAN /\ page.more \in BOOLEAN /\ page.to \in Int /\ page.total \in Int
    BY DEF Pages
  <2>4. /\ last \in BOOLEAN
        /\ w.kind = "query" /\ page.from # page.to => (last <=> page.told /\ page.to >= Total)
        /\ w.kind # "query" => (last <=> ~page.more)
    BY <2>3, GeneratedAssumption
  <2>5. start = page.to \/ (start = w.start /\ w.kind # "query" /\ ~page.more)
    OBVIOUS
  <2> HIDE DEF v, start, last
  <2>6. CASE w.kind = "query" /\ page.from = page.to
    <3>1. v = [w EXCEPT !.pc = "ended"]
      BY <2>2, <2>6
    <3> QED BY <2>6, <3>1 DEF TakenAs, WalkFields
  <2>7. CASE ~(w.kind = "query" /\ page.from = page.to)
    <3>1. v = [w EXCEPT !.pc = "held", !.pages = Append(@, page), !.start = start, !.last = last]
      BY <2>2, <2>7
    <3>2. /\ DOMAIN v = DOMAIN w /\ v.req = w.req /\ v.kind = w.kind /\ v.given = w.given
          /\ v.first = w.first /\ v.begun = w.begun /\ v.param = w.param
          /\ v.pc = "held" /\ v.pages = Append(w.pages, page) /\ v.start = start /\ v.last = last
      BY <3>1 DEF WalkFields
    <3> QED BY <2>4, <2>5, <2>7, <3>2 DEF TakenAs
  <2> QED BY <2>6, <2>7
<1>3. CASE language = "rust"
  <2> DEFINE start == IF w.kind = "changes" /\ ~page.more THEN w.start ELSE page.to
             last  == IF w.kind = "query" THEN page.told /\ page.to >= page.total ELSE ~page.more
  <2>1. Taken(w, page) = Rust!TakePage(w, page)
    BY <1>3, "rust" # "go", "rust" # "ts" DEF Taken
  <2>2. v = IF w.kind = "query" /\ page.from = page.to THEN [w EXCEPT !.pc = "ended"]
            ELSE [w EXCEPT !.pc = "held", !.pages = Append(@, page), !.start = start, !.last = last]
    BY <2>1, Zenon DEF Rust!TakePage
  <2>3. page.told \in BOOLEAN /\ page.more \in BOOLEAN /\ page.to \in Int /\ page.total \in Int
    BY DEF Pages
  <2>4. /\ last \in BOOLEAN
        /\ w.kind = "query" /\ page.from # page.to => (last <=> page.told /\ page.to >= Total)
        /\ w.kind # "query" => (last <=> ~page.more)
    BY <2>3, GeneratedAssumption
  <2>5. start = page.to \/ (start = w.start /\ w.kind # "query" /\ ~page.more)
    OBVIOUS
  <2> HIDE DEF v, start, last
  <2>6. CASE w.kind = "query" /\ page.from = page.to
    <3>1. v = [w EXCEPT !.pc = "ended"]
      BY <2>2, <2>6
    <3> QED BY <2>6, <3>1 DEF TakenAs, WalkFields
  <2>7. CASE ~(w.kind = "query" /\ page.from = page.to)
    <3>1. v = [w EXCEPT !.pc = "held", !.pages = Append(@, page), !.start = start, !.last = last]
      BY <2>2, <2>7
    <3>2. /\ DOMAIN v = DOMAIN w /\ v.req = w.req /\ v.kind = w.kind /\ v.given = w.given
          /\ v.first = w.first /\ v.begun = w.begun /\ v.param = w.param
          /\ v.pc = "held" /\ v.pages = Append(w.pages, page) /\ v.start = start /\ v.last = last
      BY <3>1 DEF WalkFields
    <3> QED BY <2>4, <2>5, <2>7, <3>2 DEF TakenAs
  <2> QED BY <2>6, <2>7
<1> QED BY <1>1, <1>2, <1>3 DEF Clients

LEMMA MaxOfTwo == ASSUME NEW a \in Int, NEW b \in Int PROVE Max({a, b}) = IF a >= b THEN a ELSE b
<1> DEFINE P(x) == x \in {a, b} /\ \A y \in {a, b} : x >= y
           m == IF a >= b THEN a ELSE b
<1>1. P(m)
  OBVIOUS
<1>2. \A x : P(x) => x = m
  OBVIOUS
<1> QED BY <1>1, <1>2, Zenon DEF Max

LEMMA MinOfTwo == ASSUME NEW a \in Int, NEW b \in Int PROVE Min({a, b}) = IF a <= b THEN a ELSE b
<1> DEFINE P(x) == x \in {a, b} /\ \A y \in {a, b} : x <= y
           m == IF a <= b THEN a ELSE b
<1>1. P(m)
  OBVIOUS
<1>2. \A x : P(x) => x = m
  OBVIOUS
<1> QED BY <1>1, <1>2, Zenon DEF Min

(* A position of the list counted from its start is where it is.           *)
LEMMA WindowIs ==
  ASSUME NEW start \in Int
  PROVE  Window(start) \in Nat /\ (start >= 0 => Window(start) = start)
<1>1. Max({0, Total + start}) = IF 0 >= Total + start THEN 0 ELSE Total + start
  BY MaxOfTwo, GeneratedAssumption
<1> QED BY <1>1, GeneratedAssumption DEF Window

(* The last page of a walk.                                                *)
LEMMA LastOf ==
  ASSUME NEW w, NEW st, Walked(w, st), w.pages # <<>>
  PROVE  /\ Len(w.pages) \in DOMAIN w.pages /\ Len(w.pages) \in Nat \ {0}
         /\ Last(w.pages) = w.pages[Len(w.pages)] /\ Last(w.pages) \in Pages
         /\ PageOf(w.kind, Last(w.pages), st) /\ Last(w.pages).to \in Nat
<1>1. w.pages \in Seq(Pages) /\ \A k \in DOMAIN w.pages : PageOf(w.kind, w.pages[k], st)
  BY DEF Walked
<1>2. /\ Len(w.pages) \in DOMAIN w.pages /\ Len(w.pages) \in Nat \ {0}
      /\ Last(w.pages) = w.pages[Len(w.pages)] /\ Last(w.pages) \in Pages
  BY <1>1 DEF Last
<1>3. PageOf(w.kind, Last(w.pages), st)
  BY <1>1, <1>2
<1>4. Last(w.pages).to \in Int /\ Last(w.pages).at \in Int
  BY <1>2 DEF Pages
<1> QED BY <1>2, <1>3, <1>4 DEF PageOf

(* The records may change under a walk.                                    *)
LEMMA Grown ==
  ASSUME NEW w, NEW st \in Nat, WalkOK(w, st)
  PROVE  WalkOK(w, st + 1)
<1> SUFFICES ASSUME w.pc # "none" PROVE Walked(w, st + 1)
  BY DEF WalkOK
<1>1. Walked(w, st)
  BY DEF WalkOK
<1>2. ASSUME NEW k \in DOMAIN w.pages PROVE PageOf(w.kind, w.pages[k], st + 1)
  <2>1. PageOf(w.kind, w.pages[k], st) /\ w.pages[k] \in Pages
    BY <1>1 DEF Walked
  <2>2. w.pages[k].at \in Int
    BY <2>1 DEF Pages
  <2> QED BY <2>1, <2>2 DEF PageOf
<1>3. w.kind = "changes" => {w.given, w.param, w.start, w.first} \subseteq 0..(st + 1)
  BY <1>1 DEF Walked
<1> QED BY <1>1, <1>2, <1>3 DEF Walked

(* A walk that begins.                                                     *)
LEMMA Beginning ==
  ASSUME NEW w, NEW st \in Nat, DOMAIN w = WalkFields, w.pc = "wanting", w.pages = <<>>, w.last = FALSE,
         w.req \in Requests, w.kind = w.req.pages, w.kind \in {"query", "changes"},
         w.given \in Int, w.param \in Int, w.start \in Int, w.first = w.start,
         w.kind = "changes" => {w.given, w.param, w.start} \subseteq 0..st
  PROVE  WalkOK(w, st)
<1>1. w.pages \in Seq(Pages) /\ DOMAIN w.pages = {}
  OBVIOUS
<1>2. Continues(w) => w.start = Stands(w)
  BY DEF Stands
<1>3. ~Finished(w)
  BY DEF Finished
<1>4. Walked(w, st)
  BY <1>1, <1>2, <1>3 DEF Walked, Chained
<1> QED BY <1>4 DEF WalkOK

(* A walk that asks, fails, or asks again.                                 *)
LEMMA AskingAgain ==
  ASSUME NEW w, NEW v, NEW st \in Nat, WalkOK(w, st), w.pc \in {"wanting", "asking"},
         Unchanged(v, w), v.pc \in {"wanting", "asking", "failed"}, v.pages = w.pages,
         v.param \in {w.param, w.start}, v.start = w.start
  PROVE  WalkOK(v, st)
<1>1. Walked(w, st) /\ DOMAIN w = WalkFields
  BY DEF WalkOK
<1>2. Begins(v) = Begins(w) /\ Stands(v) = Stands(w) /\ Continues(w) /\ ~Finished(v)
  BY DEF Begins, Stands, Continues, Finished, Unchanged
<1>3. Chained(v)
  BY <1>1, <1>2 DEF Chained, Walked
<1>4. Walked(v, st)
  BY <1>1, <1>2, <1>3 DEF Walked, Unchanged
<1> QED BY <1>1, <1>4 DEF WalkOK, Unchanged

(* The caller comes back for the next page, or there is none.              *)
LEMMA GoingOn ==
  ASSUME NEW w, NEW st \in Nat, WalkOK(w, st), w.pc = "held"
  PROVE  WalkOK([w EXCEPT !.pc = IF w.last THEN "ended" ELSE "wanting"], st)
<1> DEFINE v == [w EXCEPT !.pc = IF w.last THEN "ended" ELSE "wanting"]
<1> SUFFICES WalkOK(v, st)
  OBVIOUS
<1>1. Walked(w, st) /\ DOMAIN w = WalkFields
  BY DEF WalkOK
<1>2. /\ DOMAIN v = WalkFields /\ v.pc = (IF w.last THEN "ended" ELSE "wanting") /\ v.req = w.req
      /\ v.kind = w.kind /\ v.given = w.given /\ v.param = w.param /\ v.start = w.start /\ v.first = w.first
      /\ v.pages = w.pages /\ v.last = w.last
  BY <1>1 DEF WalkFields
<1> HIDE DEF v
<1>3. /\ Begins(v) = Begins(w) /\ Stands(v) = Stands(w)
      /\ (Continues(v) => Continues(w)) /\ (Finished(v) => Finished(w))
  BY <1>2 DEF Begins, Stands, Continues, Finished
<1>4. Chained(v)
  BY <1>1, <1>2, <1>3 DEF Chained, Walked
<1>5. Finished(v) => Covered(v)
  BY <1>1, <1>2, <1>3 DEF Covered, Walked
<1>6. Walked(v, st)
  BY <1>1, <1>2, <1>3, <1>4, <1>5 DEF Walked
<1>7. v.pc \in {"ended", "wanting"}
  BY <1>2
<1> QED BY <1>2, <1>6, <1>7 DEF WalkOK

LEMMA Appended ==
  ASSUME NEW S, NEW q \in Seq(S), NEW x \in S
  PROVE  LET t == Append(q, x)  n == Len(q) IN
         /\ n \in Nat /\ DOMAIN q = 1..n /\ DOMAIN t = 1..(n + 1) /\ t \in Seq(S)
         /\ t[n + 1] = x /\ (\A k \in 1..n : t[k] = q[k]) /\ t # <<>> /\ Len(t) = n + 1
OBVIOUS

(* A page taken: it follows the last, and where the walk then ends nothing *)
(* is left.                                                                *)
LEMMA Taking ==
  ASSUME NEW w, NEW st \in Nat, WalkOK(w, st), w.pc = "asking", NEW page, PageAt(w.kind, w.start, page, st),
         NEW v, TakenAs(v, w, page)
  PROVE  WalkOK(v, st)
<1> DEFINE empty == w.kind = "query" /\ page.from = page.to
<1>1. Walked(w, st) /\ DOMAIN w = WalkFields
  BY DEF WalkOK
<1>2. /\ w.req \in Requests /\ w.kind = w.req.pages /\ w.kind \in {"query", "changes"}
      /\ w.given \in Int /\ w.param \in Int /\ w.start \in Int /\ w.first \in Int /\ w.last \in BOOLEAN
      /\ w.kind = "changes" => {w.given, w.param, w.start, w.first} \subseteq 0..st
      /\ w.pages \in Seq(Pages) /\ Chained(w) /\ (\A k \in DOMAIN w.pages : PageOf(w.kind, w.pages[k], st))
  BY <1>1 DEF Walked
<1>3. w.start = Stands(w)
  BY <1>1 DEF Walked, Continues
<1>4. /\ page \in Pages /\ page.from \in Int /\ page.to \in Int /\ page.at \in Int
      /\ page.told \in BOOLEAN /\ page.more \in BOOLEAN
  BY DEF PageAt, Pages
<1>5. /\ DOMAIN v = WalkFields /\ v.req = w.req /\ v.kind = w.kind /\ v.given = w.given
      /\ v.first = w.first /\ v.param = w.param /\ Begins(v) = Begins(w)
  BY <1>1 DEF TakenAs, Begins
<1>6. CASE empty
  <2>1. v.pc = "ended" /\ v.pages = w.pages /\ v.start = w.start /\ v.last = w.last
    BY <1>6 DEF TakenAs
  <2>2. Chained(v)
    BY <1>2, <1>5, <2>1 DEF Chained
  <2>3. Covered(v)
    <3>1. Window(w.start) >= Total /\ w.kind = "query"
      BY <1>6 DEF PageAt
    <3>2. CASE w.pages = <<>>
      BY <1>3, <1>5, <3>1, <3>2 DEF Covered, Stands, Begins
    <3>3. CASE w.pages # <<>>
      <4>1. Last(w.pages).to \in 0..Total /\ Last(w.pages).to \in Nat
        BY <1>1, <3>1, <3>3, LastOf DEF PageOf
      <4>2. w.start = Last(w.pages).to
        BY <1>3, <3>3 DEF Stands
      <4>3. Window(w.start) = w.start
        BY <4>1, <4>2, WindowIs
      <4>4. Last(w.pages).to = Total
        BY <3>1, <4>1, <4>2, <4>3, GeneratedAssumption
      <4> QED BY <1>5, <2>1, <3>1, <3>3, <4>4 DEF Covered
    <3> QED BY <3>2, <3>3
  <2>4. ~Continues(v)
    BY <2>1 DEF Continues
  <2>5. Walked(v, st)
    BY <1>2, <1>5, <2>1, <2>2, <2>3, <2>4 DEF Walked
  <2> QED BY <1>5, <2>1, <2>5 DEF WalkOK
<1>7. CASE ~empty
  <2>1. /\ v.pc = "held" /\ v.pages = Append(w.pages, page) /\ v.last \in BOOLEAN
        /\ v.start = page.to \/ (v.start = w.start /\ w.kind # "query" /\ ~page.more)
        /\ w.kind = "query" => (v.last <=> page.told /\ page.to >= Total)
        /\ w.kind # "query" => (v.last <=> ~page.more)
    BY <1>7 DEF TakenAs
  <2>2. PageOf(w.kind, page, st)
    BY <1>7 DEF PageAt
  <2>3. page.from = IF w.kind = "query" THEN Window(w.start) ELSE w.start
    BY DEF PageAt
  <2> DEFINE n == Len(w.pages)
  <2>4. /\ n \in Nat /\ DOMAIN w.pages = 1..n /\ DOMAIN v.pages = 1..(n + 1) /\ v.pages \in Seq(Pages)
        /\ v.pages[n + 1] = page /\ (\A k \in 1..n : v.pages[k] = w.pages[k])
        /\ v.pages # <<>> /\ Len(v.pages) = n + 1
    <3>1. w.pages \in Seq(Pages) /\ page \in Pages /\ v.pages = Append(w.pages, page)
      BY <1>2, <1>4, <2>1
    <3> QED BY <3>1, Appended
  <2>5. Last(v.pages) = page
    BY <2>4 DEF Last
  <2>6. page.from = IF n = 0 THEN Begins(v) ELSE v.pages[n].to
    <3>1. CASE w.pages = <<>>
      BY <1>3, <1>5, <2>3, <3>1 DEF Stands, Begins
    <3>2. CASE w.pages # <<>>
      <4>1. Last(w.pages) = w.pages[n] /\ n # 0 /\ Last(w.pages).to \in Nat
        BY <1>1, <3>2, LastOf
      <4>2. w.start = Last(w.pages).to
        BY <1>3, <3>2 DEF Stands
      <4>3. page.from = w.start
        BY <2>3, <4>1, <4>2, WindowIs
      <4>4. v.pages[n] = w.pages[n]
        BY <2>4, <4>1
      <4> QED BY <4>1, <4>2, <4>3, <4>4
    <3> QED BY <3>1, <3>2
  <2>7. Chained(v)
    <3> HIDE DEF n
    <3> SUFFICES ASSUME NEW k \in 1..(n + 1)
                 PROVE  v.pages[k].from = IF k = 1 THEN Begins(v) ELSE v.pages[k - 1].to
      BY <2>4 DEF Chained
    <3>1. CASE k = n + 1
      BY <2>4, <2>6, <3>1
    <3>2. CASE k # n + 1
      <4>1. k \in 1..n /\ (k # 1 => k - 1 \in 1..n)
        BY <2>4, <3>2
      <4>2. w.pages[k].from = IF k = 1 THEN Begins(w) ELSE w.pages[k - 1].to
        BY <1>2, <2>4, <4>1 DEF Chained
      <4> QED BY <1>5, <2>4, <4>1, <4>2
    <3> QED BY <3>1, <3>2
  <2>8. \A k \in DOMAIN v.pages : PageOf(v.kind, v.pages[k], st)
    <3> HIDE DEF n
    <3>1. \A k \in 1..n : PageOf(w.kind, w.pages[k], st)
      BY <1>2, <2>4
    <3>2. \A k \in 1..(n + 1) : k = n + 1 \/ k \in 1..n
      BY <2>4
    <3> QED BY <1>5, <2>2, <2>4, <3>1, <3>2
  <2>9. w.kind = "changes" => page.to \in 0..st
    BY <1>4, <2>2 DEF PageOf
  <2>10. Continues(v) => /\ v.start = Stands(v)
                         /\ v.pages # <<>> /\ Last(v.pages).told => Last(v.pages).to < Total
    <3>1. SUFFICES ASSUME ~v.last
                   PROVE  v.start = page.to /\ (page.told => page.to < Total)
      BY <2>1, <2>4, <2>5 DEF Continues, Stands
    <3>2. CASE w.kind = "query"
      BY <1>4, <2>1, <3>1, <3>2, GeneratedAssumption
    <3>3. CASE w.kind # "query"
      BY <2>1, <2>2, <3>1, <3>3 DEF PageOf
    <3> QED BY <3>2, <3>3
  <2>11. Finished(v) => Covered(v)
    <3>1. SUFFICES ASSUME v.last
                   PROVE  IF w.kind = "query" THEN page.to = Total ELSE page.to = page.at
      BY <1>5, <2>1, <2>4, <2>5 DEF Finished, Covered
    <3>2. CASE w.kind = "query"
      BY <1>4, <2>1, <2>2, <3>1, <3>2, GeneratedAssumption DEF PageOf
    <3>3. CASE w.kind # "query"
      BY <2>1, <2>2, <3>1, <3>3 DEF PageOf
    <3> QED BY <3>2, <3>3
  <2>12. v.start \in Int /\ (w.kind = "changes" => v.start \in 0..st)
    BY <1>2, <1>4, <2>1, <2>9
  <2>13. Walked(v, st)
    BY <1>2, <1>5, <2>1, <2>4, <2>7, <2>8, <2>10, <2>11, <2>12 DEF Walked
  <2> QED BY <1>5, <2>1, <2>13 DEF WalkOK
<1> QED BY <1>6, <1>7

(* So a walk covers what it is to cover.                                   *)
LEMMA WalkedCovers ==
  ASSUME NEW w, NEW st, WalkOK(w, st), w.pc # "none"
  PROVE  /\ \A k \in DOMAIN w.pages : w.pages[k].from = IF k = 1 THEN Begins(w) ELSE w.pages[k - 1].to
         /\ w.pc = "ended" => Covered(w)
         /\ w.pc = "asking" /\ w.pages # <<>> /\ Last(w.pages).told => w.start < Total
<1>1. Walked(w, st)
  BY DEF WalkOK
<1>2. Chained(w) /\ (Finished(w) => Covered(w))
      /\ (Continues(w) => /\ w.start = Stands(w)
                          /\ w.pages # <<>> /\ Last(w.pages).told => Last(w.pages).to < Total)
  BY <1>1 DEF Walked
<1> QED BY <1>2 DEF Chained, Finished, Continues, Stands

-----------------------------------------------------------------------------
(* The inductive invariant.                                                *)

(* The pages the server may answer with.                                   *)
LEMMA WindowsAt ==
  ASSUME server.state \in Nat, NEW kind \in {"query", "changes"}, NEW start \in Int,
         kind = "changes" => start \in 0..server.state, NEW page \in Windows(kind, start)
  PROVE  PageAt(kind, start, page, server.state)
<1> DEFINE st == server.state  from == Window(start)
<1>1. CASE kind = "query"
  <2>1. PICK n \in IF from >= Total THEN {0} ELSE 1..Min({2, Total - from}), b \in BOOLEAN :
          page = [from |-> from, to |-> from + n, told |-> b, total |-> IF b THEN Total ELSE 0,
                  more |-> FALSE, at |-> 0]
    BY <1>1 DEF Windows
  <2>2. from \in Nat /\ Total \in Nat
    BY WindowIs, GeneratedAssumption
  <2>3. Min({2, Total - from}) <= Total - from /\ Min({2, Total - from}) \in Int
    BY <2>2, MinOfTwo
  <2> HIDE DEF from
  <2>4. n \in Nat /\ (n = 0 <=> from >= Total) /\ (n # 0 => from + n <= Total)
    BY <2>1, <2>2, <2>3
  <2>5. /\ page.from = from /\ page.to = from + n /\ page.told = b /\ page.total = (IF b THEN Total ELSE 0)
        /\ page.more = FALSE /\ page.at = 0 /\ page \in Pages
    BY <2>1, <2>2, <2>4 DEF Pages
  <2> QED BY <1>1, <2>2, <2>4, <2>5 DEF PageAt, PageOf, from
<1>2. CASE kind = "changes"
  <2>1. PICK n \in IF start >= st THEN {start} ELSE (start + 1)..Min({start + 2, st}) :
          page = [from |-> start, to |-> n, told |-> FALSE, total |-> 0, more |-> n < st, at |-> st]
    BY <1>2 DEF Windows
  <2>2. Min({start + 2, st}) <= st /\ Min({start + 2, st}) \in Int
    BY MinOfTwo
  <2>3. n \in start..st /\ n \in Nat
    BY <1>2, <2>1, <2>2
  <2> DEFINE more == n < st
  <2>4. more \in BOOLEAN /\ (~more => n = st)
    BY <2>3
  <2> HIDE DEF more
  <2>5. page = [from |-> start, to |-> n, told |-> FALSE, total |-> 0, more |-> more, at |-> st]
    BY <2>1 DEF more
  <2>6. /\ page.from = start /\ page.to = n /\ page.told = FALSE /\ page.more = more /\ page.at = st
        /\ page \in Pages
    BY <2>3, <2>4, <2>5 DEF Pages
  <2> QED BY <1>2, <2>3, <2>4, <2>6 DEF PageAt, PageOf
<1> QED BY <1>1, <1>2

LEMMA PageGrown ==
  ASSUME NEW kind, NEW start, NEW page, NEW st \in Nat, PageAt(kind, start, page, st)
  PROVE  PageAt(kind, start, page, st + 1)
<1>1. page.at \in Int
  BY DEF PageAt, Pages
<1> QED BY <1>1 DEF PageAt, PageOf

AllFound(l, s) == UNION {{<<r.name, e>> : e \in Finds(l, s, r)} : r \in Requests}

(* The call a walk waits for is the one it asked with.                     *)
Asks(c, w, st) ==
  w.pc = "asking" =>
    /\ c.pc # "idle" /\ c.req = w.req /\ c.start = w.start
    /\ c.pc = "done" /\ c.errors = {} => PageAt(w.kind, w.start, c.page, st)

(* The inductive invariant: what verify found is what that session gives,  *)
(* and call and walk are as said above.                                    *)
IInv ==
  /\ language \in Clients
  /\ cached \in Sessions \cup {NoSession}
  /\ server \in [session : Sessions, changed : Nat, state : Nat]
  /\ verdict.session \in Sessions => verdict.found = AllFound(language, verdict.session)
  /\ CallOK(language, call)
  /\ WalkOK(walk, server.state)
  /\ Asks(call, walk, server.state)

LEMMA InvInit == Init => IInv
<1> SUFFICES ASSUME Init PROVE IInv
  OBVIOUS
<1>1. language \in Clients /\ cached \in Sessions \cup {NoSession}
  BY GeneratedAssumption DEF Init, Clients
<1>2. server \in [session : Sessions, changed : Nat, state : Nat]
  BY DEF Init
<1>3. verdict.session \notin Sessions
  BY SessionsAssumption DEF Init, NoVerdict, NoSession
<1>4. CallOK(language, call)
  BY DEF Init, NoCall, CallOK, CallFields
<1>5. WalkOK(walk, server.state) /\ walk.pc = "none"
  BY DEF Init, NoWalk, WalkOK, WalkFields
<1>6. Asks(call, walk, server.state)
  BY <1>5 DEF Asks
<1> QED BY <1>1, <1>2, <1>3, <1>4, <1>5, <1>6 DEF IInv

LEMMA TheSession == ASSUME IInv PROVE Session \in Sessions /\ server.session \in Sessions /\ server.state \in Nat
BY DEF IInv, Session

LEMMA CalledOK ==
  ASSUME NEW l, NEW r \in Requests, NEW start
  PROVE  CallOK(l, Called(r, start)) /\ Called(r, start).pc = "called"
         /\ Called(r, start).req = r /\ Called(r, start).start = start
BY DEF Called, NoCall, CallOK, CallFields

LEMMA NoCallOK == \A l : CallOK(l, NoCall)
BY DEF NoCall, CallOK, CallFields

(* What happens to the session and the records.                            *)
LEMMA SessionSteps == ASSUME IInv, RefreshSession \/ SessionChanges \/ RecordsChange \/ Verify PROVE IInv'
<1>0. Session \in Sessions /\ server.session \in Sessions /\ server.state \in Nat
  BY TheSession
<1>1. CASE RefreshSession
  BY <1>0, <1>1 DEF IInv, RefreshSession
<1>2. CASE SessionChanges
  <2>1. PICK s \in Sessions : server' = [server EXCEPT !.session = s, !.changed = @ + 1]
    BY <1>2 DEF SessionChanges
  <2>2. server' \in [session : Sessions, changed : Nat, state : Nat] /\ server'.state = server.state
    <3>1. server \in [session : Sessions, changed : Nat, state : Nat]
      BY DEF IInv
    <3>2. /\ server.session \in Sessions /\ server.changed \in Nat /\ server.state \in Nat
          /\ server = [session |-> server.session, changed |-> server.changed, state |-> server.state]
      BY <3>1
    <3>3. server' = [session |-> s, changed |-> server.changed + 1, state |-> server.state]
      BY <2>1, <3>2
    <3> QED BY <3>2, <3>3
  <2> QED BY <1>2, <2>2 DEF IInv, SessionChanges
<1>3. CASE RecordsChange
  <2>1. server' \in [session : Sessions, changed : Nat, state : Nat] /\ server'.state = server.state + 1
    BY <1>3 DEF IInv, RecordsChange
  <2>2. WalkOK(walk, server.state + 1)
    BY <1>0, Grown DEF IInv
  <2>3. Asks(call, walk, server.state + 1)
    BY <1>0, PageGrown DEF IInv, Asks
  <2> QED BY <1>3, <2>1, <2>2, <2>3 DEF IInv, RecordsChange
<1>4. CASE Verify
  <2>1. \A r : Checked(Session, r) = Finds(language, Session, r)
    BY Zenon DEF Checked, Finds
  <2>2. verdict'.session = Session /\ verdict'.found = AllFound(language, Session)
    <3>1. verdict' = [session |-> Session, found |-> AllFound(language, Session)]
      <4> DEFINE Of(r) == {<<r.name, e>> : e \in Checked(Session, r)}
                 Own(r) == {<<r.name, e>> : e \in Finds(language, Session, r)}
      <4>1. \A r : Of(r) = Own(r)
        BY <2>1
      <4>2. verdict' = [session |-> Session, found |-> UNION {Of(r) : r \in Requests}]
        BY <1>4, Zenon DEF Verify
      <4>3. AllFound(language, Session) = UNION {Own(r) : r \in Requests}
        BY Zenon DEF AllFound
      <4> HIDE DEF Of, Own
      <4> QED BY <4>1, <4>2, <4>3
    <3> QED BY <3>1
  <2>3. cached' = Session /\ UNCHANGED <<language, options, server, call, walk>>
    BY <1>4 DEF Verify
  <2> QED BY <1>0, <2>2, <2>3 DEF IInv
<1> QED BY <1>1, <1>2, <1>3, <1>4

(* A step of a call changes neither the session nor the walk.              *)
LEMMA CallStep ==
  ASSUME IInv, UNCHANGED <<language, options, server, verdict, walk>>, cached' \in Sessions \cup {NoSession},
         CallOK(language, call'), Asks(call', walk, server.state)
  PROVE  IInv'
BY DEF IInv

(* A step of a walk changes no session.                                    *)
LEMMA WalkStep ==
  ASSUME IInv, UNCHANGED <<language, options, cached, server>>, verdict' \in {verdict, NoVerdict},
         CallOK(language, call'), WalkOK(walk', server.state), Asks(call', walk', server.state)
  PROVE  IInv'
<1>1. NoVerdict.session \notin Sessions
  BY SessionsAssumption DEF NoVerdict, NoSession
<1>2. verdict'.session \in Sessions => verdict'.found = AllFound(language, verdict'.session)
  BY <1>1 DEF IInv
<1> QED BY <1>2 DEF IInv

LEMMA CallInv == ASSUME IInv, Call PROVE IInv'
<1>1. PICK r \in {x \in Requests : x.pages = ""} : call' = Called(r, 0)
  BY DEF Call
<1>2. CallOK(language, call') /\ Asks(call', walk, server.state)
  BY <1>1, CalledOK DEF Call, Asks
<1> QED BY <1>2, CallStep DEF Call, IInv

LEMMA TakeResultInv == ASSUME IInv, TakeResult PROVE IInv'
<1>1. CallOK(language, call') /\ Asks(call', walk, server.state)
  BY NoCallOK DEF TakeResult, Asks
<1> QED BY <1>1, CallStep DEF TakeResult, IInv

LEMMA LookUpInv == ASSUME IInv, LookUp PROVE IInv'
<1> DEFINE r == call.req  needed == r.primaries # <<>>  errors == Lookups(Session, r)
<1>1. /\ Session \in Sessions /\ language \in Clients /\ cached \in Sessions \cup {NoSession}
      /\ DOMAIN call = CallFields /\ call.pc = "called" /\ r \in Requests /\ call.used = {}
      /\ Asks(call, walk, server.state)
  BY TheSession DEF IInv, CallOK, LookUp
<1>2. errors = LooksUp(language, Session, r)
  BY Zenon DEF Lookups, LooksUp
<1>3. UNCHANGED <<language, options, server, verdict, walk>> /\ cached' \in Sessions \cup {NoSession}
  BY <1>1 DEF LookUp
<1>4. CASE needed /\ errors # {}
  <2>1. call' = [[call EXCEPT !.pc = "done", !.errors = errors, !.by = "client"] EXCEPT !.used = {Session}]
    BY <1>4 DEF LookUp, Stops
  <2> HIDE DEF errors
  <2>2. /\ DOMAIN call' = CallFields /\ call'.pc = "done" /\ call'.req = r /\ call'.start = call.start
        /\ call'.errors = errors /\ call'.by = "client" /\ call'.used = {Session}
    BY <1>1, <2>1 DEF CallFields
  <2>3. CallOK(language, call')
    BY <1>1, <1>2, <1>4, <2>2, Stopped
  <2>4. Asks(call', walk, server.state)
    BY <1>1, <1>4, <2>2 DEF Asks
  <2> QED BY <1>3, <2>3, <2>4, CallStep
<1>5. CASE ~(needed /\ errors # {})
  <2> DEFINE used == IF needed THEN {Session} ELSE {}
  <2>1. call' = [call EXCEPT !.pc = "looked", !.ids = Ids(Session, r), !.used = used]
    BY <1>5 DEF LookUp, Ids
  <2> HIDE DEF errors, used
  <2>2. /\ DOMAIN call' = CallFields /\ call'.pc = "looked" /\ call'.req = r /\ call'.start = call.start
        /\ call'.ids = Ids(Session, r) /\ call'.used = used
    BY <1>1, <2>1 DEF CallFields
  <2>3. ASSUME NEW s \in Sessions, used \subseteq {s}
        PROVE  Ids(Session, r) = Ids(s, r) /\ LooksUp(language, s, r) = {}
    <3>1. CASE needed
      <4>1. s = Session
        BY <2>3, <3>1 DEF used
      <4> QED BY <1>2, <1>5, <3>1, <4>1
    <3>2. CASE ~needed
      <4>1. Range(r.primaries) = {}
        BY <3>2 DEF Range
      <4>2. LooksUp(language, s, r) = {}
        BY <1>1, <4>1, LookupsOf
      <4> QED BY <4>1, <4>2 DEF Ids
    <3> QED BY <3>1, <3>2
  <2>4. used \subseteq Sessions
    BY <1>1 DEF used
  <2>5. CallOK(language, call')
    BY <1>1, <2>2, <2>3, <2>4 DEF CallOK, Prepared
  <2>6. Asks(call', walk, server.state)
    BY <1>1, <2>2 DEF Asks
  <2> QED BY <1>3, <2>5, <2>6, CallStep
<1> QED BY <1>4, <1>5

LEMMA PostInv == ASSUME IInv, Post PROVE IInv'
<1> DEFINE r == call.req  to == Address(Session, r)
           used == IF to.session THEN call.used \cup {Session} ELSE call.used
<1>1. /\ Session \in Sessions /\ language \in Clients /\ cached \in Sessions \cup {NoSession}
      /\ DOMAIN call = CallFields /\ call.pc = "looked" /\ r \in Requests /\ call.used \subseteq Sessions
      /\ (\A s \in Sessions : call.used \subseteq {s} => Prepared(language, call, s))
      /\ Asks(call, walk, server.state)
  BY TheSession DEF IInv, CallOK, Post
<1>2. UNCHANGED <<language, options, server, verdict, walk>> /\ cached' \in Sessions \cup {NoSession}
  BY <1>1 DEF Post
<1>3. used \subseteq Sessions /\ call.used \subseteq used
  BY <1>1
<1>4. CASE to.errors # {}
  <2>1. to.session /\ to.errors = Preflights(language, Session, r)
    BY <1>1, <1>4, Addressed
  <2>2. used = call.used \cup {Session}
    BY <2>1
  <2>3. call' = [[call EXCEPT !.pc = "done", !.errors = to.errors, !.by = "client"] EXCEPT !.used = used]
    BY <1>4 DEF Post, Stops
  <2> HIDE DEF to, used
  <2>4. /\ DOMAIN call' = CallFields /\ call'.pc = "done" /\ call'.req = r /\ call'.start = call.start
        /\ call'.errors = to.errors /\ call'.by = "client" /\ call'.used = used
    BY <1>1, <2>3 DEF CallFields
  <2>5. \A x \in Sessions : call'.used = {x} => x = Session
    BY <2>2, <2>4
  <2>6. CallOK(language, call')
    BY <1>1, <1>3, <1>4, <2>1, <2>4, <2>5, Stopped
  <2>7. Asks(call', walk, server.state)
    BY <1>1, <1>4, <2>4 DEF Asks
  <2> QED BY <1>2, <2>6, <2>7, CallStep
<1>5. CASE to.errors = {}
  <2>1. call' = [call EXCEPT !.pc = "sent", !.used = used]
    BY <1>5 DEF Post
  <2> HIDE DEF to, used
  <2>2. /\ DOMAIN call' = CallFields /\ call'.pc = "sent" /\ call'.req = r /\ call'.start = call.start
        /\ call'.ids = call.ids /\ call'.used = used
    BY <1>1, <2>1 DEF CallFields
  <2>3. \A s \in Sessions : used \subseteq {s} => Prepared(language, call', s)
    BY <1>1, <1>3, <2>2 DEF Prepared
  <2>4. CallOK(language, call')
    BY <1>1, <1>3, <2>2, <2>3 DEF CallOK
  <2>5. Asks(call', walk, server.state)
    BY <1>1, <2>2 DEF Asks
  <2> QED BY <1>2, <2>4, <2>5, CallStep
<1> QED BY <1>4, <1>5

-----------------------------------------------------------------------------
(* The server.                                                             *)

LEMMA UnsupportedIs == ASSUME NEW s, NEW c PROVE Unsupported(s, c) <=> Refuses(s, call.ids, c)
BY Zenon DEF Unsupported, Refuses

(* What a call that was answered tells of the session it was sent in: an   *)
(* account that lacks a capability makes its call fail or be left out.     *)
LEMMA AnsweredTold ==
  ASSUME NEW l \in Clients, NEW s \in Sessions, NEW c, NEW r \in Requests, c.req = r,
         Prepared(l, c, s), ~TurnsAway(s, r), Responds(r, c.resp),
         \A i \in DOMAIN r.calls : First(c.resp, i) = "error" => "error" \in Range(c.resp[i]),
         \A i \in DOMAIN r.calls : Refuses(s, c.ids, r.calls[i]) => First(c.resp, i) \in {"absent", "error"},
         c.value = Results(l, r, c.resp).value, c.errors = Results(l, r, c.resp).errors,
         c.by = IF \E i \in DOMAIN r.calls : Refuses(s, c.ids, r.calls[i]) THEN "server" ELSE ""
  PROVE  Told(l, c, s)
<1>1. c.ids = Ids(s, r) /\ LooksUp(l, s, r) = {}
  BY DEF Prepared
<1>2. DOMAIN c.ids = Range(r.primaries) /\ \A cap \in Range(r.primaries) : c.ids[cap] = s.primary[cap]
  BY <1>1 DEF Ids
<1>3. ASSUME Finds(l, s, r) = {}, \A cap \in DOMAIN c.ids : c.ids[cap] # "" PROVE c.by = ""
  <2>1. \A cap \in Range(r.primaries) :
          /\ s.primary[cap] \in DOMAIN s.accounts
          /\ s.accounts[s.primary[cap]] = {} \/ cap \in s.accounts[s.primary[cap]]
    <3>1. \A cap \in Range(r.primaries) : s.primary[cap] # ""
      BY <1>2, <1>3
    <3>2. \A cap \in Range(r.primaries) :
            LET id == s.primary[cap] IN
            id # "" => id \in DOMAIN s.accounts /\ (s.accounts[id] = {} \/ cap \in s.accounts[id])
      BY <1>3, NothingFound
    <3> QED BY <3>1, <3>2, Zenon
  <2>2. ASSUME NEW i \in DOMAIN r.calls PROVE ~Refuses(s, c.ids, r.calls[i])
    BY <1>2, <2>1 DEF Refuses
  <2> QED BY <2>2
<1>4. ASSUME Finds(l, s, r) # {}, c.errors = {} PROVE c.by = "server" /\ LeavesOut(c, s)
  <2>1. PICK i \in DOMAIN r.calls : r.calls[i].cap \in Range(r.primaries) /\ Lacks(s, r.calls[i].cap)
    BY <1>1, <1>4, SomethingFound
  <2>2. Refuses(s, c.ids, r.calls[i])
    BY <1>2, <2>1 DEF Refuses, Lacks
  <2>3. Unfailed(c.resp) /\ \A j \in c.value : First(c.resp, j) # "absent"
    BY <1>4, ResultsWhole
  <2>4. ASSUME NEW j \in DOMAIN r.calls, Refuses(s, c.ids, r.calls[j])
        PROVE  First(c.resp, j) = "absent" /\ j \notin c.value
    BY <2>3, <2>4 DEF Unfailed, Responds
  <2> QED BY <2>2, <2>4 DEF LeavesOut
<1>5. c.by # "client"
  OBVIOUS
<1> QED BY <1>3, <1>4, <1>5 DEF Told

LEMMA ServeInv == ASSUME IInv, Serve PROVE IInv'
<1> DEFINE r == call.req  s == server.session
<1>1. /\ s \in Sessions /\ server.state \in Nat /\ language \in Clients /\ cached \in Sessions \cup {NoSession}
      /\ DOMAIN call = CallFields /\ call.pc = "sent" /\ r \in Requests /\ call.used \subseteq Sessions
      /\ (\A x \in Sessions : call.used \subseteq {x} => Prepared(language, call, x))
      /\ Asks(call, walk, server.state) /\ WalkOK(walk, server.state)
  BY TheSession DEF IInv, CallOK, Serve
<1>2. UNCHANGED <<language, options, server, verdict, walk>> /\ cached' \in Sessions \cup {NoSession}
  BY <1>1 DEF Serve
<1>3. CASE TurnsAway(s, r)
  <2> DEFINE errors == {<<"request", 0>>}
  <2>1. call' = [[call EXCEPT !.pc = "done", !.errors = errors, !.by = "server"] EXCEPT !.used = @ \cup {s}]
    BY <1>3 DEF Serve, Stops
  <2>2. errors # {}
    OBVIOUS
  <2> HIDE DEF errors
  <2>3. /\ DOMAIN call' = CallFields /\ call'.pc = "done" /\ call'.req = r /\ call'.start = call.start
        /\ call'.errors = errors /\ call'.by = "server" /\ call'.used = call.used \cup {s}
    BY <1>1, <2>1 DEF CallFields
  <2>4. Whole(language, call')
    BY <2>2, <2>3 DEF Whole
  <2>5. ASSUME NEW x \in Sessions, call'.used = {x} PROVE Told(language, call', x)
    <3>1. x = s
      BY <2>3, <2>5
    <3>2. Finds(language, s, r) # {}
      BY <1>1, <1>3, NothingFound
    <3> QED BY <2>2, <2>3, <3>1, <3>2 DEF Told
  <2>6. CallOK(language, call')
    BY <1>1, <2>3, <2>4, <2>5 DEF CallOK
  <2>7. Asks(call', walk, server.state)
    BY <1>1, <2>2, <2>3 DEF Asks
  <2> QED BY <1>2, <2>6, <2>7, CallStep
<1>4. CASE ~TurnsAway(s, r)
  <2> DEFINE Every == UNION {Answers(s, r.calls[i]) : i \in DOMAIN r.calls}
  <2>0. PICK resp \in [DOMAIN r.calls -> Every], page \in Windows(r.pages, call.start) :
          /\ \A i \in DOMAIN r.calls :
               /\ resp[i] \in Answers(s, r.calls[i])
               /\ (\E j \in r.calls[i].refs : First(resp, j) \in {"absent", "error", "refused"})
                    => First(resp, i) \in {"absent", "error"}
          /\ call' = Answer(resp, page)
    BY <1>4, Zenon DEF Serve
  <2> HIDE DEF Every
  <2>1. /\ DOMAIN resp = DOMAIN r.calls
        /\ \A i \in DOMAIN r.calls : resp[i] \in Answers(s, r.calls[i])
        /\ call' = Answer(resp, page)
    BY <2>0
  <2>2. /\ Responds(r, resp)
        /\ \A i \in DOMAIN r.calls : First(resp, i) = "error" => "error" \in Range(resp[i])
        /\ \A i \in DOMAIN r.calls : Unsupported(s, r.calls[i]) => First(resp, i) \in {"absent", "error"}
    BY <1>1, <2>1, AnswersRespond
  <2>3. Result(r, resp) = Results(language, r, resp)
    BY Zenon DEF Result, Results
  <2> DEFINE by == IF \E i \in DOMAIN r.calls : Unsupported(s, r.calls[i]) THEN "server" ELSE ""
             res == Results(language, r, resp)
  <2>4. call' = [call EXCEPT !.pc = "done", !.resp = resp, !.page = page, !.value = res.value,
                             !.errors = res.errors, !.used = @ \cup {s}, !.by = by]
    BY <2>1, <2>3 DEF Answer
  <2>5. by = IF \E i \in DOMAIN r.calls : Refuses(s, call.ids, r.calls[i]) THEN "server" ELSE ""
    BY UnsupportedIs
  <2>6. \A i \in DOMAIN r.calls : Refuses(s, call.ids, r.calls[i]) => First(resp, i) \in {"absent", "error"}
    BY <2>2, UnsupportedIs
  <2> HIDE DEF by, res
  <2>7. /\ DOMAIN call' = CallFields /\ call'.pc = "done" /\ call'.req = r /\ call'.start = call.start
        /\ call'.ids = call.ids /\ call'.resp = resp /\ call'.page = page /\ call'.value = res.value
        /\ call'.errors = res.errors /\ call'.used = call.used \cup {s} /\ call'.by = by
    BY <1>1, <2>4 DEF CallFields
  <2>8. Whole(language, call')
    <3>1. ASSUME res.errors = {}
          PROVE  Unfailed(resp) /\ ReadWhole(r, resp) /\ (language # "ts" => GivenWhole(r, resp, res.value))
      BY <1>1, <2>2, <3>1, ResultsWhole DEF res
    <3> QED BY <2>7, <3>1 DEF Whole
  <2>9. ASSUME NEW x \in Sessions, call'.used = {x} PROVE Told(language, call', x)
    <3>1. x = s /\ call.used \subseteq {s}
      BY <2>7, <2>9
    <3>2. Prepared(language, call', s)
      BY <1>1, <2>7, <3>1 DEF Prepared
    <3> QED BY <1>1, <1>4, <2>2, <2>5, <2>6, <2>7, <3>1, <3>2, AnsweredTold DEF res
  <2>10. CallOK(language, call')
    BY <1>1, <2>7, <2>8, <2>9 DEF CallOK
  <2>11. Asks(call', walk, server.state)
    <3>1. SUFFICES ASSUME walk.pc = "asking"
                   PROVE  r = walk.req /\ call.start = walk.start /\ PageAt(walk.kind, walk.start, page, server.state)
      BY <2>7 DEF Asks
    <3>2. r = walk.req /\ call.start = walk.start
      BY <1>1, <3>1 DEF Asks
    <3>3. Walked(walk, server.state)
      BY <1>1, <3>1 DEF WalkOK
    <3>4. /\ walk.kind = r.pages /\ walk.kind \in {"query", "changes"} /\ walk.start \in Int
          /\ walk.kind = "changes" => walk.start \in 0..server.state
      BY <3>2, <3>3 DEF Walked
    <3>5. page \in Windows(walk.kind, walk.start)
      BY <2>1, <3>2, <3>4
    <3> QED BY <1>1, <3>2, <3>4, <3>5, WindowsAt
  <2> QED BY <1>2, <2>10, <2>11, CallStep
<1> QED BY <1>3, <1>4

-----------------------------------------------------------------------------
(* Every step, and the theorems.                                           *)

LEMMA WalkInv == ASSUME IInv, Walk PROVE IInv'
<1>1. /\ language \in Clients /\ server.state \in Nat /\ WalkOK(walk, server.state) /\ DOMAIN walk = WalkFields
  BY TheSession DEF IInv, WalkOK
<1>2. UNCHANGED <<language, options, cached, server>> /\ verdict' = NoVerdict /\ call' = NoCall
  BY DEF Walk
<1>3. WalkOK(walk', server.state) /\ walk'.pc = "wanting"
  <2>1. CASE walk.pc = "none"
    <3>1. PICK r \in Requests, at \in Starts :
            /\ r.pages # "" /\ (r.pages = "changes" => at = 0)
            /\ LET v == Begun([NoWalk EXCEPT !.req = r, !.kind = r.pages, !.given = at, !.param = at])
               IN walk' = [v EXCEPT !.first = v.start, !.begun = 1]
      BY <2>1 DEF Walk
    <3> DEFINE w == [NoWalk EXCEPT !.req = r, !.kind = r.pages, !.given = at, !.param = at]
               v == Begun(w)
    <3>2. /\ DOMAIN w = WalkFields /\ w.req = r /\ w.kind = r.pages /\ w.given = at /\ w.param = at
          /\ w.last = FALSE
      BY DEF NoWalk, WalkFields
    <3>3. walk' = [v EXCEPT !.first = v.start, !.begun = 1]
      BY <3>1
    <3> HIDE DEF w
    <3>4. /\ Unchanged(v, w) /\ v.pc = "wanting" /\ v.pages = <<>>
          /\ v.param \in {w.param, w.given} /\ v.start = v.param
      BY <1>1, <3>2, BegunIs
    <3> HIDE DEF v
    <3>5. /\ DOMAIN walk' = WalkFields /\ walk'.pc = "wanting" /\ walk'.pages = <<>> /\ walk'.last = FALSE
          /\ walk'.req = r /\ walk'.kind = r.pages /\ walk'.given = at /\ walk'.param = at
          /\ walk'.start = at /\ walk'.first = at
      BY <3>2, <3>3, <3>4 DEF Unchanged, WalkFields
    <3>6. at \in Int /\ (r.pages = "changes" => at \in 0..server.state) /\ r \in Requests
          /\ r.pages \in {"query", "changes"}
      <4>1. r \in Requests /\ r.pages # "" /\ r.pages \in {"", "query", "changes"}
        BY <3>1, RequestsAssumption
      <4>2. at \in Int /\ (r.pages = "changes" => at = 0)
        BY <3>1, GeneratedAssumption
      <4>4. 0 \in 0..server.state
        BY <1>1
      <4>5. r.pages \in {"query", "changes"}
        BY <4>1
      <4> QED BY <4>1, <4>2, <4>4, <4>5
    <3> QED BY <1>1, <3>5, <3>6, Beginning
  <2>2. CASE walk.pc # "none"
    <3> DEFINE v == Begun(walk)
    <3>1. walk' = [v EXCEPT !.first = v.start, !.begun = @ + 1, !.last = FALSE]
      BY <2>2 DEF Walk
    <3>2. /\ Unchanged(v, walk) /\ v.pc = "wanting" /\ v.pages = <<>>
          /\ v.param \in {walk.param, walk.given} /\ v.start = v.param
      BY <1>1, BegunIs
    <3> HIDE DEF v
    <3>3. /\ DOMAIN walk' = WalkFields /\ walk'.pc = "wanting" /\ walk'.pages = <<>> /\ walk'.last = FALSE
          /\ walk'.req = walk.req /\ walk'.kind = walk.kind /\ walk'.given = walk.given
          /\ walk'.param = v.param /\ walk'.start = v.param /\ walk'.first = v.param
      BY <1>1, <3>1, <3>2 DEF Unchanged, WalkFields
    <3>4. Walked(walk, server.state)
      BY <1>1, <2>2 DEF WalkOK
    <3>5. /\ walk.req \in Requests /\ walk.kind = walk.req.pages /\ walk.kind \in {"query", "changes"}
          /\ walk.given \in Int /\ v.param \in Int
          /\ walk.kind = "changes" => walk.given \in 0..server.state /\ v.param \in 0..server.state
      BY <3>2, <3>4 DEF Walked
    <3> QED BY <1>1, <3>3, <3>5, Beginning
  <2> QED BY <2>1, <2>2
<1>4. Asks(call', walk', server.state)
  BY <1>3 DEF Asks
<1> QED BY <1>2, <1>3, <1>4, NoCallOK, WalkStep

LEMMA AskPageInv == ASSUME IInv, AskPage PROVE IInv'
<1> DEFINE v == Asked(walk)
<1>1. /\ language \in Clients /\ server.state \in Nat /\ WalkOK(walk, server.state) /\ DOMAIN walk = WalkFields
      /\ walk.pc = "wanting" /\ walk.req \in Requests
  BY TheSession DEF IInv, WalkOK, Walked, AskPage
<1>2. /\ Unchanged(v, walk) /\ v.pc = "asking" /\ v.pages = walk.pages /\ v.param = walk.start /\ v.start = walk.start
  BY <1>1, AskedIs
<1>3. UNCHANGED <<language, options, cached, server, verdict>> /\ walk' = v
  BY DEF AskPage
<1>4. call' = Called(walk.req, v.start)
  BY DEF AskPage
<1> HIDE DEF v
<1>5. WalkOK(v, server.state)
  BY <1>1, <1>2, AskingAgain
<1>6. /\ CallOK(language, call') /\ call'.pc = "called" /\ call'.req = walk.req /\ call'.start = v.start
  BY <1>1, <1>4, CalledOK
<1>7. Asks(call', v, server.state)
  BY <1>2, <1>6 DEF Asks, Unchanged
<1> QED BY <1>3, <1>5, <1>6, <1>7, WalkStep

LEMMA TakePageInv == ASSUME IInv, TakePage PROVE IInv'
<1>1. /\ language \in Clients /\ server.state \in Nat /\ WalkOK(walk, server.state) /\ DOMAIN walk = WalkFields
      /\ walk.pc = "asking" /\ Asks(call, walk, server.state) /\ call.pc = "done"
  BY TheSession DEF IInv, WalkOK, TakePage
<1>2. UNCHANGED <<language, options, cached, server, verdict>> /\ call' = NoCall
  BY DEF TakePage
<1>3. WalkOK(walk', server.state) /\ walk'.pc # "asking"
  <2>1. CASE call.errors # {} \/ First(call.resp, 1) # "answered"
    <3> DEFINE v == Failed(walk)
    <3>1. /\ Unchanged(v, walk) /\ v.pc \in {"failed", "wanting"} /\ v.pages = walk.pages
          /\ v.param = walk.param /\ v.start = walk.start
      BY <1>1, FailedIs
    <3>2. walk' = v
      BY <2>1 DEF TakePage
    <3> HIDE DEF v
    <3> QED BY <1>1, <3>1, <3>2, AskingAgain
  <2>2. CASE ~(call.errors # {} \/ First(call.resp, 1) # "answered")
    <3> DEFINE v == Taken(walk, call.page)
    <3>1. walk' = v
      BY <2>2 DEF TakePage
    <3>2. PageAt(walk.kind, walk.start, call.page, server.state)
      BY <1>1, <2>2 DEF Asks
    <3>3. Walked(walk, server.state)
      BY <1>1 DEF WalkOK
    <3>4. call.page \in Pages /\ walk.kind \in {"query", "changes"} /\ walk.start \in Int
      BY <3>2, <3>3 DEF PageAt, Walked
    <3>5. Window(walk.start) \in Nat /\ Total \in Nat
      BY <3>4, WindowIs, GeneratedAssumption
    <3>6. call.page.to \in Nat
      BY <3>2, <3>4, <3>5 DEF PageAt, PageOf, Pages
    <3>7. walk.kind = "query" /\ call.page.from # call.page.to =>
            call.page.total = (IF call.page.told THEN Total ELSE 0) /\ Total > 0
      BY <3>2, <3>5, <3>6 DEF PageAt, PageOf
    <3>8. TakenAs(v, walk, call.page)
      BY <1>1, <3>4, <3>6, <3>7, TakenIs
    <3> HIDE DEF v
    <3>9. WalkOK(v, server.state)
      BY <1>1, <3>2, <3>8, Taking
    <3>10. v.pc # "asking"
      BY <3>8 DEF TakenAs
    <3> QED BY <3>1, <3>9, <3>10
  <2> QED BY <2>1, <2>2
<1>4. Asks(call', walk', server.state)
  BY <1>3 DEF Asks
<1> QED BY <1>2, <1>3, <1>4, NoCallOK, WalkStep

LEMMA NextPageInv == ASSUME IInv, NextPage PROVE IInv'
<1>1. /\ server.state \in Nat /\ WalkOK(walk, server.state) /\ walk.pc = "held" /\ DOMAIN walk = WalkFields
      /\ CallOK(language, call)
  BY TheSession DEF IInv, WalkOK, NextPage
<1>2. /\ UNCHANGED <<language, options, cached, server, verdict, call>>
      /\ walk' = [walk EXCEPT !.pc = IF walk.last THEN "ended" ELSE "wanting"]
  BY DEF NextPage
<1>3. WalkOK(walk', server.state)
  BY <1>1, <1>2, GoingOn
<1>4. walk'.pc # "asking"
  BY <1>1, <1>2 DEF WalkFields
<1>5. Asks(call', walk', server.state)
  BY <1>4 DEF Asks
<1> QED BY <1>1, <1>2, <1>3, <1>5, WalkStep

LEMMA InvStep == IInv /\ [Next]_vars => IInv'
<1> SUFFICES ASSUME IInv, [Next]_vars PROVE IInv'
  OBVIOUS
<1>1. CASE RefreshSession \/ SessionChanges \/ RecordsChange \/ Verify
  BY <1>1, SessionSteps
<1>2. CASE Call
  BY <1>2, CallInv
<1>3. CASE LookUp
  BY <1>3, LookUpInv
<1>4. CASE Post
  BY <1>4, PostInv
<1>5. CASE Serve
  BY <1>5, ServeInv
<1>6. CASE TakeResult
  BY <1>6, TakeResultInv
<1>7. CASE Walk
  BY <1>7, WalkInv
<1>8. CASE AskPage
  BY <1>8, AskPageInv
<1>9. CASE TakePage
  BY <1>9, TakePageInv
<1>10. CASE NextPage
  BY <1>10, NextPageInv
<1>11. CASE UNCHANGED vars
  BY <1>11 DEF IInv, vars
<1> QED BY <1>1, <1>2, <1>3, <1>4, <1>5, <1>6, <1>7, <1>8, <1>9, <1>10, <1>11 DEF Next

LEMMA Always == Spec => []IInv
BY InvInit, InvStep, PTL DEF Spec

(* A generated function that reports no error gives all it promises, in    *)
(* each language, for any requests and whatever the server answers: the    *)
(* runtimes' Decode, MethodErrors and SetErrorChecks leave nothing unread. *)
THEOREM ResultsAreWhole == Spec => []SuccessIsWhole
<1>1. IInv => SuccessIsWhole
  <2> SUFFICES ASSUME IInv, call.pc = "done", call.errors = {} PROVE SuccessIsWhole
    BY DEF SuccessIsWhole
  <2>1. Whole(language, call)
    BY DEF IInv, CallOK
  <2> QED BY <2>1 DEF Whole, Unfailed, ReadWhole, GivenWhole, SuccessIsWhole
<1> QED BY <1>1, Always, PTL

(* What was found of a request, picked out of what was found of all.       *)
LEMMA FoundByName ==
  ASSUME NEW l \in Clients, NEW s, NEW r \in Requests
  PROVE  {p[2] : p \in {x \in AllFound(l, s) : x[1] = r.name}} = Finds(l, s, r)
<1> DEFINE Own(q) == {<<q.name, e>> : e \in Finds(l, s, q)}
<1>1. ASSUME NEW x PROVE x \in AllFound(l, s) <=> \E q \in Requests : \E e \in Finds(l, s, q) : x = <<q.name, e>>
  BY DEF AllFound
<1>2. ASSUME NEW x \in AllFound(l, s), x[1] = r.name PROVE x[2] \in Finds(l, s, r)
  <2>0. PICK q \in Requests : \E e \in Finds(l, s, q) : x = <<q.name, e>>
    BY <1>1, <1>2
  <2>1. PICK e \in Finds(l, s, q) : x = <<q.name, e>>
    BY <2>0
  <2>2. q.name = r.name /\ x[2] = e
    BY <1>2, <2>1
  <2> QED BY <2>2, FindsByName
<1>3. ASSUME NEW e \in Finds(l, s, r) PROVE <<r.name, e>> \in AllFound(l, s)
  BY <1>1
<1>4. ASSUME NEW e PROVE <<r.name, e>>[1] = r.name /\ <<r.name, e>>[2] = e
  OBVIOUS
<1>5. {p[2] : p \in {x \in AllFound(l, s) : x[1] = r.name}} \subseteq Finds(l, s, r)
  BY <1>2
<1>6. ASSUME NEW e \in Finds(l, s, r) PROVE e \in {p[2] : p \in {x \in AllFound(l, s) : x[1] = r.name}}
  BY <1>3, <1>4
<1> QED BY <1>5, <1>6

(* verify is right about what sending a request comes to, for any requests *)
(* and sessions: what it finds nothing wrong with is not stopped, what it  *)
(* finds a problem with fails, and what stops it before it is sent was     *)
(* found.                                                                  *)
THEOREM VerdictsHold == Spec => []VerifyTells
<1>1. IInv => VerifyTells
  <2> SUFFICES ASSUME IInv, call.pc = "done", call.used = {verdict.session} PROVE VerifyTells
    BY DEF VerifyTells
  <2> DEFINE s == verdict.session  r == call.req
  <2>1. /\ language \in Clients /\ s \in Sessions /\ r \in Requests /\ verdict.found = AllFound(language, s)
        /\ Told(language, call, s)
    BY DEF IInv, CallOK
  <2>2. {p[2] : p \in {x \in verdict.found : x[1] = r.name}} = Finds(language, s, r)
    BY <2>1, FoundByName
  <2>3. LeftOut(s) <=> LeavesOut(call, s)
    BY UnsupportedIs DEF LeftOut, LeavesOut
  <2> DEFINE found == {p[2] : p \in {x \in verdict.found : x[1] = r.name}}
  <2> HIDE DEF found
  <2>4. found = Finds(language, s, r)
    BY <2>2 DEF found
  <2>5. /\ found = {} /\ (\A cap \in DOMAIN call.ids : call.ids[cap] # "") => call.by = ""
        /\ found # {} => call.errors # {} \/ (call.by = "server" /\ LeftOut(s))
        /\ call.by = "client" => {e[2] : e \in call.errors} \subseteq {e[2] : e \in found}
    BY <2>1, <2>3, <2>4, Zenon DEF Told
  <2> QED BY <2>5, Zenon DEF VerifyTells, found
<1> QED BY <1>1, Always, PTL

(* The pages of a walk follow each other from where it began, whatever     *)
(* failed between, and where it ends by itself nothing is left; for a list *)
(* of any length, any number of changes and of walks.                      *)
THEOREM WalksCover == Spec => []WalkCovers
<1>1. IInv => WalkCovers
  <2> SUFFICES ASSUME IInv PROVE WalkCovers
    OBVIOUS
  <2>1. WalkOK(walk, server.state) /\ Asks(call, walk, server.state)
    BY DEF IInv
  <2>2. From = Begins(walk)
    BY DEF From, Begins
  <2>3. CASE walk.pc # "none"
    BY <2>1, <2>2, <2>3, WalkedCovers DEF WalkCovers, Asks, Covered
  <2>4. CASE walk.pc = "none"
    BY <2>1, <2>4 DEF WalkCovers, WalkOK
  <2> QED BY <2>3, <2>4
<1> QED BY <1>1, Always, PTL

-----------------------------------------------------------------------------
(***************************************************************************)
(* Proofs about the catalogue of a project, for any schemas, however many  *)
(* are loaded one after another, and whatever they hold.                   *)
(***************************************************************************)
(* Fields. A name is one field's, and stays that field's as others are     *)
(* added.                                                                  *)
LEMMA ListIs == ASSUME NEW s, IsList(s)
                PROVE  Len(s) \in Nat /\ DOMAIN s = 1..Len(s) /\ Range(s) = {s[i] : i \in 1..Len(s)}
BY DEF IsList, Range

LEMMA OneField == ASSUME NEW fields, IsList(fields), SchemaFieldsHold(fields),
                         NEW f \in Range(fields), NEW g \in Range(fields), f.name = g.name
                  PROVE  f = g
<1>1. PICK i \in 1..Len(fields) : f = fields[i]
  BY ListIs
<1>2. PICK j \in 1..Len(fields) : g = fields[j]
  BY ListIs
<1>3. Len(fields) \in Nat /\ DOMAIN fields = 1..Len(fields)
  BY ListIs
<1>4. \A x, y \in 1..Len(fields) : x < y => Written(fields[x].name) # Written(fields[y].name)
  <2> SUFFICES ASSUME NEW x \in 1..Len(fields), NEW y \in 1..Len(fields), x < y
               PROVE  Written(fields[x].name) # Written(fields[y].name)
    OBVIOUS
  <2>1. x \in 1..(y - 1) /\ y \in DOMAIN fields
    BY <1>3
  <2> QED BY <2>1 DEF SchemaFieldsHold
<1>5. Written(fields[i].name) = Written(fields[j].name)
  BY <1>1, <1>2
<1>6. i = j
  BY <1>3, <1>4, <1>5
<1> QED BY <1>1, <1>2, <1>6

LEMMA FieldIs == ASSUME NEW fields, NEW nm, HasField(fields, nm)
                 PROVE  FieldOf(fields, nm) \in Range(fields) /\ FieldOf(fields, nm).name = nm
<1>1. \E f \in Range(fields) : f.name = nm
  BY DEF HasField, NamesOf, Range
<1> QED BY <1>1 DEF FieldOf

LEMMA FieldStays ==
  ASSUME NEW few, NEW fields, IsList(fields), SchemaFieldsHold(fields), Range(few) \subseteq Range(fields),
         NEW nm, HasField(few, nm)
  PROVE  HasField(fields, nm) /\ FieldOf(fields, nm) = FieldOf(few, nm)
<1>1. FieldOf(few, nm) \in Range(fields) /\ FieldOf(few, nm).name = nm
  BY FieldIs
<1>2. HasField(fields, nm)
  BY <1>1 DEF HasField, NamesOf, Range
<1>3. FieldOf(fields, nm) \in Range(fields) /\ FieldOf(fields, nm).name = nm
  BY <1>2, FieldIs
<1> QED BY <1>1, <1>2, <1>3, OneField

-----------------------------------------------------------------------------
(* What holds of the catalogue as a schema is loaded: all that is to hold  *)
(* of it, but for the types that have yet to be checked.                   *)
AllLists(a)   == \A o \in Range(a.objects) : IsList(o.fields)
Holding(a) ==
  /\ NamesApart(a) /\ MethodsApart(a) /\ FieldsHold(a) /\ AllLists(a)
  /\ \A n \in DOMAIN a.methods : MethodHolds(a, n)

(* Nothing that is registered goes away.                                   *)
Includes(a, b) ==
  \A n \in DOMAIN a.objects : n \in DOMAIN b.objects /\ Range(a.objects[n].fields) \subseteq Range(b.objects[n].fields)

LEMMA MethodStays ==
  ASSUME NEW a, NEW b, Includes(a, b), FieldsHold(b), AllLists(b),
         NEW n, MethodHolds(a, n), b.methods[n] = a.methods[n]
  PROVE  MethodHolds(b, n)
<1> DEFINE m == a.methods[n].shape
           args == ArgumentsName(a.methods[n].prefix)
           response == ResponseName(a.methods[n].prefix)
<1>1. {args, response} \subseteq DOMAIN b.objects
  BY DEF MethodHolds, Includes
<1>2. ASSUME m.properties # ""
      PROVE  /\ m.data \in DOMAIN b.objects
             /\ HasField(ArgumentsOf(b, n), m.properties)
             /\ HasField(ResponseOf(b, n), m.result)
             /\ HoldsRecords(FieldOf(ResponseOf(b, n), m.result).type, m.data)
             /\ m.returnsID => HasField(b.objects[m.data].fields, "id") \/ n = MethodName(m.data, "get")
  <2>1. /\ m.data \in DOMAIN a.objects
        /\ HasField(ArgumentsOf(a, n), m.properties)
        /\ HasField(ResponseOf(a, n), m.result)
        /\ HoldsRecords(FieldOf(ResponseOf(a, n), m.result).type, m.data)
        /\ m.returnsID => HasField(a.objects[m.data].fields, "id") \/ n = MethodName(m.data, "get")
    BY <1>2 DEF MethodHolds
  <2>2. {args, response} \subseteq DOMAIN a.objects
    BY DEF MethodHolds
  <2>3. \A x \in DOMAIN a.objects :
          /\ x \in DOMAIN b.objects
          /\ IsList(b.objects[x].fields) /\ SchemaFieldsHold(b.objects[x].fields)
          /\ Range(a.objects[x].fields) \subseteq Range(b.objects[x].fields)
    BY DEF Includes, FieldsHold, AllLists, Range
  <2>4. \A x \in DOMAIN a.objects : \A nm : HasField(a.objects[x].fields, nm) =>
          HasField(b.objects[x].fields, nm) /\ FieldOf(b.objects[x].fields, nm) = FieldOf(a.objects[x].fields, nm)
    <3> TAKE x \in DOMAIN a.objects
    <3> DEFINE few == a.objects[x].fields
               fields == b.objects[x].fields
    <3>1. IsList(fields) /\ SchemaFieldsHold(fields) /\ Range(few) \subseteq Range(fields)
      BY <2>3
    <3> HIDE DEF few, fields
    <3>2. \A nm : HasField(few, nm) => HasField(fields, nm) /\ FieldOf(fields, nm) = FieldOf(few, nm)
      BY <3>1, FieldStays
    <3> QED BY <3>2 DEF few, fields
  <2>5. /\ ArgumentsOf(a, n) = a.objects[args].fields /\ ArgumentsOf(b, n) = b.objects[args].fields
        /\ ResponseOf(a, n) = a.objects[response].fields /\ ResponseOf(b, n) = b.objects[response].fields
    BY DEF ArgumentsOf, ResponseOf
  <2> HIDE DEF m, args, response
  <2> QED BY <2>1, <2>2, <2>3, <2>4, <2>5
<1> QED BY <1>1, <1>2 DEF MethodHolds

-----------------------------------------------------------------------------
(* One object, and one method with its two.                                *)
LEMMA ObjectAdded ==
  ASSUME NEW a, Holding(a), a.status = "ok", NEW name, Unused(a, name),
         NEW o, IsList(o.fields), SchemaFieldsHold(o.fields)
  PROVE  LET b == AddObject(a, name, o) IN
         /\ Holding(b) /\ b.status = "ok" /\ Includes(a, b) /\ b.methods = a.methods
         /\ DOMAIN b.objects = DOMAIN a.objects \cup {name}
         /\ b.objects[name] = o
         /\ \A n \in DOMAIN a.objects : b.objects[n] = a.objects[n]
<1> DEFINE b == AddObject(a, name, o)
<1>1. name \notin DOMAIN a.objects
  BY DEF Unused
<1>2. b = Loaded(Including(a.objects, name, o), a.methods, a.status)
  BY <1>1 DEF AddObject
<1> HIDE DEF b
<1>3. /\ b.status = "ok" /\ b.methods = a.methods
      /\ DOMAIN b.objects = DOMAIN a.objects \cup {name}
      /\ b.objects[name] = o
      /\ \A n \in DOMAIN a.objects : b.objects[n] = a.objects[n]
  BY <1>1, <1>2 DEF Loaded, Including
<1>4. Includes(a, b)
  BY <1>3 DEF Includes
<1>5. FieldsHold(b) /\ AllLists(b)
  BY <1>3 DEF Holding, FieldsHold, AllLists, Range
<1>6. NamesApart(b)
  BY <1>3 DEF Holding, NamesApart, Unused
<1>7. \A n \in DOMAIN b.methods : MethodHolds(b, n)
  BY <1>3, <1>4, <1>5, MethodStays DEF Holding
<1>8. MethodsApart(b)
  BY <1>3 DEF Holding, MethodsApart
<1>9. Holding(b)
  BY <1>5, <1>6, <1>7, <1>8 DEF Holding
<1> QED BY <1>3, <1>4, <1>9 DEF b

(* What a method is to be, before its objects are registered.              *)
ShapeHolds(a, n, m) ==
  m.properties # "" =>
    /\ m.data \in DOMAIN a.objects
    /\ HasField(m.args, m.properties)
    /\ HasField(m.response, m.result)
    /\ HoldsRecords(FieldOf(m.response, m.result).type, m.data)
    /\ m.returnsID => HasField(a.objects[m.data].fields, "id") \/ n = MethodName(m.data, "get")

LEMMA MethodAdded ==
  ASSUME NEW a, Holding(a), a.status = "ok", NEW name, name \notin DOMAIN a.methods,
         NEW prefix, Unused(a, ArgumentsName(prefix)), Unused(a, ResponseName(prefix)),
         Written(ArgumentsName(prefix)) # Written(ResponseName(prefix)),
         NEW m, IsList(m.args), IsList(m.response), SchemaFieldsHold(m.args), SchemaFieldsHold(m.response),
         ShapeHolds(a, name, m)
  PROVE  LET b == AddMethod(a, name, prefix, m) IN
         /\ Holding(b) /\ b.status = "ok" /\ Includes(a, b)
         /\ DOMAIN b.objects = DOMAIN a.objects \cup {ArgumentsName(prefix), ResponseName(prefix)}
         /\ DOMAIN b.methods = DOMAIN a.methods \cup {name}
<1> DEFINE args == ArgumentsName(prefix)
           response == ResponseName(prefix)
           c == AddObject(a, args, Plain(m.args))
           d == AddObject(c, response, Plain(m.response))
           b == AddMethod(a, name, prefix, m)
<1>1. /\ Holding(c) /\ c.status = "ok" /\ c.methods = a.methods
      /\ DOMAIN c.objects = DOMAIN a.objects \cup {args}
      /\ c.objects[args] = Plain(m.args)
      /\ \A n \in DOMAIN a.objects : c.objects[n] = a.objects[n]
  <2>1. Plain(m.args).fields = m.args
    BY DEF Plain, Object
  <2> HIDE DEF args
  <2>2. Unused(a, args)
    BY DEF args
  <2>3. IsList(Plain(m.args).fields) /\ SchemaFieldsHold(Plain(m.args).fields)
    BY <2>1
  <2> QED BY <2>2, <2>3, ObjectAdded
<1>2. /\ Holding(d) /\ d.status = "ok" /\ d.methods = a.methods
      /\ DOMAIN d.objects = DOMAIN a.objects \cup {args, response}
      /\ d.objects[response] = Plain(m.response)
      /\ d.objects[args] = Plain(m.args)
      /\ \A n \in DOMAIN a.objects : d.objects[n] = a.objects[n]
  <2>1. Plain(m.response).fields = m.response
    BY DEF Plain, Object
  <2>2. Unused(c, response)
    BY <1>1 DEF Unused
  <2>3. IsList(Plain(m.response).fields) /\ SchemaFieldsHold(Plain(m.response).fields)
    BY <2>1
  <2> HIDE DEF args, response, c
  <2>4. /\ Holding(d) /\ d.status = "ok" /\ d.methods = c.methods
        /\ DOMAIN d.objects = DOMAIN c.objects \cup {response}
        /\ d.objects[response] = Plain(m.response)
        /\ \A n \in DOMAIN c.objects : d.objects[n] = c.objects[n]
    BY <1>1, <2>2, <2>3, ObjectAdded
  <2> QED BY <1>1, <2>4
<1>3. b = Loaded(d.objects, Including(d.methods, name, [shape |-> m, prefix |-> prefix]), d.status)
  BY <1>2 DEF AddMethod
<1> HIDE DEF args, response, c, d, b
<1>4. /\ b.status = "ok" /\ b.objects = d.objects
      /\ DOMAIN b.methods = DOMAIN a.methods \cup {name}
      /\ b.methods[name].shape = m /\ b.methods[name].prefix = prefix
      /\ \A n \in DOMAIN a.methods : b.methods[n] = a.methods[n]
  BY <1>2, <1>3 DEF Loaded, Including
<1>5. Includes(a, b)
  BY <1>2, <1>4 DEF Includes
<1>6. NamesApart(b) /\ FieldsHold(b) /\ AllLists(b)
  BY <1>2, <1>4 DEF Holding, NamesApart, FieldsHold, AllLists
<1>7. MethodHolds(b, name)
  <2>1. ArgumentsOf(b, name) = m.args /\ ResponseOf(b, name) = m.response
    BY <1>2, <1>4 DEF ArgumentsOf, ResponseOf, Plain, Object, args, response
  <2>2. {args, response} \subseteq DOMAIN b.objects
    BY <1>2, <1>4
  <2>3. \A x \in DOMAIN a.objects : x \in DOMAIN b.objects /\ b.objects[x] = a.objects[x]
    BY <1>2, <1>4
  <2> QED BY <1>4, <2>1, <2>2, <2>3 DEF ShapeHolds, MethodHolds, args, response
<1>8. \A n \in DOMAIN b.methods : MethodHolds(b, n)
  <2>1. \A n \in DOMAIN a.methods : MethodHolds(b, n)
    BY <1>4, <1>5, <1>6, MethodStays DEF Holding
  <2> QED BY <1>4, <1>7, <2>1
<1>9. MethodsApart(b)
  <2>1. \A n \in DOMAIN a.methods : ArgumentsName(a.methods[n].prefix) # args
    <3>1. args \notin DOMAIN a.objects
      BY DEF Unused, args
    <3>2. \A n \in DOMAIN a.methods : ArgumentsName(a.methods[n].prefix) \in DOMAIN a.objects
      BY DEF Holding, MethodHolds
    <3> QED BY <3>1, <3>2
  <2>2. \A m1, m2 \in DOMAIN a.methods :
          ArgumentsName(a.methods[m1].prefix) = ArgumentsName(a.methods[m2].prefix) => m1 = m2
    BY DEF Holding, MethodsApart
  <2>3. ArgumentsName(b.methods[name].prefix) = args
    BY <1>4 DEF args
  <2> QED BY <1>4, <2>1, <2>2, <2>3 DEF MethodsApart
<1> QED BY <1>2, <1>4, <1>5, <1>6, <1>8, <1>9 DEF Holding, b, args, response

-----------------------------------------------------------------------------
(* Arguments added to a type's methods.                                    *)
LEMMA ListsJoin == ASSUME NEW s, NEW t, IsList(s), IsList(t)
                   PROVE  /\ IsList(s \o t) /\ Len(s \o t) = Len(s) + Len(t)
                          /\ Range(s) \subseteq Range(s \o t)
                          /\ \A i \in 1..Len(s) : (s \o t)[i] = s[i]
                          /\ \A i \in 1..Len(t) : (s \o t)[Len(s) + i] = t[i]
                          /\ \A i \in (Len(s) + 1)..(Len(s) + Len(t)) : (s \o t)[i] = t[i - Len(s)]
<1> DEFINE S == Range(s) \cup Range(t)
           u == s \o t
<1>1. s \in Seq(S) /\ t \in Seq(S)
  BY DEF IsList
<1>2. Len(s) \in Nat /\ Len(t) \in Nat
  BY <1>1
<1> HIDE DEF S
<1>3. u \in Seq(S) /\ Len(u) = Len(s) + Len(t)
  BY <1>1
<1>4. DOMAIN u = 1..(Len(s) + Len(t)) /\ DOMAIN s = 1..Len(s)
  BY <1>1, <1>3
<1>5. /\ \A i \in 1..Len(s) : u[i] = s[i]
      /\ \A i \in (Len(s) + 1)..(Len(s) + Len(t)) : u[i] = t[i - Len(s)]
  BY <1>1, <1>2
<1>6. \A i \in 1..Len(t) : u[Len(s) + i] = t[i]
  BY <1>2, <1>5
<1> HIDE DEF u
<1>7. IsList(u)
  <2>1. \A i \in 1..Len(u) : u[i] \in Range(u)
    BY <1>3, <1>4 DEF Range
  <2>2. u = [i \in 1..Len(u) |-> u[i]] /\ Len(u) \in Nat
    BY <1>2, <1>3
  <2> QED BY <2>1, <2>2 DEF IsList
<1>8. Range(s) \subseteq Range(u)
  BY <1>2, <1>4, <1>5 DEF Range
<1> QED BY <1>3, <1>5, <1>6, <1>7, <1>8 DEF u

LEMMA FieldsJoin ==
  ASSUME NEW s, NEW t, IsList(s), IsList(t), SchemaFieldsHold(s), SchemaFieldsHold(t),
         \A f \in Range(t) : ~ClashingField(s, f.name)
  PROVE  SchemaFieldsHold(s \o t)
<1> DEFINE u == s \o t
<1>1. /\ IsList(u) /\ Len(u) = Len(s) + Len(t)
      /\ \A i \in 1..Len(s) : u[i] = s[i]
      /\ \A i \in (Len(s) + 1)..(Len(s) + Len(t)) : u[i] = t[i - Len(s)]
  BY ListsJoin
<1> HIDE DEF u
<1>2. /\ Len(s) \in Nat /\ DOMAIN s = 1..Len(s) /\ Len(t) \in Nat /\ DOMAIN t = 1..Len(t)
      /\ DOMAIN u = 1..(Len(s) + Len(t))
  BY <1>1, ListIs
<1> SUFFICES ASSUME NEW i \in DOMAIN u
             PROVE  /\ u[i].name # "" /\ u[i].type.kind # "unparsable"
                    /\ \A j \in 1..(i - 1) : Written(u[j].name) # Written(u[i].name)
  BY DEF SchemaFieldsHold, u
<1>3. CASE i \in 1..Len(s)
  <2>1. i \in DOMAIN s /\ u[i] = s[i] /\ \A j \in 1..(i - 1) : u[j] = s[j]
    BY <1>1, <1>2, <1>3
  <2> QED BY <2>1 DEF SchemaFieldsHold
<1>4. CASE i \in (Len(s) + 1)..(Len(s) + Len(t))
  <2>1. i - Len(s) \in DOMAIN t /\ u[i] = t[i - Len(s)]
    BY <1>1, <1>2, <1>4
  <2>2. ASSUME NEW j \in 1..(i - 1) PROVE Written(u[j].name) # Written(u[i].name)
    <3>1. CASE j \in 1..Len(s)
      <4>1. u[j] \in Range(s) /\ u[i] \in Range(t)
        BY <1>1, <1>2, <2>1, <3>1 DEF Range
      <4> QED BY <4>1 DEF ClashingField
    <3>2. CASE j \in (Len(s) + 1)..(Len(s) + Len(t))
      <4>1. u[j] = t[j - Len(s)] /\ j - Len(s) \in 1..((i - Len(s)) - 1)
        BY <1>1, <1>2, <1>4, <3>2
      <4> QED BY <2>1, <4>1 DEF SchemaFieldsHold
    <3> QED BY <1>2, <1>4, <3>1, <3>2
  <2>3. u[i].name # "" /\ u[i].type.kind # "unparsable"
    BY <2>1 DEF SchemaFieldsHold
  <2> QED BY <2>2, <2>3
<1>5. i \in 1..Len(s) \/ i \in (Len(s) + 1)..(Len(s) + Len(t))
  BY <1>2
<1> QED BY <1>3, <1>4, <1>5, Zenon

LEMMA ArgumentsAdded ==
  ASSUME NEW a, Holding(a), a.status = "ok", NEW type, NEW args, \A v \in DOMAIN args : IsList(args[v])
  PROVE  LET b == AddArguments(a, type, args) IN
         /\ b.status \in {"ok", "refused"}
         /\ b.status = "ok" => Holding(b) /\ DOMAIN b.objects = DOMAIN a.objects /\ b.methods = a.methods
<1> DEFINE b == AddArguments(a, type, args)
           prefix(v) == a.methods[MethodName(type, v)].prefix
           AddedTo(x) == {v \in DOMAIN args : x = ArgumentsName(prefix(v))}
           Fit(v) == /\ MethodName(type, v) \in DOMAIN a.methods
                     /\ SchemaFieldsHold(args[v])
                     /\ \A f \in Range(args[v]) : ~ClashingField(ArgumentsOf(a, MethodName(type, v)), f.name)
<1>1. CASE \E v \in DOMAIN args : ~Fit(v)
  <2>1. b = Refuse(a)
    BY <1>1 DEF AddArguments
  <2> QED BY <2>1 DEF Refuse, Ended, Loaded
<1>2. CASE \A v \in DOMAIN args : Fit(v)
  <2>1. b = Loaded(AppendArguments(a, type, args), a.methods, a.status)
    BY <1>2 DEF AddArguments
  <2>2. b.objects = AppendArguments(a, type, args) /\ b.methods = a.methods /\ b.status = "ok"
    BY <2>1 DEF Loaded
  <2>3. DOMAIN b.objects = DOMAIN a.objects
    BY <2>2 DEF AppendArguments
  <2>4. ASSUME NEW x \in DOMAIN a.objects
        PROVE  /\ IsList(b.objects[x].fields) /\ SchemaFieldsHold(b.objects[x].fields)
               /\ Range(a.objects[x].fields) \subseteq Range(b.objects[x].fields)
    <3>0. IsList(a.objects[x].fields) /\ SchemaFieldsHold(a.objects[x].fields)
      BY DEF Holding, FieldsHold, AllLists, Range
    <3>1. CASE AddedTo(x) = {}
      <4>1. b.objects[x] = a.objects[x]
        BY <2>2, <3>1 DEF AppendArguments
      <4> QED BY <3>0, <4>1
    <3>2. CASE AddedTo(x) # {}
      <4> DEFINE v == CHOOSE w \in AddedTo(x) : TRUE
      <4>1. v \in DOMAIN args /\ x = ArgumentsName(prefix(v))
        BY <3>2
      <4> DEFINE joined == a.objects[x].fields \o args[v]
      <4>2. b.objects[x] = Object(joined, a.objects[x].sort, a.objects[x].dynamic)
        BY <2>2, <3>2 DEF AppendArguments
      <4> HIDE DEF joined, b
      <4>5. b.objects[x].fields = joined
        BY <4>2 DEF Object
      <4> HIDE DEF v
      <4>3. ArgumentsOf(a, MethodName(type, v)) = a.objects[x].fields
        BY <4>1 DEF ArgumentsOf
      <4>4. /\ SchemaFieldsHold(args[v]) /\ IsList(args[v])
            /\ \A f \in Range(args[v]) : ~ClashingField(a.objects[x].fields, f.name)
        BY <1>2, <4>1, <4>3
      <4> QED BY <3>0, <4>4, <4>5, ListsJoin, FieldsJoin DEF joined
    <3> QED BY <3>1, <3>2
  <2> HIDE DEF b
  <2>5. Includes(a, b)
    BY <2>3, <2>4 DEF Includes
  <2>6. FieldsHold(b) /\ AllLists(b)
    BY <2>3, <2>4 DEF FieldsHold, AllLists, Range
  <2>7. NamesApart(b)
    BY <2>3 DEF Holding, NamesApart
  <2>8. \A n \in DOMAIN b.methods : MethodHolds(b, n)
    BY <2>2, <2>5, <2>6, MethodStays DEF Holding
  <2>9. MethodsApart(b)
    BY <2>2 DEF Holding, MethodsApart
  <2> QED BY <2>2, <2>3, <2>6, <2>7, <2>8, <2>9 DEF Holding, b
<1> QED BY <1>1, <1>2

-----------------------------------------------------------------------------
(* The standard methods: only a /get selects properties, and of the type's *)
(* own records.                                                            *)
LEMMA GetHolds == ASSUME NEW a, NEW type, type \in DOMAIN a.objects, NEW capability,
                         IsList(Standard(type, "get", capability).response),
                         SchemaFieldsHold(Standard(type, "get", capability).response)
                  PROVE  ShapeHolds(a, MethodName(type, "get"), Standard(type, "get", capability))
<1> DEFINE name == MethodName(type, "get")
           m == Standard(type, "get", capability)
           list == F("list", Arr(Obj(type)))
<1>1. m = RegisterGet(name, type, capability)
  BY DEF Standard
<1>2. /\ m.data = type /\ m.properties = "properties" /\ m.result = "list"
      /\ m.args = <<AccountID, F("ids", Nul(Arr(Id))), F("properties", Nul(Arr(Str)))>>
      /\ m.response = <<AccountID, F("state", Str), list, F("notFound", Arr(Id))>>
  BY <1>1 DEF RegisterGet, Method
<1>3. F("properties", Nul(Arr(Str))).name = "properties" /\ list.name = "list" /\ list.type = Arr(Obj(type))
  BY DEF F
<1> HIDE DEF m, list
<1>4. m.args[3].name = "properties" /\ 3 \in DOMAIN m.args
  BY <1>2, <1>3
<1>5. m.response[3] = list /\ 3 \in DOMAIN m.response
  BY <1>2
<1>6. HasField(m.args, m.properties)
  BY <1>2, <1>4 DEF HasField, NamesOf
<1>7. HasField(m.response, m.result) /\ list \in Range(m.response)
  BY <1>2, <1>3, <1>5 DEF HasField, NamesOf, Range
<1>8. FieldOf(m.response, "list") = list
  <2>1. FieldOf(m.response, "list") \in Range(m.response) /\ FieldOf(m.response, "list").name = "list"
    BY <1>2, <1>7, FieldIs
  <2>2. IsList(m.response) /\ SchemaFieldsHold(m.response)
    BY DEF m
  <2> QED BY <1>3, <1>7, <2>1, <2>2, OneField
<1>9. HoldsRecords(Arr(Obj(type)), type)
  <2>1. Arr(Obj(type)).kind = "array" /\ Arr(Obj(type)).of = <<Obj(type)>>
    BY DEF Arr, Type
  <2>2. HeldIn(Arr(Obj(type))) = Obj(type)
    BY <2>1 DEF HeldIn
  <2>3. Obj(type).name = type
    BY DEF Obj, Type
  <2> QED BY <2>1, <2>2, <2>3 DEF HoldsRecords
<1> QED BY <1>2, <1>3, <1>6, <1>7, <1>8, <1>9 DEF ShapeHolds, m

LEMMA OthersHold == ASSUME NEW a, NEW name, NEW type, NEW v \in StandardMethods \ {"get"}, NEW capability
                    PROVE  ShapeHolds(a, name, Standard(type, v, capability))
<1> DEFINE m == Standard(type, v, capability)
           n == MethodName(type, v)
<1>1. m \in {RegisterChanges(n, type, capability), RegisterSet(n, type, capability), RegisterCopy(n, type, capability),
             RegisterQuery(n, type, capability), RegisterQueryChanges(n, type, capability)}
  BY DEF Standard, StandardMethods
<1>2. \A capa, args, response : Method(n, capa, type, args, response).properties = ""
  BY DEF Method
<1>3. \A x \in {RegisterChanges(n, type, capability), RegisterQuery(n, type, capability),
                RegisterQueryChanges(n, type, capability)} : x.properties = ""
  BY <1>2 DEF RegisterChanges, RegisterQuery, RegisterQueryChanges
<1>4. RegisterSet(n, type, capability).properties = "" /\ RegisterCopy(n, type, capability).properties = ""
  BY DEF RegisterSet, RegisterCopy, Method
<1>5. m.properties = ""
  BY <1>1, <1>3, <1>4
<1> QED BY <1>5 DEF ShapeHolds

-----------------------------------------------------------------------------
(* The names a schema claims, and the step of loading it that each is      *)
(* registered at: only names claimed for that step or an earlier one are   *)
(* there, beside those of the catalogue before.                            *)
StepOf(sc, x) ==
  IF x.kind = "type" THEN x.i ELSE IF x.k # 0 THEN Len(sc.types) + x.i ELSE 2 * Len(sc.types) + x.i

Made(sc, n) == {x \in Claims(sc) : StepOf(sc, x) <= n}
Named(a0, a, made) == \A nm \in DOMAIN a.objects : nm \in DOMAIN a0.objects \/ \E x \in made : nm = x.name

LEMMA ClaimsUnused ==
  ASSUME NEW a0, NEW sc, ReserveNames(a0, sc), NEW x \in Claims(sc), NEW made \in SUBSET Claims(sc), x \notin made,
         NEW a, Named(a0, a, made)
  PROVE  Unused(a, x.name)
<1> SUFFICES ASSUME NEW nm \in DOMAIN a.objects PROVE Written(x.name) # Written(nm)
  BY DEF Unused
<1>1. CASE nm \in DOMAIN a0.objects
  BY <1>1 DEF ReserveNames, Unused
<1>2. CASE \E y \in made : nm = y.name
  BY <1>2 DEF ReserveNames
<1> QED BY <1>1, <1>2 DEF Named

(* A schema of the project, its types in any order.                        *)
Loadable(sc) ==
  IsList(sc.types) /\ \E s \in Schemas : /\ Range(sc.types) = Range(s.types)
                                         /\ sc.methods = s.methods /\ sc.capability = s.capability

LEMMA LoadableIs ==
  ASSUME NEW sc, Loadable(sc)
  PROVE  /\ IsList(sc.types) /\ IsList(sc.methods)
         /\ \A t \in Range(sc.types) :
              /\ IsList(t.fields) /\ IsList(t.methods) /\ \A v \in DOMAIN t.args : IsList(t.args[v])
              /\ t.name \in TypesNamed \cup Malformed /\ DOMAIN t.args \subseteq VerbsNamed
              /\ \A v \in StandardMethods :
                   LET m == Standard(t.name, v, sc.capability)
                   IN IsList(m.args) /\ IsList(m.response) /\ SchemaFieldsHold(m.args) /\ SchemaFieldsHold(m.response)
         /\ \A m \in Range(sc.methods) : IsList(m.args) /\ IsList(m.response)
<1>1. PICK s \in Schemas : Range(sc.types) = Range(s.types) /\ sc.methods = s.methods /\ sc.capability = s.capability
  BY DEF Loadable
<1>2. \A t \in Range(sc.types) : t.name \in TypesNamed \cup Malformed /\ DOMAIN t.args \subseteq VerbsNamed
  BY <1>1 DEF TypesNamed, VerbsNamed
<1>3. \A t \in Range(sc.types) : \A v \in StandardMethods :
        LET m == Standard(t.name, v, sc.capability)
        IN IsList(m.args) /\ IsList(m.response) /\ SchemaFieldsHold(m.args) /\ SchemaFieldsHold(m.response)
  BY <1>1, StandardsAssumption
<1>4. /\ IsList(sc.types) /\ IsList(sc.methods)
      /\ \A t \in Range(sc.types) : IsList(t.fields) /\ IsList(t.methods) /\ \A v \in DOMAIN t.args : IsList(t.args[v])
      /\ \A m \in Range(sc.methods) : IsList(m.args) /\ IsList(m.response)
  BY <1>1, SchemasAssumption DEF Loadable
<1> QED BY <1>2, <1>3, <1>4

LEMMA NamesAre ==
  ASSUME NEW a0, NEW sc, Loadable(sc), ReserveNames(a0, sc)
  PROVE  \A t \in Range(sc.types) : t.name \in TypesNamed
<1>1. \A t \in Range(sc.types) : t.name \in TypesNamed \cup Malformed
  BY LoadableIs
<1>2. \A t \in Range(sc.types) : t.name \notin Malformed
  BY DEF ReserveNames, MethodsNamed, CheckTypeName
<1> QED BY <1>1, <1>2

LEMMA SchemaIs == ASSUME NEW sc, Loadable(sc)
                  PROVE  /\ Len(sc.types) \in Nat /\ DOMAIN sc.types = 1..Len(sc.types)
                         /\ Len(sc.methods) \in Nat /\ DOMAIN sc.methods = 1..Len(sc.methods)
                         /\ \A i \in 1..Len(sc.types) : sc.types[i] \in Range(sc.types)
                         /\ \A i \in 1..Len(sc.methods) : sc.methods[i] \in Range(sc.methods)
                         /\ \A i \in 1..Len(sc.types) :
                              /\ Len(sc.types[i].methods) \in Nat
                              /\ DOMAIN sc.types[i].methods = 1..Len(sc.types[i].methods)
<1>1. IsList(sc.types) /\ IsList(sc.methods) /\ \A t \in Range(sc.types) : IsList(t.methods)
  BY LoadableIs
<1> QED BY <1>1, ListIs DEF Range

LEMMA ClaimsAre ==
  ASSUME NEW sc, Loadable(sc)
  PROVE  /\ \A i \in 1..Len(sc.types) : Claim("type", i, 0, sc.types[i].name) \in Claims(sc)
         /\ \A i \in 1..Len(sc.types) : \A k \in DOMAIN sc.types[i].methods :
              ClaimedBy(i, k, StandardPrefix(sc.types[i].name, sc.types[i].methods[k])) \subseteq Claims(sc)
         /\ \A i \in 1..Len(sc.methods) :
              ClaimedBy(i, 0, TypeNamePrefix(sc.methods[i].type, sc.methods[i].verb)) \subseteq Claims(sc)
<1>1. DOMAIN sc.types = 1..Len(sc.types) /\ DOMAIN sc.methods = 1..Len(sc.methods)
  BY SchemaIs
<1>2. \A i \in 1..Len(sc.types) : Claim("type", i, 0, sc.types[i].name) \in Claims(sc)
  BY <1>1 DEF Claims, TypeClaims
<1>3. ASSUME NEW i \in 1..Len(sc.types), NEW k \in DOMAIN sc.types[i].methods
      PROVE  ClaimedBy(i, k, StandardPrefix(sc.types[i].name, sc.types[i].methods[k])) \subseteq Claims(sc)
  BY <1>1 DEF Claims, StandardClaims
<1>4. ASSUME NEW i \in 1..Len(sc.methods)
      PROVE  ClaimedBy(i, 0, TypeNamePrefix(sc.methods[i].type, sc.methods[i].verb)) \subseteq Claims(sc)
  BY <1>1 DEF Claims, OwnClaims
<1> QED BY <1>2, <1>3, <1>4

LEMMA StepsAre == ASSUME NEW sc, Loadable(sc)
                  PROVE  \A x \in Claims(sc) : StepOf(sc, x) \in Nat
<1>1. Len(sc.types) \in Nat
  BY SchemaIs
<1>2. \A x \in Claims(sc) : x.i \in Nat
  BY SchemaIs DEF Claims, TypeClaims, StandardClaims, OwnClaims, ClaimedBy, Claim
<1> QED BY <1>1, <1>2 DEF StepOf

(* Of the two names of one method, neither is the other.                   *)
LEMMA TwoNames ==
  ASSUME NEW a0, NEW sc, ReserveNames(a0, sc), NEW i, NEW k, NEW prefix, ClaimedBy(i, k, prefix) \subseteq Claims(sc)
  PROVE  Written(ArgumentsName(prefix)) # Written(ResponseName(prefix))
<1> DEFINE x == Claim("arguments", i, k, ArgumentsName(prefix))
           y == Claim("response", i, k, ResponseName(prefix))
<1>1. x \in Claims(sc) /\ y \in Claims(sc)
  BY DEF ClaimedBy
<1>2. x # y /\ x.name = ArgumentsName(prefix) /\ y.name = ResponseName(prefix)
  BY DEF Claim
<1> QED BY <1>1, <1>2 DEF ReserveNames

(* Two types of a schema have two names.                                   *)
LEMMA TypesApart ==
  ASSUME NEW a0, NEW sc, Loadable(sc), ReserveNames(a0, sc),
         NEW i \in 1..Len(sc.types), NEW j \in 1..Len(sc.types), sc.types[i].name = sc.types[j].name
  PROVE  i = j
<1> DEFINE x == Claim("type", i, 0, sc.types[i].name)
           y == Claim("type", j, 0, sc.types[j].name)
<1>1. x \in Claims(sc) /\ y \in Claims(sc)
  BY ClaimsAre
<1>2. x.name = sc.types[i].name /\ y.name = sc.types[j].name /\ x.i = i /\ y.i = j
  BY DEF Claim
<1> HIDE DEF x, y
<1>3. x = y
  BY <1>1, <1>2 DEF ReserveNames
<1> QED BY <1>2, <1>3

-----------------------------------------------------------------------------
(* The steps. After step n of a schema: what is registered holds, is named *)
(* as the schema claims, and has the types so far. Until its own methods   *)
(* come, a method is of the catalogue before or a standard one of a type.  *)
StandardsOf(sc, i) == {MethodName(sc.types[i].name, v) : v \in StandardMethods}

TypesThere(sc, n, a)     == \A i \in 1..Len(sc.types) : i <= n => sc.types[i].name \in DOMAIN a.objects
MethodsKnown(a0, sc, n, a) ==
  n <= 2 * Len(sc.types) =>
    \A nm \in DOMAIN a.methods :
      nm \in DOMAIN a0.methods \/ \E i \in 1..Len(sc.types) : Len(sc.types) + i <= n /\ nm \in StandardsOf(sc, i)

After(a0, sc, n, a) ==
  /\ a.status \in {"ok", "refused"}
  /\ a.status = "ok" => Holding(a) /\ Named(a0, a, Made(sc, n)) /\ TypesThere(sc, n, a) /\ MethodsKnown(a0, sc, n, a)

LEMMA TypeStep ==
  ASSUME NEW a0, NEW sc, Loadable(sc), ReserveNames(a0, sc), NEW n \in 1..Len(sc.types),
         NEW a, a.status = "ok", After(a0, sc, n - 1, a)
  PROVE  After(a0, sc, n, AddSchemaType(a, sc.types[n]))
<1> DEFINE t == sc.types[n]
           o == Object(t.fields, t.sort, t.dynamic)
           b == AddSchemaType(a, t)
           x == Claim("type", n, 0, t.name)
<1>1. CASE b = Refuse(a)
  BY <1>1 DEF After, Refuse, Ended, Loaded
<1>2. CASE b # Refuse(a)
  <2>1. b = AddObject(a, t.name, o) /\ SchemaFieldsHold(t.fields)
    BY <1>2 DEF AddSchemaType
  <2>2. Len(sc.types) \in Nat
    BY SchemaIs
  <2>3. x \in Claims(sc) /\ x.name = t.name /\ StepOf(sc, x) = n
    BY ClaimsAre DEF Claim, StepOf
  <2>4. x \notin Made(sc, n - 1) /\ Made(sc, n - 1) \subseteq Made(sc, n) /\ x \in Made(sc, n)
    <3>1. \A y \in Claims(sc) : StepOf(sc, y) <= n - 1 => StepOf(sc, y) <= n
      BY <2>2, StepsAre
    <3> HIDE DEF x
    <3> QED BY <2>2, <2>3, <3>1 DEF Made
  <2>5. Unused(a, t.name)
    <3>1. Made(sc, n - 1) \in SUBSET Claims(sc) /\ Named(a0, a, Made(sc, n - 1))
      BY DEF Made, After
    <3> HIDE DEF x
    <3> QED BY <2>3, <2>4, <3>1, ClaimsUnused
  <2>6. IsList(o.fields) /\ SchemaFieldsHold(o.fields)
    <3>1. t \in Range(sc.types)
      BY SchemaIs
    <3>2. IsList(t.fields)
      BY <3>1, LoadableIs
    <3>3. o.fields = t.fields
      BY DEF Object
    <3> QED BY <2>1, <3>2, <3>3
  <2> HIDE DEF o, x
  <2>7. /\ Holding(b) /\ b.status = "ok" /\ b.methods = a.methods
        /\ DOMAIN b.objects = DOMAIN a.objects \cup {t.name}
    BY <2>1, <2>5, <2>6, ObjectAdded DEF After
  <2> HIDE DEF b
  <2>8. Named(a0, b, Made(sc, n))
    BY <2>3, <2>4, <2>7 DEF After, Named
  <2>9. TypesThere(sc, n, b)
    BY <2>2, <2>7 DEF After, TypesThere
  <2>10. MethodsKnown(a0, sc, n, b)
    BY <2>2, <2>7 DEF After, MethodsKnown
  <2> QED BY <2>7, <2>8, <2>9, <2>10 DEF After, b
<1> QED BY <1>1, <1>2

(* As the standard methods of type j are registered, those of done so far. *)
MadeWith(sc, j, done) ==
  Made(sc, Len(sc.types) + j - 1)
  \cup {x \in Claims(sc) : /\ StepOf(sc, x) = Len(sc.types) + j
                           /\ x.k \in DOMAIN sc.types[j].methods /\ sc.types[j].methods[x.k] \in done}

During(a0, sc, j, done, a) ==
  /\ a.status = "ok" /\ Holding(a) /\ Named(a0, a, MadeWith(sc, j, done))
  /\ TypesThere(sc, Len(sc.types) + j, a)
  /\ \A nm \in DOMAIN a.methods :
       \/ nm \in DOMAIN a0.methods
       \/ \E i \in 1..Len(sc.types) : i < j /\ nm \in StandardsOf(sc, i)
       \/ \E v \in done : nm = MethodName(sc.types[j].name, v)

LEMMA VerbStep ==
  ASSUME NEW a0, NEW sc, Loadable(sc), ReserveNames(a0, sc), NEW j \in 1..Len(sc.types),
         NEW done \in SUBSET StandardMethods, NEW a, During(a0, sc, j, done, a),
         NEW v \in StandardMethods \ done
  PROVE  During(a0, sc, j, done \cup {v}, AddStandard(a, sc.types[j].name, Range(sc.types[j].methods), v, sc.capability))
<1> DEFINE t == sc.types[j]
           name == MethodName(t.name, v)
           prefix == StandardPrefix(t.name, v)
           m == Standard(t.name, v, sc.capability)
           b == AddStandard(a, t.name, Range(t.methods), v, sc.capability)
           S == Len(sc.types) + j
<1>0. /\ Len(sc.types) \in Nat /\ t \in Range(sc.types) /\ S \in Nat
      /\ Len(t.methods) \in Nat /\ DOMAIN t.methods = 1..Len(t.methods)
  BY SchemaIs
<1>a. MadeWith(sc, j, done) \subseteq MadeWith(sc, j, done \cup {v})
  BY DEF MadeWith
<1>1. CASE v \notin Range(t.methods)
  <2>1. b = a
    BY <1>1 DEF AddStandard
  <2> HIDE DEF b
  <2> QED BY <1>a, <2>1 DEF During, Named, b
<1>2. CASE v \in Range(t.methods)
  <2>1. PICK k \in 1..Len(t.methods) : t.methods[k] = v
    BY <1>0, <1>2 DEF Range
  <2>2. b = AddMethod(a, name, prefix, m)
    BY <1>2 DEF AddStandard, During
  <2>3. ClaimedBy(j, k, prefix) \subseteq Claims(sc)
    BY <1>0, <2>1, ClaimsAre
  <2>4. ASSUME NEW x \in ClaimedBy(j, k, prefix)
        PROVE  /\ x \in Claims(sc) /\ x \notin MadeWith(sc, j, done) /\ x \in MadeWith(sc, j, done \cup {v})
               /\ Unused(a, x.name)
    <3>1. x.k = k /\ x.i = j /\ x.kind # "type" /\ x \in Claims(sc)
      BY <2>3 DEF ClaimedBy, Claim
    <3>2. StepOf(sc, x) = S
      BY <1>0, <3>1 DEF StepOf
    <3>3. x \notin MadeWith(sc, j, done)
      BY <1>0, <2>1, <3>1, <3>2 DEF MadeWith, Made
    <3>4. x \in MadeWith(sc, j, done \cup {v})
      BY <1>0, <2>1, <3>1, <3>2 DEF MadeWith
    <3>5. MadeWith(sc, j, done) \in SUBSET Claims(sc)
      BY DEF MadeWith, Made
    <3> QED BY <3>1, <3>3, <3>4, <3>5, ClaimsUnused DEF During
  <2>5. Unused(a, ArgumentsName(prefix)) /\ Unused(a, ResponseName(prefix))
    <3>1. \A x \in ClaimedBy(j, k, prefix) : Unused(a, x.name)
      BY <2>4
    <3>2. /\ Claim("arguments", j, k, ArgumentsName(prefix)).name = ArgumentsName(prefix)
          /\ Claim("response", j, k, ResponseName(prefix)).name = ResponseName(prefix)
      BY DEF Claim
    <3> HIDE DEF prefix
    <3> QED BY <3>1, <3>2 DEF ClaimedBy
  <2>6. Written(ArgumentsName(prefix)) # Written(ResponseName(prefix))
    BY <2>3, TwoNames
  <2>7. name \notin DOMAIN a.methods
    <3>1. name \notin DOMAIN a0.methods
      BY <1>0, <1>2 DEF ReserveNames, MethodsNamed
    <3>2. \A i \in 1..Len(sc.types) : sc.types[i].name \in TypesNamed
      BY SchemaIs, NamesAre
    <3>3. ASSUME NEW i \in 1..Len(sc.types), i < j PROVE name \notin StandardsOf(sc, i)
      <4>1. sc.types[i].name # t.name
        BY <1>0, <3>3, TypesApart
      <4> QED BY <3>2, <4>1, NamesAssumption DEF StandardsOf, VerbsNamed
    <3>4. ASSUME NEW w \in done PROVE name # MethodName(t.name, w)
      BY <3>2, NamesAssumption DEF VerbsNamed
    <3> QED BY <3>1, <3>3, <3>4 DEF During
  <2>8. IsList(m.args) /\ IsList(m.response) /\ SchemaFieldsHold(m.args) /\ SchemaFieldsHold(m.response)
    BY <1>0, LoadableIs
  <2>9. ShapeHolds(a, name, m)
    <3>1. t.name \in DOMAIN a.objects
      BY <1>0 DEF During, TypesThere
    <3>2. CASE v = "get"
      BY <2>8, <3>1, <3>2, GetHolds
    <3>3. CASE v # "get"
      BY <3>3, OthersHold
    <3> QED BY <3>2, <3>3
  <2> HIDE DEF name, prefix, m
  <2>10. /\ Holding(b) /\ b.status = "ok"
         /\ DOMAIN b.objects = DOMAIN a.objects \cup {ArgumentsName(prefix), ResponseName(prefix)}
         /\ DOMAIN b.methods = DOMAIN a.methods \cup {name}
    BY <2>2, <2>5, <2>6, <2>7, <2>8, <2>9, MethodAdded DEF During
  <2> HIDE DEF b
  <2>11. Named(a0, b, MadeWith(sc, j, done \cup {v}))
    <3>1. \A nm \in {ArgumentsName(prefix), ResponseName(prefix)} : \E x \in MadeWith(sc, j, done \cup {v}) : nm = x.name
      <4>1. \A x \in ClaimedBy(j, k, prefix) : x \in MadeWith(sc, j, done \cup {v})
        BY <2>4
      <4>2. /\ Claim("arguments", j, k, ArgumentsName(prefix)).name = ArgumentsName(prefix)
            /\ Claim("response", j, k, ResponseName(prefix)).name = ResponseName(prefix)
        BY DEF Claim
      <4> QED BY <4>1, <4>2 DEF ClaimedBy
    <3> QED BY <1>a, <2>10, <3>1 DEF During, Named
  <2>12. TypesThere(sc, S, b)
    BY <2>10 DEF During, TypesThere
  <2>13. \A nm \in DOMAIN b.methods :
           \/ nm \in DOMAIN a0.methods
           \/ \E i \in 1..Len(sc.types) : i < j /\ nm \in StandardsOf(sc, i)
           \/ \E w \in done \cup {v} : nm = MethodName(t.name, w)
    BY <2>10 DEF During, name
  <2> QED BY <2>10, <2>11, <2>12, <2>13 DEF During, b
<1> QED BY <1>1, <1>2

LEMMA StandardStep ==
  ASSUME NEW a0, NEW sc, Loadable(sc), ReserveNames(a0, sc), NEW j \in 1..Len(sc.types),
         NEW a, a.status = "ok", After(a0, sc, Len(sc.types) + j - 1, a)
  PROVE  After(a0, sc, Len(sc.types) + j, AddSchemaMethods(a, sc.types[j], sc.capability))
<1> DEFINE t == sc.types[j]
           n == Len(sc.types) + j
           verbs == Range(t.methods)
           Add(x, v) == AddStandard(x, t.name, verbs, v, sc.capability)
           b == RegisterStandard(a, t.name, verbs, sc.capability)
           c == AddSchemaMethods(a, t, sc.capability)
<1>0. Len(sc.types) \in Nat /\ n \in Nat /\ t \in Range(sc.types)
  BY SchemaIs
<1>1. CASE c = Refuse(a)
  <2>1. c.status = "refused"
    BY <1>1 DEF Refuse, Ended, Loaded
  <2> HIDE DEF c, n
  <2>2. After(a0, sc, n, c)
    BY <2>1 DEF After
  <2> QED BY <2>2 DEF c, n
<1>2. CASE c = a
  <2>1. Made(sc, n - 1) \subseteq Made(sc, n)
    BY <1>0, StepsAre DEF Made
  <2>2. Named(a0, a, Made(sc, n))
    BY <2>1 DEF After, Named
  <2>3. TypesThere(sc, n, a)
    BY <1>0 DEF After, TypesThere
  <2>4. MethodsKnown(a0, sc, n, a)
    BY <1>0 DEF After, MethodsKnown
  <2> HIDE DEF c, n
  <2>5. After(a0, sc, n, c)
    BY <1>2, <2>2, <2>3, <2>4 DEF After
  <2> QED BY <2>5 DEF c, n
<1>3. CASE c # Refuse(a) /\ c # a
  <2>1. c = IF b.status # "ok" THEN b ELSE AddArguments(b, t.name, t.args)
    BY <1>3 DEF AddSchemaMethods
  <2>2. During(a0, sc, j, {}, a)
    <3>1. MadeWith(sc, j, {}) = Made(sc, n - 1)
      BY DEF MadeWith
    <3>2. TypesThere(sc, n, a)
      BY <1>0 DEF After, TypesThere
    <3>3. \A nm \in DOMAIN a.methods :
            nm \in DOMAIN a0.methods \/ \E i \in 1..Len(sc.types) : i < j /\ nm \in StandardsOf(sc, i)
      BY <1>0 DEF After, MethodsKnown
    <3> QED BY <3>1, <3>2, <3>3 DEF After, During
  <2>3. During(a0, sc, j, StandardMethods, b)
    <3> DEFINE b1 == Add(a, "get")
               b2 == Add(b1, "changes")
               b3 == Add(b2, "set")
               b4 == Add(b3, "copy")
               b5 == Add(b4, "query")
               b6 == Add(b5, "queryChanges")
    <3>0. b = b6
      BY DEF RegisterStandard
    <3>a. \A x, v, done : done \subseteq StandardMethods /\ v \in StandardMethods \ done /\ During(a0, sc, j, done, x)
                            => During(a0, sc, j, done \cup {v}, Add(x, v))
      BY VerbStep
    <3> HIDE DEF Add, b
    <3>1. During(a0, sc, j, {"get"}, b1)
      <4>1. {} \subseteq StandardMethods /\ "get" \in StandardMethods \ {} /\ {} \cup {"get"} = {"get"}
        BY DEF StandardMethods
      <4>2. During(a0, sc, j, {} \cup {"get"}, b1)
        BY <2>2, <3>a, <4>1
      <4> QED BY <4>1, <4>2
    <3> HIDE DEF b1
    <3>2. During(a0, sc, j, {"get", "changes"}, b2)
      <4>1. During(a0, sc, j, {"get"} \cup {"changes"}, b2)
        BY <3>1, <3>a DEF StandardMethods
      <4>2. {"get"} \cup {"changes"} = {"get", "changes"}
        OBVIOUS
      <4> QED BY <4>1, <4>2
    <3> HIDE DEF b2
    <3>3. During(a0, sc, j, {"get", "changes", "set"}, b3)
      <4>1. During(a0, sc, j, {"get", "changes"} \cup {"set"}, b3)
        BY <3>2, <3>a DEF StandardMethods
      <4>2. {"get", "changes"} \cup {"set"} = {"get", "changes", "set"}
        OBVIOUS
      <4> QED BY <4>1, <4>2
    <3> HIDE DEF b3
    <3>4. During(a0, sc, j, {"get", "changes", "set", "copy"}, b4)
      <4>1. During(a0, sc, j, {"get", "changes", "set"} \cup {"copy"}, b4)
        BY <3>3, <3>a DEF StandardMethods
      <4>2. {"get", "changes", "set"} \cup {"copy"} = {"get", "changes", "set", "copy"}
        OBVIOUS
      <4> QED BY <4>1, <4>2
    <3> HIDE DEF b4
    <3>5. During(a0, sc, j, {"get", "changes", "set", "copy", "query"}, b5)
      <4>1. During(a0, sc, j, {"get", "changes", "set", "copy"} \cup {"query"}, b5)
        BY <3>4, <3>a DEF StandardMethods
      <4>2. {"get", "changes", "set", "copy"} \cup {"query"} = {"get", "changes", "set", "copy", "query"}
        OBVIOUS
      <4> QED BY <4>1, <4>2
    <3> HIDE DEF b5
    <3>6. During(a0, sc, j, StandardMethods, b6)
      <4>1. During(a0, sc, j, {"get", "changes", "set", "copy", "query"} \cup {"queryChanges"}, b6)
        BY <3>5, <3>a DEF StandardMethods
      <4>2. {"get", "changes", "set", "copy", "query"} \cup {"queryChanges"} = StandardMethods
        BY DEF StandardMethods
      <4> QED BY <4>1, <4>2
    <3> QED BY <3>0, <3>6
  <2>4. \A v \in DOMAIN t.args : IsList(t.args[v])
    BY <1>0, LoadableIs
  <2> HIDE DEF b, c
  <2>5. c = AddArguments(b, t.name, t.args) /\ b.status = "ok" /\ Holding(b)
    BY <2>1, <2>3 DEF During
  <2>6. /\ c.status \in {"ok", "refused"}
        /\ c.status = "ok" => Holding(c) /\ DOMAIN c.objects = DOMAIN b.objects /\ c.methods = b.methods
    BY <2>4, <2>5, ArgumentsAdded
  <2>7. ASSUME c.status = "ok"
        PROVE  Named(a0, c, Made(sc, n)) /\ TypesThere(sc, n, c) /\ MethodsKnown(a0, sc, n, c)
    <3>1. MadeWith(sc, j, StandardMethods) \subseteq Made(sc, n)
      BY <1>0, StepsAre DEF Made, MadeWith
    <3>2. Named(a0, c, Made(sc, n))
      BY <2>3, <2>6, <2>7, <3>1 DEF During, Named
    <3>3. TypesThere(sc, n, c)
      BY <2>3, <2>6, <2>7 DEF During, TypesThere
    <3>4. MethodsKnown(a0, sc, n, c)
      <4> SUFFICES ASSUME NEW nm \in DOMAIN b.methods, nm \notin DOMAIN a0.methods
                   PROVE  \E i \in 1..Len(sc.types) : Len(sc.types) + i <= n /\ nm \in StandardsOf(sc, i)
        BY <2>6, <2>7 DEF MethodsKnown
      <4>1. CASE \E i \in 1..Len(sc.types) : i < j /\ nm \in StandardsOf(sc, i)
        BY <1>0, <4>1
      <4>2. CASE \E v \in StandardMethods : nm = MethodName(t.name, v)
        <5>1. nm \in StandardsOf(sc, j)
          BY <4>2 DEF StandardsOf
        <5> QED BY <1>0, <5>1
      <4> QED BY <2>3, <4>1, <4>2 DEF During
    <3> QED BY <3>2, <3>3, <3>4
  <2> QED BY <2>6, <2>7 DEF After, c
<1> QED BY <1>1, <1>2, <1>3

LEMMA OwnStep ==
  ASSUME NEW a0, NEW sc, Loadable(sc), ReserveNames(a0, sc), NEW i \in 1..Len(sc.methods),
         NEW a, a.status = "ok", After(a0, sc, 2 * Len(sc.types) + i - 1, a)
  PROVE  After(a0, sc, 2 * Len(sc.types) + i, AddSchemaMethod(a, sc.methods[i]))
<1> DEFINE m == sc.methods[i]
           n == 2 * Len(sc.types) + i
           name == MethodName(m.type, m.verb)
           prefix == TypeNamePrefix(m.type, m.verb)
           b == AddSchemaMethod(a, m)
<1>0. Len(sc.types) \in Nat /\ n \in Nat /\ m \in Range(sc.methods)
  BY SchemaIs
<1>a. Named(a0, a, Made(sc, n - 1))
  <2> HIDE DEF n
  <2>1. After(a0, sc, n - 1, a)
    BY DEF n
  <2> QED BY <2>1 DEF After
<1>1. CASE b = Refuse(a)
  <2>1. b.status = "refused"
    BY <1>1 DEF Refuse, Ended, Loaded
  <2> HIDE DEF b, n
  <2>2. After(a0, sc, n, b)
    BY <2>1 DEF After
  <2> QED BY <2>2 DEF b, n
<1>2. CASE b # Refuse(a)
  <2>1. /\ b = AddMethod(a, name, prefix, m) /\ name \notin DOMAIN a.methods
        /\ SchemaFieldsHold(m.args) /\ SchemaFieldsHold(m.response) /\ SchemaMethodHolds(a, m)
    BY <1>2 DEF AddSchemaMethod
  <2>2. ClaimedBy(i, 0, prefix) \subseteq Claims(sc)
    BY ClaimsAre
  <2>3. ASSUME NEW x \in ClaimedBy(i, 0, prefix)
        PROVE  x \in Made(sc, n) /\ x \notin Made(sc, n - 1) /\ Unused(a, x.name)
    <3>1. x.k = 0 /\ x.i = i /\ x.kind # "type" /\ x \in Claims(sc)
      BY <2>2 DEF ClaimedBy, Claim
    <3>2. StepOf(sc, x) = n
      <4>1. StepOf(sc, x) = 2 * Len(sc.types) + x.i
        BY <3>1, Zenon DEF StepOf
      <4> QED BY <3>1, <4>1, Zenon
    <3>3. x \notin Made(sc, n - 1) /\ x \in Made(sc, n)
      BY <1>0, <3>1, <3>2 DEF Made
    <3>4. Made(sc, n - 1) \in SUBSET Claims(sc) /\ Named(a0, a, Made(sc, n - 1))
      <4>1. Named(a0, a, Made(sc, n - 1))
        BY <1>a
      <4>2. Made(sc, n - 1) \subseteq Claims(sc)
        BY Zenon DEF Made
      <4> QED BY <4>1, <4>2, Zenon
    <3> QED BY <3>1, <3>3, <3>4, ClaimsUnused
  <2>4. /\ Claim("arguments", i, 0, ArgumentsName(prefix)).name = ArgumentsName(prefix)
        /\ Claim("response", i, 0, ResponseName(prefix)).name = ResponseName(prefix)
    BY DEF Claim
  <2>5. Unused(a, ArgumentsName(prefix)) /\ Unused(a, ResponseName(prefix))
    <3>1. \A x \in ClaimedBy(i, 0, prefix) : Unused(a, x.name)
      BY <2>3
    <3> HIDE DEF prefix
    <3> QED BY <2>4, <3>1 DEF ClaimedBy
  <2>6. Written(ArgumentsName(prefix)) # Written(ResponseName(prefix))
    BY <2>2, TwoNames
  <2>7. IsList(m.args) /\ IsList(m.response)
    BY <1>0, LoadableIs
  <2>8. ShapeHolds(a, name, m)
    BY <2>1 DEF ShapeHolds, SchemaMethodHolds
  <2> HIDE DEF name, prefix, m
  <2>9. /\ Holding(b) /\ b.status = "ok"
        /\ DOMAIN b.objects = DOMAIN a.objects \cup {ArgumentsName(prefix), ResponseName(prefix)}
    BY <2>1, <2>5, <2>6, <2>7, <2>8, MethodAdded DEF After
  <2> HIDE DEF b
  <2>10. Named(a0, b, Made(sc, n))
    <3>1. Made(sc, n - 1) \subseteq Made(sc, n)
      BY <1>0, StepsAre DEF Made
    <3>2. \A nm \in {ArgumentsName(prefix), ResponseName(prefix)} : \E x \in Made(sc, n) : nm = x.name
      <4>1. \A x \in ClaimedBy(i, 0, prefix) : x \in Made(sc, n)
        BY <2>3
      <4> HIDE DEF n
      <4> QED BY <2>4, <4>1 DEF ClaimedBy
    <3> HIDE DEF n
    <3>3. Named(a0, a, Made(sc, n - 1))
      BY DEF After, n
    <3> QED BY <2>9, <3>1, <3>2, <3>3 DEF Named
  <2>11. TypesThere(sc, n, b)
    BY <1>0, <2>9 DEF After, TypesThere
  <2>12. MethodsKnown(a0, sc, n, b)
    BY <1>0 DEF MethodsKnown
  <2> HIDE DEF n
  <2>13. After(a0, sc, n, b)
    BY <2>9, <2>10, <2>11, <2>12 DEF After
  <2> QED BY <2>13 DEF b, n, m
<1> QED BY <1>1, <1>2

-----------------------------------------------------------------------------
(* Loading a schema, step by step. What the loop has come to after each    *)
(* step is a function, and it is the one Extend takes the last value of.   *)
LEMMA LeastIn == ASSUME NEW S, S \subseteq Nat, S # {} PROVE \E n \in S : \A m \in S : n <= m
BY MinIn

Loading(a, sc, k, upTo) == upTo = [n \in 0..k |-> IF n = 0 THEN a ELSE ExtendStep(upTo[n - 1], sc, n)]

LEMMA LoadingIs == ASSUME NEW a, NEW sc, NEW k \in Nat PROVE \E upTo : Loading(a, sc, k, upTo)
<1> DEFINE Stuck == {n \in Nat : ~ \E upTo : Loading(a, sc, n, upTo)}
<1>1. Stuck \subseteq Nat
  OBVIOUS
<1>2. SUFFICES ASSUME Stuck # {} PROVE FALSE
  OBVIOUS
<1> HIDE DEF Stuck
<1>3. PICK n \in Stuck : \A m \in Stuck : n <= m
  BY <1>1, <1>2, LeastIn
<1>4. n \in Nat /\ ~ \E upTo : Loading(a, sc, n, upTo)
  BY DEF Stuck
<1>5. CASE n = 0
  <2> DEFINE upTo == [m \in 0..0 |-> a]
  <2>1. upTo = [m \in 0..0 |-> IF m = 0 THEN a ELSE ExtendStep(upTo[m - 1], sc, m)]
    OBVIOUS
  <2> QED BY <1>4, <1>5, <2>1 DEF Loading
<1>6. CASE n # 0
  <2>1. n - 1 \in Nat /\ n - 1 \notin Stuck
    BY <1>3, <1>4, <1>6
  <2>2. PICK few : Loading(a, sc, n - 1, few)
    BY <2>1 DEF Stuck
  <2>3. /\ \A m \in 0..(n - 1) : few[m] = IF m = 0 THEN a ELSE ExtendStep(few[m - 1], sc, m)
    BY <2>2 DEF Loading
  <2> DEFINE upTo == [m \in 0..n |-> IF m = n THEN ExtendStep(few[n - 1], sc, n) ELSE few[m]]
  <2>4. \A m \in 0..n : upTo[m] = IF m = 0 THEN a ELSE ExtendStep(upTo[m - 1], sc, m)
    <3> TAKE m \in 0..n
    <3>1. CASE m = n
      <4>1. upTo[m - 1] = few[n - 1]
        BY <1>4, <1>6, <3>1
      <4> QED BY <1>6, <3>1, <4>1
    <3>2. CASE m = 0
      BY <1>4, <1>6, <2>3, <3>2
    <3>3. CASE m # n /\ m # 0
      <4>1. m \in 0..(n - 1) /\ m - 1 \in 0..n /\ m - 1 # n
        BY <1>4, <3>3
      <4>2. upTo[m] = few[m] /\ upTo[m - 1] = few[m - 1]
        BY <3>3, <4>1
      <4> QED BY <2>3, <3>3, <4>1, <4>2
    <3> QED BY <3>1, <3>2, <3>3
  <2>5. upTo = [m \in 0..n |-> upTo[m]]
    OBVIOUS
  <2> HIDE DEF upTo
  <2>6. upTo = [m \in 0..n |-> IF m = 0 THEN a ELSE ExtendStep(upTo[m - 1], sc, m)]
    BY <2>4, <2>5
  <2>7. Loading(a, sc, n, upTo)
    BY <2>6 DEF Loading
  <2> QED BY <1>4, <2>7
<1> QED BY <1>5, <1>6

(* The steps of a schema are as many as a number says.                      *)
LEMMA StepsIs ==
  ASSUME NEW sc, Loadable(sc)
  PROVE  /\ Len(sc.types) \in Nat /\ Len(sc.methods) \in Nat
         /\ Steps(sc) = 2 * Len(sc.types) + Len(sc.methods)
         /\ Steps(sc) \in Nat
<1> DEFINE T == Len(sc.types)
           M == Len(sc.methods)
<1>1. T \in Nat /\ M \in Nat
  BY SchemaIs
<1>2. Steps(sc) = 2 * T + M
  BY DEF Steps
<1> HIDE DEF T, M
<1>3. 2 * T + M \in Nat
  BY <1>1
<1> USE DEF T, M
<1> QED BY ONLY <1>1, <1>2, <1>3, Zenon

LEMMA ExtendIs ==
  ASSUME NEW a, NEW sc, Loadable(sc), ReserveNames(a, sc), sc.capability \notin Malformed
  PROVE  \E upTo : /\ Loading(a, sc, Steps(sc), upTo)
                   /\ Extend(a, sc) = WithReferencesChecked(upTo[Steps(sc)])
<1> DEFINE upTo == CHOOSE f : f = [n \in 0..Steps(sc) |-> IF n = 0 THEN a ELSE ExtendStep(f[n - 1], sc, n)]
<1>1. Steps(sc) \in Nat
  BY StepsIs
<1>2. \E f : f = [n \in 0..Steps(sc) |-> IF n = 0 THEN a ELSE ExtendStep(f[n - 1], sc, n)]
  <2>1. \E f : Loading(a, sc, Steps(sc), f)
    BY <1>1, LoadingIs
  <2> QED BY <2>1, Zenon DEF Loading
<1>3. Loading(a, sc, Steps(sc), upTo)
  BY <1>2 DEF Loading
<1>4. Extend(a, sc) = WithReferencesChecked(upTo[Steps(sc)])
  BY DEF Extend
<1> QED BY <1>3, <1>4

(* Every step leaves what holds after it.                                  *)
LEMMA AfterStep ==
  ASSUME NEW a0, NEW sc, Loadable(sc), ReserveNames(a0, sc), NEW n \in 1..Steps(sc),
         NEW a, After(a0, sc, n - 1, a)
  PROVE  After(a0, sc, n, ExtendStep(a, sc, n))
<1> DEFINE types == Len(sc.types)
           b == ExtendStep(a, sc, n)
           methods == Len(sc.methods)
<1>0. types \in Nat /\ methods \in Nat /\ n \in Nat /\ 0 < n /\ n <= 2 * types + methods
  <2>1. types \in Nat /\ methods \in Nat /\ Steps(sc) = 2 * types + methods /\ Steps(sc) \in Nat
    BY StepsIs
  <2> HIDE DEF types, methods
  <2> QED BY <2>1
<1>1. CASE a.status # "ok"
  <2>1. b = a
    BY <1>1 DEF ExtendStep
  <2> QED BY <1>1, <2>1 DEF After
<1>2. CASE a.status = "ok" /\ n <= types
  <2>1. b = AddSchemaType(a, sc.types[n]) /\ n \in 1..types
    BY <1>0, <1>2 DEF ExtendStep
  <2> QED BY <1>2, <2>1, TypeStep
<1>3. CASE a.status = "ok" /\ n > types /\ n <= 2 * types
  <2> DEFINE j == n - types
  <2>1. b = AddSchemaMethods(a, sc.types[j], sc.capability) /\ j \in 1..types /\ types + j = n
    BY <1>0, <1>3 DEF ExtendStep
  <2> HIDE DEF j, b
  <2>2. After(a0, sc, types + j - 1, a)
    BY <2>1
  <2>3. After(a0, sc, types + j, b)
    BY <1>3, <2>1, <2>2, StandardStep
  <2> QED BY <2>1, <2>3 DEF b
<1>4. CASE a.status = "ok" /\ n > 2 * types
  <2> DEFINE i == n - 2 * types
  <2>0. i \in 1..methods /\ 2 * types + i = n /\ ~(n <= types) /\ ~(n <= 2 * types)
    <3> HIDE DEF types, methods
    <3> QED BY <1>0, <1>4
  <2>1. b = AddSchemaMethod(a, sc.methods[i])
    BY <1>4, <2>0, Zenon DEF ExtendStep
  <2> HIDE DEF i, b
  <2>2. After(a0, sc, 2 * types + i - 1, a)
    BY <2>0
  <2>3. After(a0, sc, 2 * types + i, b)
    BY <1>4, <2>0, <2>1, <2>2, OwnStep
  <2> QED BY <2>0, <2>3 DEF b
<1> QED BY <1>0, <1>1, <1>2, <1>3, <1>4

LEMMA AfterAll ==
  ASSUME NEW a, a.status = "ok", Holding(a), NEW sc, Loadable(sc), ReserveNames(a, sc),
         NEW upTo, Loading(a, sc, Steps(sc), upTo)
  PROVE  After(a, sc, Steps(sc), upTo[Steps(sc)])
<1> DEFINE S == Steps(sc)
           Wrong == {n \in 0..S : ~After(a, sc, n, upTo[n])}
<1>0. S \in Nat
  BY StepsIs
<1>1. upTo[0] = a /\ \A n \in 1..S : upTo[n] = ExtendStep(upTo[n - 1], sc, n)
  <2> HIDE DEF S
  <2>1. upTo = [n \in 0..S |-> IF n = 0 THEN a ELSE ExtendStep(upTo[n - 1], sc, n)]
    BY DEF Loading, S
  <2> QED BY <1>0, <2>1
<1>2. After(a, sc, 0, a)
  <2>1. Len(sc.types) \in Nat
    BY SchemaIs
  <2>2. Named(a, a, Made(sc, 0)) /\ TypesThere(sc, 0, a) /\ MethodsKnown(a, sc, 0, a)
    BY <2>1 DEF Named, TypesThere, MethodsKnown
  <2> QED BY <2>2 DEF After
<1> SUFFICES ASSUME Wrong # {} PROVE FALSE
  BY <1>0
<1>3. Wrong \subseteq Nat
  BY <1>0
<1> HIDE DEF Wrong
<1>4. PICK n \in Wrong : \A m \in Wrong : n <= m
  BY <1>3, LeastIn
<1>5. n \in 0..S /\ ~After(a, sc, n, upTo[n])
  BY DEF Wrong
<1> HIDE DEF S
<1>6. n # 0
  BY <1>1, <1>2, <1>5
<1>7. n \in 1..S /\ n - 1 \in 0..S /\ ~(n <= n - 1)
  BY <1>0, <1>5, <1>6
<1>8. n - 1 \notin Wrong
  BY <1>4, <1>7
<1>9. After(a, sc, n - 1, upTo[n - 1])
  BY <1>7, <1>8 DEF Wrong
<1>10. After(a, sc, n, ExtendStep(upTo[n - 1], sc, n))
  BY <1>7, <1>9, AfterStep DEF S
<1> QED BY <1>1, <1>5, <1>7, <1>10

-----------------------------------------------------------------------------
(***************************************************************************)
(* What is proved.                                                         *)
(***************************************************************************)
(* Whatever a schema holds, loading it onto a catalogue that is sound ends *)
(* with a message, or with one that is sound; it never panics, as          *)
(* registering a name twice would (schema.go, Extend).                     *)
THEOREM ExtendKeepsSound ==
  ASSUME NEW a, a.status = "ok", Sound(a), AllLists(a), NEW sc, Loadable(sc)
  PROVE  /\ Extend(a, sc).status \in {"ok", "refused"}
         /\ Extend(a, sc).status = "ok" => Sound(Extend(a, sc)) /\ AllLists(Extend(a, sc))
<1> DEFINE b == Extend(a, sc)
<1>1. CASE sc.capability \in Malformed \/ ~ReserveNames(a, sc)
  <2>1. b = Refuse(a)
    BY <1>1 DEF Extend
  <2>2. b.status = "refused"
    BY <2>1 DEF Refuse, Ended, Loaded
  <2> HIDE DEF b
  <2>3. b.status \in {"ok", "refused"} /\ b.status # "ok"
    BY <2>2
  <2> QED BY <2>3 DEF b
<1>2. CASE sc.capability \notin Malformed /\ ReserveNames(a, sc)
  <2>1. PICK upTo : Loading(a, sc, Steps(sc), upTo) /\ b = WithReferencesChecked(upTo[Steps(sc)])
    BY <1>2, ExtendIs
  <2> DEFINE c == upTo[Steps(sc)]
  <2>2. After(a, sc, Steps(sc), c)
    <3>1. Holding(a)
      BY DEF Sound, Holding
    <3> QED BY <1>2, <2>1, <3>1, AfterAll
  <2> HIDE DEF b, c
  <2>3. b = WithReferencesChecked(c)
    BY <2>1 DEF c
  <2>4. c.status \in {"ok", "refused"} /\ (c.status = "ok" => Holding(c))
    BY <2>2 DEF After
  <2>5. CASE c.status = "ok" /\ CheckReferences(c)
    <3>1. b = c
      BY <2>3, <2>5 DEF WithReferencesChecked
    <3>2. TypesDefined(c)
      BY <2>5 DEF CheckReferences, TypesDefined
    <3>3. Sound(c) /\ AllLists(c)
      BY <2>4, <2>5, <3>2 DEF Holding, Sound
    <3> QED BY <2>4, <3>1, <3>3 DEF b
  <2>6. CASE c.status = "ok" /\ ~CheckReferences(c)
    <3>1. b = Refuse(c)
      BY <2>3, <2>6 DEF WithReferencesChecked
    <3>2. b.status = "refused"
      BY <3>1 DEF Refuse, Ended, Loaded
    <3> QED BY <3>2 DEF b
  <2>7. CASE c.status # "ok"
    <3>1. b = c
      BY <2>3, <2>7 DEF WithReferencesChecked
    <3> QED BY <2>4, <2>7, <3>1 DEF b
  <2> QED BY <2>5, <2>6, <2>7
<1> QED BY <1>1, <1>2

LEMMA SchemaLoadable == \A sc \in Schemas : Loadable(sc)
BY SchemasAssumption DEF Loadable

(* The inductive invariant: a catalogue that goes on is sound.             *)
CatalogueInv ==
  /\ catalogue.status \in {"ok", "refused"}
  /\ catalogue.status = "ok" => Sound(catalogue) /\ AllLists(catalogue)

LEMMA CatalogueInvInit == ProjectInit => CatalogueInv
BY StandardAssumption DEF ProjectInit, CatalogueInv, AllLists

LEMMA CatalogueInvStep == CatalogueInv /\ [ExtendCatalogue]_project => CatalogueInv'
<1> SUFFICES ASSUME CatalogueInv, [ExtendCatalogue]_project PROVE CatalogueInv'
  OBVIOUS
<1>1. CASE ExtendCatalogue
  <2>1. PICK sc \in Schemas : catalogue' = Extend(catalogue, sc)
    BY <1>1 DEF ExtendCatalogue
  <2>2. catalogue.status = "ok" /\ Sound(catalogue) /\ AllLists(catalogue)
    BY <1>1 DEF ExtendCatalogue, CatalogueInv
  <2>3. /\ catalogue'.status \in {"ok", "refused"}
        /\ catalogue'.status = "ok" => Sound(catalogue') /\ AllLists(catalogue')
    BY <2>1, <2>2, SchemaLoadable, ExtendKeepsSound
  <2> QED BY <2>3 DEF CatalogueInv, Sound, AllLists, NamesApart, MethodsApart, FieldsHold, TypesDefined,
         MethodHolds, ArgumentsOf, ResponseOf
<1>2. CASE UNCHANGED project
  BY <1>2 DEF project, CatalogueInv, Sound, AllLists, NamesApart, MethodsApart, FieldsHold, TypesDefined,
         MethodHolds, ArgumentsOf, ResponseOf
<1> QED BY <1>1, <1>2

(* Whatever schemas a project names, however many and in whichever order:  *)
(* what the parser and the generators rely on holds of the catalogue they  *)
(* come to, or the command ends with a message.                            *)
THEOREM CatalogueHolds == ProjectSpec => ExtensionHolds
<1>1. CatalogueInv' => (catalogue' # catalogue =>
                  /\ catalogue'.status # "panics"
                  /\ catalogue'.status = "ok" => Sound(catalogue'))
  BY DEF CatalogueInv, Sound, AllLists, NamesApart, MethodsApart, FieldsHold, TypesDefined,
         MethodHolds, ArgumentsOf, ResponseOf
<1> QED BY <1>1, CatalogueInvInit, CatalogueInvStep, PTL DEF ProjectSpec, ExtensionHolds

-----------------------------------------------------------------------------
(***************************************************************************)
(* The order of a schema's types. A type, and then its methods, read and   *)
(* write what is theirs: the object of its name, the objects and methods   *)
(* named after it, and the arguments of the methods it adds to. So what a  *)
(* type comes to does not depend on those before it.                       *)
(***************************************************************************)
SameObject(a, b, x) ==
  (x \in DOMAIN a.objects <=> x \in DOMAIN b.objects) /\ (x \in DOMAIN a.objects => a.objects[x] = b.objects[x])
SameMethod(a, b, n) ==
  (n \in DOMAIN a.methods <=> n \in DOMAIN b.methods) /\ (n \in DOMAIN a.methods => a.methods[n] = b.methods[n])

(* Two catalogues that agree on some names, and two that do on all others. *)
Agree(a, b, X, M) == (\A x \in X : SameObject(a, b, x)) /\ (\A n \in M : SameMethod(a, b, n))
Only(a, b, X, M)  == (\A x : x \notin X => SameObject(a, b, x)) /\ (\A n : n \notin M => SameMethod(a, b, n))

Match(a, b, X, M) == a.status = b.status /\ Agree(a, b, X, M)

LEMMA OnlyJoins == ASSUME NEW a, NEW b, NEW c, NEW X, NEW M, Only(a, b, X, M), Only(b, c, X, M)
                   PROVE  Only(a, c, X, M)
BY DEF Only, SameObject, SameMethod

LEMMA OnlyItself == \A a, X, M : Only(a, a, X, M)
BY DEF Only, SameObject, SameMethod

LEMMA ObjectOnly == ASSUME NEW a, Formed(a), NEW X, NEW M, NEW x \in X, NEW o
                    PROVE  Only(a, AddObject(a, x, o), X, M) /\ Formed(AddObject(a, x, o))
<1> DEFINE b == AddObject(a, x, o)
<1>1. CASE x \in DOMAIN a.objects
  <2>1. b = Loaded(a.objects, a.methods, "panics")
    BY <1>1 DEF AddObject, Ended
  <2>2. b.objects = a.objects /\ b.methods = a.methods /\ b.status = "panics"
    BY <2>1 DEF Loaded
  <2> HIDE DEF b
  <2>3. Only(a, b, X, M)
    BY <2>2 DEF Only, SameObject, SameMethod
  <2>4. a.objects = [y \in DOMAIN a.objects |-> a.objects[y]] /\ a.methods = [n \in DOMAIN a.methods |-> a.methods[n]]
    BY DEF Formed, Loaded
  <2>5. Formed(b)
    BY <2>1, <2>2, <2>4 DEF Formed
  <2> QED BY <2>3, <2>5 DEF b
<1>2. CASE x \notin DOMAIN a.objects
  <2>1. b = Loaded(Including(a.objects, x, o), a.methods, a.status)
    BY <1>2 DEF AddObject
  <2>2. b.objects = Including(a.objects, x, o) /\ b.methods = a.methods /\ b.status = a.status
    BY <2>1 DEF Loaded
  <2> HIDE DEF b
  <2>3. Only(a, b, X, M)
    BY <2>2 DEF Only, SameObject, SameMethod, Including
  <2>4. a.methods = [n \in DOMAIN a.methods |-> a.methods[n]]
    BY DEF Formed, Loaded
  <2>5. b.objects = [y \in DOMAIN b.objects |-> b.objects[y]]
    BY <2>2 DEF Including
  <2>6. Formed(b)
    BY <2>1, <2>2, <2>4, <2>5 DEF Formed
  <2> QED BY <2>3, <2>6 DEF b
<1> QED BY <1>1, <1>2

LEMMA ObjectAlike ==
  ASSUME NEW a, NEW b, NEW X, NEW M, Match(a, b, X, M), NEW x \in X, NEW o
  PROVE  Match(AddObject(a, x, o), AddObject(b, x, o), X, M)
<1>0. x \in DOMAIN a.objects <=> x \in DOMAIN b.objects
  BY DEF Match, Agree, SameObject
<1>1. CASE x \in DOMAIN a.objects
  <2>1. /\ AddObject(a, x, o) = Loaded(a.objects, a.methods, "panics")
        /\ AddObject(b, x, o) = Loaded(b.objects, b.methods, "panics")
    BY <1>0, <1>1 DEF AddObject, Ended
  <2> QED BY <2>1 DEF Match, Agree, SameObject, SameMethod, Loaded
<1>2. CASE x \notin DOMAIN a.objects
  <2>1. /\ AddObject(a, x, o) = Loaded(Including(a.objects, x, o), a.methods, a.status)
        /\ AddObject(b, x, o) = Loaded(Including(b.objects, x, o), b.methods, b.status)
    BY <1>0, <1>2 DEF AddObject
  <2> QED BY <2>1 DEF Match, Agree, SameObject, SameMethod, Loaded, Including
<1> QED BY <1>1, <1>2

LEMMA MethodOnly ==
  ASSUME NEW a, Formed(a), NEW X, NEW M, NEW n \in M, NEW prefix,
         {ArgumentsName(prefix), ResponseName(prefix)} \subseteq X, NEW m
  PROVE  Only(a, AddMethod(a, n, prefix, m), X, M) /\ Formed(AddMethod(a, n, prefix, m))
<1> DEFINE c == AddObject(a, ArgumentsName(prefix), Plain(m.args))
           d == AddObject(c, ResponseName(prefix), Plain(m.response))
           e == [shape |-> m, prefix |-> prefix]
           b == AddMethod(a, n, prefix, m)
<1>1. Only(a, c, X, M) /\ Formed(c)
  BY ObjectOnly
<1> HIDE DEF c
<1>2. Only(c, d, X, M) /\ Formed(d)
  BY <1>1, ObjectOnly
<1>4. b = IF d.status # "ok" \/ n \in DOMAIN a.methods THEN Ended(d, "panics")
          ELSE Loaded(d.objects, Including(d.methods, n, e), d.status)
  BY DEF AddMethod, c
<1> HIDE DEF b, d, e
<1>5. Only(d, b, X, M)
  <2>1. CASE b = Loaded(d.objects, d.methods, "panics")
    BY <2>1 DEF Only, SameObject, SameMethod, Loaded
  <2>2. CASE b = Loaded(d.objects, Including(d.methods, n, e), d.status)
    BY <2>2 DEF Only, SameObject, SameMethod, Loaded, Including
  <2> QED BY <1>4, <2>1, <2>2 DEF Ended
<1>6. Formed(b)
  <2>1. d.objects = [y \in DOMAIN d.objects |-> d.objects[y]] /\ d.methods = [y \in DOMAIN d.methods |-> d.methods[y]]
    BY <1>2 DEF Formed, Loaded
  <2>2. CASE b = Loaded(d.objects, d.methods, "panics")
    <3>1. b.objects = d.objects /\ b.methods = d.methods /\ b.status = "panics"
      BY <2>2 DEF Loaded
    <3> QED BY <2>1, <2>2, <3>1 DEF Formed
  <2>3. CASE b = Loaded(d.objects, Including(d.methods, n, e), d.status)
    <3>1. b.objects = d.objects /\ b.methods = Including(d.methods, n, e) /\ b.status = d.status
      BY <2>3 DEF Loaded
    <3>2. b.methods = [y \in DOMAIN b.methods |-> b.methods[y]]
      BY <3>1 DEF Including
    <3> QED BY <2>1, <2>3, <3>1, <3>2 DEF Formed
  <2> QED BY <1>4, <2>2, <2>3 DEF Ended
<1>7. Only(a, b, X, M)
  BY <1>1, <1>2, <1>5, OnlyJoins
<1> QED BY <1>6, <1>7 DEF b

LEMMA MethodAlike ==
  ASSUME NEW a, NEW b, NEW X, NEW M, Match(a, b, X, M), NEW n \in M, NEW prefix,
         {ArgumentsName(prefix), ResponseName(prefix)} \subseteq X, NEW m
  PROVE  Match(AddMethod(a, n, prefix, m), AddMethod(b, n, prefix, m), X, M)
<1> DEFINE args == Plain(m.args)
           response == Plain(m.response)
           c == AddObject(AddObject(a, ArgumentsName(prefix), args), ResponseName(prefix), response)
           d == AddObject(AddObject(b, ArgumentsName(prefix), args), ResponseName(prefix), response)
           e == [shape |-> m, prefix |-> prefix]
           a2 == AddMethod(a, n, prefix, m)
           b2 == AddMethod(b, n, prefix, m)
<1>1. Match(c, d, X, M)
  <2> HIDE DEF args, response
  <2>1. Match(AddObject(a, ArgumentsName(prefix), args), AddObject(b, ArgumentsName(prefix), args), X, M)
    BY ObjectAlike
  <2> QED BY <2>1, ObjectAlike
<1>2. c.status = d.status /\ (n \in DOMAIN a.methods <=> n \in DOMAIN b.methods)
  BY <1>1 DEF Match, Agree, SameMethod
<1>3. /\ a2 = IF c.status # "ok" \/ n \in DOMAIN a.methods THEN Ended(c, "panics")
              ELSE Loaded(c.objects, Including(c.methods, n, e), c.status)
      /\ b2 = IF d.status # "ok" \/ n \in DOMAIN b.methods THEN Ended(d, "panics")
              ELSE Loaded(d.objects, Including(d.methods, n, e), d.status)
  BY DEF AddMethod
<1> HIDE DEF a2, b2, c, d, e
<1>4. CASE c.status # "ok" \/ n \in DOMAIN a.methods
  <2>1. a2 = Loaded(c.objects, c.methods, "panics") /\ b2 = Loaded(d.objects, d.methods, "panics")
    BY <1>2, <1>3, <1>4 DEF Ended
  <2> QED BY <1>1, <2>1 DEF Match, Agree, SameObject, SameMethod, Loaded, a2, b2
<1>5. CASE ~(c.status # "ok" \/ n \in DOMAIN a.methods)
  <2>1. /\ a2 = Loaded(c.objects, Including(c.methods, n, e), c.status)
        /\ b2 = Loaded(d.objects, Including(d.methods, n, e), d.status)
    BY <1>2, <1>3, <1>5
  <2> QED BY <1>1, <2>1 DEF Match, Agree, SameObject, SameMethod, Loaded, Including, a2, b2
<1> QED BY <1>4, <1>5

(* The arguments of the methods M of a catalogue are objects of it, in X.  *)
Within(a, X, M) ==
  \A n \in M : n \in DOMAIN a.methods => ArgumentsName(a.methods[n].prefix) \in X \cap DOMAIN a.objects

LEMMA MethodWithin ==
  ASSUME NEW a, NEW X, NEW M, Within(a, X, M), NEW n, NEW prefix, ArgumentsName(prefix) \in X, NEW m
  PROVE  Within(AddMethod(a, n, prefix, m), X, M)
<1> DEFINE args == Plain(m.args)
           response == Plain(m.response)
           c == AddObject(a, ArgumentsName(prefix), args)
           d == AddObject(c, ResponseName(prefix), response)
           e == [shape |-> m, prefix |-> prefix]
           b == AddMethod(a, n, prefix, m)
<1> HIDE DEF args, response
<1>1. \A f, x, o : LET g == AddObject(f, x, o) IN
        g.methods = f.methods /\ DOMAIN f.objects \cup {x} \subseteq DOMAIN g.objects
  BY DEF AddObject, Ended, Loaded, Including
<1>2. b = IF d.status # "ok" \/ n \in DOMAIN a.methods THEN Ended(d, "panics")
          ELSE Loaded(d.objects, Including(d.methods, n, e), d.status)
  BY DEF AddMethod, args, response
<1>3. d.methods = a.methods /\ DOMAIN a.objects \cup {ArgumentsName(prefix)} \subseteq DOMAIN d.objects
  BY <1>1
<1> HIDE DEF b, c, d
<1>4. b.objects = d.objects /\ \A k \in DOMAIN b.methods :
        (k \in DOMAIN a.methods /\ b.methods[k] = a.methods[k]) \/ b.methods[k].prefix = prefix
  BY <1>2, <1>3 DEF Ended, Loaded, Including, e
<1> QED BY <1>3, <1>4 DEF Within, b

(* What a type's methods are registered as.                                *)
OwnNames(t) ==
  UNION {{ArgumentsName(StandardPrefix(t.name, v)), ResponseName(StandardPrefix(t.name, v))} : v \in Range(t.methods)}
OwnMethods(t) == {MethodName(t.name, v) : v \in VerbsNamed}

LEMMA VerbOnly ==
  ASSUME NEW a, Formed(a), NEW t, NEW X, OwnNames(t) \subseteq X, NEW v \in StandardMethods, NEW capability
  PROVE  LET c == AddStandard(a, t.name, Range(t.methods), v, capability) IN
         /\ Only(a, c, X, OwnMethods(t)) /\ Formed(c)
         /\ Within(a, X, OwnMethods(t)) => Within(c, X, OwnMethods(t))
<1> DEFINE c == AddStandard(a, t.name, Range(t.methods), v, capability)
           n == MethodName(t.name, v)
           prefix == StandardPrefix(t.name, v)
           m == Standard(t.name, v, capability)
<1>1. CASE c = a
  <2> HIDE DEF c
  <2> QED BY <1>1, OnlyItself DEF c
<1>2. CASE c # a
  <2>1. c = AddMethod(a, n, prefix, m) /\ v \in Range(t.methods)
    BY <1>2 DEF AddStandard
  <2>2. n \in OwnMethods(t) /\ {ArgumentsName(prefix), ResponseName(prefix)} \subseteq X
    BY <2>1 DEF OwnMethods, OwnNames, VerbsNamed
  <2> HIDE DEF c, n, prefix, m
  <2> QED BY <2>1, <2>2, MethodOnly, MethodWithin DEF c
<1> QED BY <1>1, <1>2

LEMMA VerbAlike ==
  ASSUME NEW t, NEW X, OwnNames(t) \subseteq X, NEW a, NEW b, Match(a, b, X, OwnMethods(t)),
         NEW v \in StandardMethods, NEW capability
  PROVE  Match(AddStandard(a, t.name, Range(t.methods), v, capability),
               AddStandard(b, t.name, Range(t.methods), v, capability), X, OwnMethods(t))
<1> DEFINE n == MethodName(t.name, v)
           prefix == StandardPrefix(t.name, v)
           m == Standard(t.name, v, capability)
<1>1. CASE a.status # "ok" \/ v \notin Range(t.methods)
  BY <1>1 DEF AddStandard, Match
<1>2. CASE a.status = "ok" /\ v \in Range(t.methods)
  <2>1. /\ AddStandard(a, t.name, Range(t.methods), v, capability) = AddMethod(a, n, prefix, m)
        /\ AddStandard(b, t.name, Range(t.methods), v, capability) = AddMethod(b, n, prefix, m)
    BY <1>2 DEF AddStandard, Match
  <2>2. n \in OwnMethods(t) /\ {ArgumentsName(prefix), ResponseName(prefix)} \subseteq X
    BY <1>2 DEF OwnMethods, OwnNames, VerbsNamed
  <2> HIDE DEF n, prefix, m
  <2> QED BY <2>1, <2>2, MethodAlike
<1> QED BY <1>1, <1>2

LEMMA StandardOnly ==
  ASSUME NEW a, Formed(a), NEW t, NEW X, OwnNames(t) \subseteq X, NEW capability
  PROVE  LET c == RegisterStandard(a, t.name, Range(t.methods), capability) IN
         /\ Only(a, c, X, OwnMethods(t)) /\ Formed(c)
         /\ Within(a, X, OwnMethods(t)) => Within(c, X, OwnMethods(t))
<1> DEFINE Add(x, v) == AddStandard(x, t.name, Range(t.methods), v, capability)
           Good(x) == /\ Only(a, x, X, OwnMethods(t)) /\ Formed(x)
                      /\ Within(a, X, OwnMethods(t)) => Within(x, X, OwnMethods(t))
<1>1. Good(a)
  BY OnlyItself
<1>2. \A x, v : v \in StandardMethods /\ Good(x) => Good(Add(x, v))
  BY VerbOnly, OnlyJoins
<1>3. RegisterStandard(a, t.name, Range(t.methods), capability)
        = Add(Add(Add(Add(Add(Add(a, "get"), "changes"), "set"), "copy"), "query"), "queryChanges")
  BY DEF RegisterStandard
<1>4. {"get", "changes", "set", "copy", "query", "queryChanges"} \subseteq StandardMethods
  BY DEF StandardMethods
<1> HIDE DEF Add, Good
<1>5. Good(Add(Add(Add(Add(Add(Add(a, "get"), "changes"), "set"), "copy"), "query"), "queryChanges"))
  BY <1>1, <1>2, <1>4
<1> QED BY <1>3, <1>5 DEF Good

LEMMA StandardAlike ==
  ASSUME NEW t, NEW X, OwnNames(t) \subseteq X, NEW a, NEW b, Match(a, b, X, OwnMethods(t)), NEW capability
  PROVE  Match(RegisterStandard(a, t.name, Range(t.methods), capability),
               RegisterStandard(b, t.name, Range(t.methods), capability), X, OwnMethods(t))
<1> DEFINE Add(x, v) == AddStandard(x, t.name, Range(t.methods), v, capability)
           Good(x, y) == Match(x, y, X, OwnMethods(t))
<1>1. Good(a, b)
  OBVIOUS
<1>2. \A x, y, v : v \in StandardMethods /\ Good(x, y) => Good(Add(x, v), Add(y, v))
  BY VerbAlike
<1>3. \A x : RegisterStandard(x, t.name, Range(t.methods), capability)
               = Add(Add(Add(Add(Add(Add(x, "get"), "changes"), "set"), "copy"), "query"), "queryChanges")
  BY DEF RegisterStandard
<1>4. {"get", "changes", "set", "copy", "query", "queryChanges"} \subseteq StandardMethods
  BY DEF StandardMethods
<1> HIDE DEF Add, Good
<1>5. Good(Add(Add(Add(Add(Add(Add(a, "get"), "changes"), "set"), "copy"), "query"), "queryChanges"),
           Add(Add(Add(Add(Add(Add(b, "get"), "changes"), "set"), "copy"), "query"), "queryChanges"))
  BY <1>1, <1>2, <1>4
<1> QED BY <1>3, <1>5 DEF Good

(* Arguments added to methods whose arguments' objects are among the names *)
(* X.                                                                      *)
LEMMA ArgumentsOnly ==
  ASSUME NEW a, Formed(a), NEW X, NEW M, Within(a, X, M), NEW type, NEW args,
         \A v \in DOMAIN args : MethodName(type, v) \in M
  PROVE  LET c == AddArguments(a, type, args) IN
         Only(a, c, X, M) /\ Formed(c) /\ DOMAIN c.objects = DOMAIN a.objects
<1> DEFINE c == AddArguments(a, type, args)
           prefix(v) == a.methods[MethodName(type, v)].prefix
           AddedTo(x) == {v \in DOMAIN args : x = ArgumentsName(prefix(v))}
<1>0. a.objects = [y \in DOMAIN a.objects |-> a.objects[y]] /\ a.methods = [n \in DOMAIN a.methods |-> a.methods[n]]
  BY DEF Formed, Loaded
<1>1. CASE c = Refuse(a)
  <2>1. /\ c.objects = a.objects /\ c.methods = a.methods
        /\ c = Loaded(a.objects, a.methods, "refused") /\ c.status = "refused"
    BY <1>1 DEF Refuse, Ended, Loaded
  <2> HIDE DEF c
  <2>2. Formed(c)
    BY <1>0, <2>1 DEF Formed
  <2>3. Only(a, c, X, M)
    BY <2>1 DEF Only, SameObject, SameMethod
  <2> QED BY <2>1, <2>2, <2>3 DEF c
<1>2. CASE c # Refuse(a)
  <2>1. /\ c = Loaded(AppendArguments(a, type, args), a.methods, a.status)
        /\ \A v \in DOMAIN args : MethodName(type, v) \in DOMAIN a.methods
    BY <1>2 DEF AddArguments
  <2>2. c.objects = AppendArguments(a, type, args) /\ c.methods = a.methods /\ c.status = a.status
    BY <2>1 DEF Loaded
  <2>3. DOMAIN c.objects = DOMAIN a.objects /\ c.objects = [y \in DOMAIN c.objects |-> c.objects[y]]
    BY <2>2 DEF AppendArguments
  <2>4. ASSUME NEW x, x \notin X, x \in DOMAIN a.objects PROVE c.objects[x] = a.objects[x]
    <3>1. AddedTo(x) = {}
      BY <2>1, <2>4 DEF Within
    <3> HIDE DEF c
    <3> QED BY <2>2, <2>4, <3>1 DEF AppendArguments
  <2> HIDE DEF c
  <2>5. Only(a, c, X, M)
    BY <2>2, <2>3, <2>4 DEF Only, SameObject, SameMethod
  <2>6. Formed(c)
    BY <1>0, <2>1, <2>2, <2>3 DEF Formed
  <2> QED BY <2>3, <2>5, <2>6 DEF c
<1> QED BY <1>1, <1>2

LEMMA ArgumentsAlike ==
  ASSUME NEW a, NEW b, NEW X, NEW M, Match(a, b, X, M), Within(a, X, M), NEW type, NEW args,
         \A v \in DOMAIN args : MethodName(type, v) \in M
  PROVE  Match(AddArguments(a, type, args), AddArguments(b, type, args), X, M)
<1> DEFINE Name(v) == MethodName(type, v)
           Fit(e, v) == /\ Name(v) \in DOMAIN e.methods
                        /\ SchemaFieldsHold(args[v])
                        /\ \A f \in Range(args[v]) : ~ClashingField(ArgumentsOf(e, Name(v)), f.name)
           c == AddArguments(a, type, args)
           d == AddArguments(b, type, args)
<1>1. ASSUME NEW v \in DOMAIN args, Name(v) \in DOMAIN a.methods
      PROVE  a.methods[Name(v)] = b.methods[Name(v)] /\ ArgumentsOf(a, Name(v)) = ArgumentsOf(b, Name(v))
    <2>1. Name(v) \in M
      OBVIOUS
    <2> HIDE DEF Name
    <2>2. a.methods[Name(v)] = b.methods[Name(v)]
      BY <1>1, <2>1 DEF Match, Agree, SameMethod
    <2>3. ArgumentsName(a.methods[Name(v)].prefix) \in X \cap DOMAIN a.objects
      BY <1>1, <2>1 DEF Within
    <2> QED BY <2>2, <2>3 DEF Match, Agree, SameObject, ArgumentsOf
<1>2. ASSUME NEW v \in DOMAIN args PROVE Fit(a, v) <=> Fit(b, v)
  <2>1. Name(v) \in DOMAIN a.methods <=> Name(v) \in DOMAIN b.methods
    BY DEF Match, Agree, SameMethod
  <2> HIDE DEF Name
  <2> QED BY <1>1, <2>1
<1>3. CASE \E v \in DOMAIN args : ~Fit(a, v)
  <2>1. c = Refuse(a)
    BY <1>3 DEF AddArguments
  <2>2. \E v \in DOMAIN args : ~Fit(b, v)
    BY <1>2, <1>3
  <2>3. d = Refuse(b)
    BY <2>2 DEF AddArguments
  <2> HIDE DEF c, d
  <2>4. Match(c, d, X, M)
    BY <2>1, <2>3 DEF Match, Agree, SameObject, SameMethod, Refuse, Ended, Loaded
  <2> QED BY <2>4 DEF c, d
<1>4. CASE \A v \in DOMAIN args : Fit(a, v)
  <2>1. c = Loaded(AppendArguments(a, type, args), a.methods, a.status)
    BY <1>4 DEF AddArguments
  <2>2. \A v \in DOMAIN args : Fit(b, v)
    BY <1>2, <1>4
  <2>3. d = Loaded(AppendArguments(b, type, args), b.methods, b.status)
    BY <2>2 DEF AddArguments
  <2>4. /\ c.objects = AppendArguments(a, type, args) /\ c.methods = a.methods /\ c.status = a.status
        /\ d.objects = AppendArguments(b, type, args) /\ d.methods = b.methods /\ d.status = b.status
    BY <2>1, <2>3 DEF Loaded
  <2> HIDE DEF c, d
  <2>5. \A v \in DOMAIN args : a.methods[MethodName(type, v)] = b.methods[MethodName(type, v)]
    BY <1>1, <1>4
  <2>6. ASSUME NEW x \in X PROVE SameObject(c, d, x)
    <3>1. x \in DOMAIN a.objects <=> x \in DOMAIN b.objects
      BY DEF Match, Agree, SameObject
    <3>2. ASSUME x \in DOMAIN a.objects PROVE c.objects[x] = d.objects[x]
      <4>1. a.objects[x] = b.objects[x] /\ x \in DOMAIN b.objects
        BY <3>2 DEF Match, Agree, SameObject
      <4>2. {v \in DOMAIN args : x = ArgumentsName(a.methods[MethodName(type, v)].prefix)}
              = {v \in DOMAIN args : x = ArgumentsName(b.methods[MethodName(type, v)].prefix)}
        BY <2>5
      <4> QED BY <2>4, <3>2, <4>1, <4>2 DEF AppendArguments
    <3>3. DOMAIN c.objects = DOMAIN a.objects /\ DOMAIN d.objects = DOMAIN b.objects
      BY <2>4 DEF AppendArguments
    <3> QED BY <3>1, <3>2, <3>3 DEF SameObject
  <2>7. Match(c, d, X, M)
    BY <2>4, <2>6 DEF Match, Agree, SameMethod
  <2> QED BY <2>7 DEF c, d
<1> QED BY <1>3, <1>4

(* The methods of a type: all that adding them writes is in X, and new     *)
(* names are the type's own.                                               *)
LEMMA MethodsOnly ==
  ASSUME NEW a, Formed(a), NEW t, DOMAIN t.args \subseteq VerbsNamed, NEW X, OwnNames(t) \subseteq X,
         Within(a, X, OwnMethods(t)), NEW capability
  PROVE  LET c == AddSchemaMethods(a, t, capability) IN
         /\ Only(a, c, X, OwnMethods(t)) /\ Formed(c)
         /\ \A x : x \notin OwnNames(t) => (x \in DOMAIN c.objects <=> x \in DOMAIN a.objects)
<1> DEFINE M == OwnMethods(t)
           b == RegisterStandard(a, t.name, Range(t.methods), capability)
           c == AddSchemaMethods(a, t, capability)
           d == AddArguments(b, t.name, t.args)
<1>1. Only(a, b, X, M) /\ Formed(b) /\ Within(b, X, M)
  BY StandardOnly
<1>2. \A x : x \notin OwnNames(t) => (x \in DOMAIN b.objects <=> x \in DOMAIN a.objects)
  <2>1. Only(a, b, OwnNames(t), M)
    BY StandardOnly
  <2> HIDE DEF b
  <2> QED BY <2>1 DEF Only, SameObject
<1> HIDE DEF b
<1>3. Only(b, d, X, M) /\ Formed(d) /\ DOMAIN d.objects = DOMAIN b.objects
  <2>1. \A v \in DOMAIN t.args : MethodName(t.name, v) \in M
    BY DEF OwnMethods
  <2> HIDE DEF M
  <2> QED BY <1>1, <2>1, ArgumentsOnly
<1>4. Refuse(a).objects = a.objects /\ Refuse(a).methods = a.methods
  BY DEF Refuse, Ended, Loaded
<1>5. Formed(Refuse(a))
  BY DEF Formed, Refuse, Ended, Loaded
<1>6. Only(a, Refuse(a), X, M)
  BY <1>4 DEF Only, SameObject, SameMethod
<1>7. c \in {a, Refuse(a), b, d}
  BY DEF AddSchemaMethods, b
<1> HIDE DEF c, d, M
<1>8. Only(a, d, X, M)
  BY <1>1, <1>3, OnlyJoins
<1> QED BY <1>1, <1>2, <1>3, <1>4, <1>5, <1>6, <1>7, <1>8, OnlyItself DEF c, M

LEMMA MethodsAlike ==
  ASSUME NEW t, DOMAIN t.args \subseteq VerbsNamed, NEW X, OwnNames(t) \subseteq X,
         NEW a, NEW b, Formed(a), Match(a, b, X, OwnMethods(t)), Within(a, X, OwnMethods(t)),
         FilterConditionOf(t.name) \in DOMAIN a.objects <=> FilterConditionOf(t.name) \in DOMAIN b.objects,
         NEW capability
  PROVE  Match(AddSchemaMethods(a, t, capability), AddSchemaMethods(b, t, capability), X, OwnMethods(t))
<1> DEFINE M == OwnMethods(t)
           e == RegisterStandard(a, t.name, Range(t.methods), capability)
           f == RegisterStandard(b, t.name, Range(t.methods), capability)
           c == AddSchemaMethods(a, t, capability)
           d == AddSchemaMethods(b, t, capability)
<1>1. Match(e, f, X, M) /\ Within(e, X, M)
  BY StandardAlike, StandardOnly
<1> HIDE DEF e, f
<1>2. Match(AddArguments(e, t.name, t.args), AddArguments(f, t.name, t.args), X, M)
  <2>1. \A v \in DOMAIN t.args : MethodName(t.name, v) \in M
    BY DEF OwnMethods
  <2> HIDE DEF M
  <2> QED BY <1>1, <2>1, ArgumentsAlike
<1>3. CASE t.methods = <<>>
  <2>1. c = a /\ d = b
    BY <1>3 DEF AddSchemaMethods
  <2> QED BY <2>1
<1>4. CASE /\ t.methods # <<>> /\ Range(t.methods) \cap {"query", "queryChanges"} # {}
           /\ FilterConditionOf(t.name) \notin DOMAIN a.objects
  <2>1. c = Refuse(a) /\ d = Refuse(b)
    BY <1>4 DEF AddSchemaMethods
  <2> HIDE DEF c, d
  <2>2. Match(c, d, X, M)
    BY <2>1 DEF Match, Agree, SameObject, SameMethod, Refuse, Ended, Loaded
  <2> QED BY <2>2 DEF c, d
<1>5. CASE /\ t.methods # <<>>
           /\ ~ (/\ Range(t.methods) \cap {"query", "queryChanges"} # {}
                 /\ FilterConditionOf(t.name) \notin DOMAIN a.objects)
  <2>1. /\ c = IF e.status # "ok" THEN e ELSE AddArguments(e, t.name, t.args)
        /\ d = IF f.status # "ok" THEN f ELSE AddArguments(f, t.name, t.args)
    BY <1>5 DEF AddSchemaMethods, e, f
  <2>2. e.status = f.status
    BY <1>1 DEF Match
  <2> HIDE DEF c, d
  <2>3. Match(c, d, X, M)
    BY <1>1, <1>2, <2>1, <2>2
  <2> QED BY <2>3 DEF c, d
<1> QED BY <1>3, <1>4, <1>5

(* A type: all that adding it reads and writes is the object of its name.  *)
LEMMA TypeOnly ==
  ASSUME NEW a, Formed(a), NEW t
  PROVE  Only(a, AddSchemaType(a, t), {t.name}, {}) /\ Formed(AddSchemaType(a, t))
<1> DEFINE o == Object(t.fields, t.sort, t.dynamic)
           c == AddSchemaType(a, t)
<1>1. c \in {Refuse(a), AddObject(a, t.name, o)}
  BY DEF AddSchemaType
<1>2. Refuse(a).objects = a.objects /\ Refuse(a).methods = a.methods /\ Formed(Refuse(a))
  BY DEF Formed, Refuse, Ended, Loaded
<1>3. Only(a, Refuse(a), {t.name}, {})
  BY <1>2 DEF Only, SameObject, SameMethod
<1> HIDE DEF c, o
<1>4. Only(a, AddObject(a, t.name, o), {t.name}, {}) /\ Formed(AddObject(a, t.name, o))
  BY ObjectOnly
<1> QED BY <1>1, <1>2, <1>3, <1>4 DEF c

LEMMA TypeAlike ==
  ASSUME NEW t, NEW a, NEW b, Match(a, b, {t.name}, {})
  PROVE  Match(AddSchemaType(a, t), AddSchemaType(b, t), {t.name}, {})
<1> DEFINE o == Object(t.fields, t.sort, t.dynamic)
           wrong == \/ ~SchemaFieldsHold(t.fields)
                    \/ \E d \in t.dynamic : d \in {"", ":"} \/ HasField(t.fields, d)
                    \/ \E p \in DOMAIN t.sort : p = "" \/ ~SchemaFieldsHold(t.sort[p])
<1>1. \A e : AddSchemaType(e, t) = IF t.name \in DOMAIN e.objects \/ wrong THEN Refuse(e) ELSE AddObject(e, t.name, o)
  BY DEF AddSchemaType
<1> HIDE DEF wrong, o
<1>2. t.name \in DOMAIN a.objects <=> t.name \in DOMAIN b.objects
  BY DEF Match, Agree, SameObject
<1>3. Match(Refuse(a), Refuse(b), {t.name}, {})
  BY DEF Match, Agree, SameObject, SameMethod, Refuse, Ended, Loaded
<1>4. Match(AddObject(a, t.name, o), AddObject(b, t.name, o), {t.name}, {})
  BY ObjectAlike
<1> QED BY <1>1, <1>2, <1>3, <1>4

-----------------------------------------------------------------------------
(* What a catalogue has come to with the types D loaded onto one, a: what  *)
(* is theirs, X and M, is as each makes it of a alone; the rest is as it   *)
(* was. That is one catalogue, whichever order they came in.               *)
Reached(a, X, M, alone, D, b) ==
  /\ Formed(b) /\ b.status = "ok"
  /\ \A t \in D : alone[t].status = "ok" /\ Agree(alone[t], b, X[t], M[t])
  /\ \A x : (\A t \in D : x \notin X[t]) => SameObject(a, b, x)
  /\ \A n : (\A t \in D : n \notin M[t]) => SameMethod(a, b, n)

Disjoint(X, M, T) == \A t, u \in T : t # u => X[t] \cap X[u] = {} /\ M[t] \cap M[u] = {}

LEMMA ReachedMatches ==
  ASSUME NEW a, a.status = "ok", NEW X, NEW M, NEW alone, NEW T, Disjoint(X, M, T), NEW D \in SUBSET T,
         NEW b, Reached(a, X, M, alone, D, b), NEW t \in T \ D
  PROVE  Match(a, b, X[t], M[t])
<1>1. ASSUME NEW x \in X[t] PROVE SameObject(a, b, x)
  <2>1. \A u \in D : x \notin X[u]
    BY DEF Disjoint
  <2> QED BY <2>1 DEF Reached
<1>2. ASSUME NEW n \in M[t] PROVE SameMethod(a, b, n)
  <2>1. \A u \in D : n \notin M[u]
    BY DEF Disjoint
  <2> QED BY <2>1 DEF Reached
<1> QED BY <1>1, <1>2 DEF Match, Agree, Reached

LEMMA ReachedNext ==
  ASSUME NEW a, NEW X, NEW M, NEW alone, NEW T, Disjoint(X, M, T), NEW D \in SUBSET T,
         NEW b, Reached(a, X, M, alone, D, b), NEW t \in T \ D,
         NEW c, Formed(c), c.status = "ok", Match(alone[t], c, X[t], M[t]), Only(b, c, X[t], M[t])
  PROVE  Reached(a, X, M, alone, D \cup {t}, c)
<1>1. ASSUME NEW u \in D PROVE alone[u].status = "ok" /\ Agree(alone[u], c, X[u], M[u])
  <2>1. \A x \in X[u] : x \notin X[t] /\ SameObject(alone[u], b, x)
    BY DEF Disjoint, Reached, Agree
  <2>2. \A n \in M[u] : n \notin M[t] /\ SameMethod(alone[u], b, n)
    BY DEF Disjoint, Reached, Agree
  <2> QED BY <2>1, <2>2 DEF Only, Agree, SameObject, SameMethod, Reached
<1>2. alone[t].status = "ok" /\ Agree(alone[t], c, X[t], M[t])
  BY DEF Match
<1>3. ASSUME NEW x, \A u \in D \cup {t} : x \notin X[u] PROVE SameObject(a, c, x)
  <2>1. SameObject(a, b, x) /\ SameObject(b, c, x)
    BY <1>3 DEF Reached, Only
  <2> QED BY <2>1 DEF SameObject
<1>4. ASSUME NEW n, \A u \in D \cup {t} : n \notin M[u] PROVE SameMethod(a, c, n)
  <2>1. SameMethod(a, b, n) /\ SameMethod(b, c, n)
    BY <1>4 DEF Reached, Only
  <2> QED BY <2>1 DEF SameMethod
<1> QED BY <1>1, <1>2, <1>3, <1>4 DEF Reached

LEMMA ReachedOne ==
  ASSUME NEW a, NEW X, NEW M, NEW alone, NEW D, NEW b, NEW c,
         Reached(a, X, M, alone, D, b), Reached(a, X, M, alone, D, c)
  PROVE  b = c
<1>1. ASSUME NEW x PROVE SameObject(b, c, x)
  <2>1. CASE \A t \in D : x \notin X[t]
    BY <2>1 DEF Reached, SameObject
  <2>2. CASE \E t \in D : x \in X[t]
    BY <2>2 DEF Reached, Agree, SameObject
  <2> QED BY <2>1, <2>2
<1>2. ASSUME NEW n PROVE SameMethod(b, c, n)
  <2>1. CASE \A t \in D : n \notin M[t]
    BY <2>1 DEF Reached, SameMethod
  <2>2. CASE \E t \in D : n \in M[t]
    BY <2>2 DEF Reached, Agree, SameMethod
  <2> QED BY <2>1, <2>2
<1>3. DOMAIN b.objects = DOMAIN c.objects /\ \A x \in DOMAIN b.objects : b.objects[x] = c.objects[x]
  BY <1>1 DEF SameObject
<1>4. DOMAIN b.methods = DOMAIN c.methods /\ \A n \in DOMAIN b.methods : b.methods[n] = c.methods[n]
  BY <1>2 DEF SameMethod
<1>5. [x \in DOMAIN b.objects |-> b.objects[x]] = [x \in DOMAIN c.objects |-> c.objects[x]]
  BY <1>3
<1>6. [n \in DOMAIN b.methods |-> b.methods[n]] = [n \in DOMAIN c.methods |-> c.methods[n]]
  BY <1>4
<1>7. b.status = c.status /\ Formed(b) /\ Formed(c)
  BY DEF Reached
<1> QED BY <1>5, <1>6, <1>7 DEF Formed

(* One pass over the types of a schema: it goes on just when each would by *)
(* itself, and has come to what they make together.                        *)
Through(types, n) == {types[i] : i \in 1..n}

Passed(a, X, M, alone, types, n, b) ==
  /\ b.status = "ok" <=> \A t \in Through(types, n) : alone[t].status = "ok"
  /\ b.status = "ok" => Reached(a, X, M, alone, Through(types, n), b)

LEMMA PassIs ==
  ASSUME NEW a, Formed(a), a.status = "ok", NEW X, NEW M, NEW alone,
         NEW types, IsList(types), \A i, j \in 1..Len(types) : types[i] = types[j] => i = j,
         NEW f, f[0] = a,
         \A n \in 1..Len(types) : f[n - 1].status # "ok" => f[n] = f[n - 1],
         \A n \in 1..Len(types) : \A D \in SUBSET Range(types) :
           Reached(a, X, M, alone, D, f[n - 1]) /\ types[n] \notin D =>
             /\ f[n].status = alone[types[n]].status
             /\ f[n].status = "ok" => Reached(a, X, M, alone, D \cup {types[n]}, f[n])
  PROVE  \A n \in 0..Len(types) : Passed(a, X, M, alone, types, n, f[n])
<1> DEFINE L == Len(types)
           Wrong == {n \in 0..L : ~Passed(a, X, M, alone, types, n, f[n])}
<1>0. L \in Nat /\ \A i \in 1..L : types[i] \in Range(types)
  BY ListIs
<1> SUFFICES ASSUME Wrong # {} PROVE FALSE
  OBVIOUS
<1>1. Wrong \subseteq Nat
  BY <1>0
<1> HIDE DEF Wrong
<1>2. PICK n \in Wrong : \A m \in Wrong : n <= m
  BY <1>1, LeastIn
<1>3. n \in 0..L /\ ~Passed(a, X, M, alone, types, n, f[n])
  BY DEF Wrong
<1>4. CASE n = 0
  <2>1. Through(types, 0) = {}
    BY DEF Through
  <2>2. Reached(a, X, M, alone, {}, a)
    BY DEF Reached, SameObject, SameMethod
  <2> QED BY <1>3, <1>4, <2>1, <2>2 DEF Passed
<1>5. CASE n # 0
  <2> DEFINE D == Through(types, n - 1)
             t == types[n]
  <2>1. n \in 1..L /\ n - 1 \in 0..L /\ ~(n <= n - 1)
    BY <1>0, <1>3, <1>5
  <2>2. Passed(a, X, M, alone, types, n - 1, f[n - 1])
    <3>1. n - 1 \notin Wrong
      BY <1>2, <2>1
    <3> QED BY <2>1, <3>1 DEF Wrong
  <2>3. Through(types, n) = D \cup {t}
    BY <1>0, <2>1 DEF Through
  <2>4. D \in SUBSET Range(types) /\ t \notin D
    BY <1>0, <2>1 DEF Through
  <2> HIDE DEF D, t
  <2>5. CASE f[n - 1].status # "ok"
    <3>1. f[n] = f[n - 1]
      BY <2>1, <2>5
    <3>2. \E u \in D : alone[u].status # "ok"
      BY <2>2, <2>5 DEF Passed, D
    <3>3. Passed(a, X, M, alone, types, n, f[n])
      BY <2>3, <2>5, <3>1, <3>2 DEF Passed
    <3> QED BY <1>3, <3>3
  <2>6. CASE f[n - 1].status = "ok"
    <3>1. Reached(a, X, M, alone, D, f[n - 1]) /\ \A u \in D : alone[u].status = "ok"
      BY <2>2, <2>6 DEF Passed, D
    <3>2. /\ f[n].status = alone[t].status
          /\ f[n].status = "ok" => Reached(a, X, M, alone, D \cup {t}, f[n])
      BY <2>1, <2>4, <3>1 DEF t
    <3>3. Passed(a, X, M, alone, types, n, f[n])
      BY <2>3, <3>1, <3>2 DEF Passed
    <3> QED BY <1>3, <3>3
  <2> QED BY <2>5, <2>6
<1> QED BY <1>4, <1>5

-----------------------------------------------------------------------------
(* The steps of a schema: its types, then the methods of each, then its    *)
(* own.                                                                    *)
StepsStay(sc, upTo) == \A n \in 1..Steps(sc) : upTo[n - 1].status # "ok" => upTo[n] = upTo[n - 1]
TypesDone(sc, upTo) ==
  \A n \in 1..Len(sc.types) :
    upTo[n - 1].status = "ok" => upTo[n] = AddSchemaType(upTo[n - 1], sc.types[n])
MethodsDone(sc, upTo) ==
  \A n \in 1..Len(sc.types) :
    LET k == Len(sc.types) + n IN
    upTo[k - 1].status = "ok" => upTo[k] = AddSchemaMethods(upTo[k - 1], sc.types[n], sc.capability)
OwnDone(sc, upTo) ==
  \A n \in 1..Len(sc.methods) :
    LET k == 2 * Len(sc.types) + n IN
    upTo[k - 1].status = "ok" => upTo[k] = AddSchemaMethod(upTo[k - 1], sc.methods[n])

LEMMA StepsDo ==
  ASSUME NEW a, NEW sc, Loadable(sc), NEW upTo, Loading(a, sc, Steps(sc), upTo)
  PROVE  upTo[0] = a /\ StepsStay(sc, upTo) /\ TypesDone(sc, upTo) /\ MethodsDone(sc, upTo) /\ OwnDone(sc, upTo)
<1> DEFINE L == Len(sc.types)
           K == Len(sc.methods)
           S == Steps(sc)
<1>0. L \in Nat /\ K \in Nat /\ S = 2 * L + K /\ S \in Nat
  BY StepsIs
<1>1. upTo[0] = a /\ \A n \in 1..S : upTo[n] = ExtendStep(upTo[n - 1], sc, n)
  <2> HIDE DEF S, L, K
  <2>1. upTo = [n \in 0..S |-> IF n = 0 THEN a ELSE ExtendStep(upTo[n - 1], sc, n)]
    BY DEF Loading, S
  <2> QED BY <1>0, <2>1
<1>2. \A x, n : ExtendStep(x, sc, n) =
                  IF x.status # "ok" THEN x
                  ELSE IF n <= L THEN AddSchemaType(x, sc.types[n])
                  ELSE IF n <= 2 * L THEN AddSchemaMethods(x, sc.types[n - L], sc.capability)
                  ELSE AddSchemaMethod(x, sc.methods[n - 2 * L])
  BY DEF ExtendStep
<1> HIDE DEF L, K, S
<1>3. ASSUME NEW n \in 1..S, upTo[n - 1].status # "ok" PROVE upTo[n] = upTo[n - 1]
  BY <1>1, <1>2, <1>3
<1>4. ASSUME NEW n \in 1..L, upTo[n - 1].status = "ok" PROVE upTo[n] = AddSchemaType(upTo[n - 1], sc.types[n])
  <2>1. n \in 1..S /\ n <= L
    BY <1>0
  <2> QED BY <1>1, <1>2, <1>4, <2>1
<1>5. ASSUME NEW n \in 1..L, upTo[(L + n) - 1].status = "ok"
      PROVE  upTo[L + n] = AddSchemaMethods(upTo[(L + n) - 1], sc.types[n], sc.capability)
  <2> DEFINE k == L + n
  <2>1. k \in 1..S /\ ~(k <= L) /\ k <= 2 * L /\ k - L = n
    BY <1>0
  <2>2. upTo[k - 1].status = "ok"
    BY <1>5
  <2> HIDE DEF k
  <2>3. upTo[k] = AddSchemaMethods(upTo[k - 1], sc.types[n], sc.capability)
    BY <1>1, <1>2, <2>1, <2>2
  <2> QED BY <2>3 DEF k
<1>6. ASSUME NEW n \in 1..K, upTo[(2 * L + n) - 1].status = "ok"
      PROVE  upTo[2 * L + n] = AddSchemaMethod(upTo[(2 * L + n) - 1], sc.methods[n])
  <2> DEFINE k == 2 * L + n
  <2>1. k \in 1..S /\ ~(k <= L) /\ ~(k <= 2 * L) /\ k - 2 * L = n
    BY <1>0
  <2>2. upTo[k - 1].status = "ok"
    BY <1>6
  <2> HIDE DEF k
  <2>3. upTo[k] = AddSchemaMethod(upTo[k - 1], sc.methods[n])
    BY <1>1, <1>2, <2>1, <2>2
  <2> QED BY <2>3 DEF k
<1>7. StepsStay(sc, upTo) /\ TypesDone(sc, upTo) /\ MethodsDone(sc, upTo)
  BY <1>3, <1>4, <1>5 DEF L, S, StepsStay, TypesDone, MethodsDone
<1>8. OwnDone(sc, upTo)
  BY <1>6, Zenon DEF L, K, OwnDone
<1> QED BY <1>1, <1>7, <1>8

(* The pass over the types.                                                *)
TypesX(T) == [t \in T |-> {t.name}]
TypesM(T) == [t \in T |-> {}]
TypesAlone(a, T) == [t \in T |-> AddSchemaType(a, t)]

LEMMA TypesPass ==
  ASSUME NEW a, Formed(a), a.status = "ok", NEW sc, Loadable(sc), ReserveNames(a, sc),
         NEW upTo, Loading(a, sc, Steps(sc), upTo)
  PROVE  \A n \in 0..Len(sc.types) :
           Passed(a, TypesX(Range(sc.types)), TypesM(Range(sc.types)),
                  TypesAlone(a, Range(sc.types)), sc.types, n, upTo[n])
<1> DEFINE T == Range(sc.types)
           X == TypesX(T)
           M == TypesM(T)
           alone == TypesAlone(a, T)
           types == sc.types
<1>1. IsList(types) /\ Len(types) \in Nat /\ \A i \in 1..Len(types) : types[i] \in T
  BY LoadableIs, SchemaIs
<1>2. \A i, j \in 1..Len(types) : types[i].name = types[j].name => i = j
  BY TypesApart
<1>3. Disjoint(X, M, T)
  <2>1. \A t, u \in T : t.name = u.name => t = u
    BY <1>1, <1>2, ListIs
  <2> QED BY <2>1 DEF Disjoint, TypesX, TypesM
<1>4. upTo[0] = a /\ \A n \in 1..Len(types) : upTo[n - 1].status # "ok" => upTo[n] = upTo[n - 1]
  <2>1. 1..Len(types) \subseteq 1..Steps(sc)
    <3> DEFINE L == Len(types)
               K == Len(sc.methods)
               S == Steps(sc)
    <3>1. L \in Nat /\ K \in Nat /\ S = 2 * L + K
      BY StepsIs
    <3> HIDE DEF L, K, S
    <3>2. 1..L \subseteq 1..S
      BY <3>1
    <3> QED BY <3>2 DEF L, S
  <2>2. upTo[0] = a /\ StepsStay(sc, upTo)
    BY StepsDo
  <2> HIDE DEF types
  <2> QED BY <2>1, <2>2 DEF StepsStay
<1>5. ASSUME NEW n \in 1..Len(types), NEW D \in SUBSET T, Reached(a, X, M, alone, D, upTo[n - 1]), types[n] \notin D
      PROVE  /\ upTo[n].status = alone[types[n]].status
             /\ upTo[n].status = "ok" => Reached(a, X, M, alone, D \cup {types[n]}, upTo[n])
  <2> DEFINE t == types[n]
             b == upTo[n - 1]
             c == upTo[n]
  <2>0. t \in T \ D
    BY <1>1, <1>5
  <2>1. c = AddSchemaType(b, t)
    <3>1. TypesDone(sc, upTo)
      BY StepsDo
    <3>2. upTo[n - 1].status = "ok"
      BY <1>5 DEF Reached
    <3> QED BY <3>1, <3>2 DEF TypesDone
  <2>2. alone[t] = AddSchemaType(a, t) /\ X[t] = {t.name} /\ M[t] = {}
    BY <2>0 DEF TypesAlone, TypesX, TypesM
  <2> HIDE DEF T, X, M, alone, b, c, t
  <2>3. Reached(a, X, M, alone, D, b)
    BY <1>5 DEF b
  <2>4. Match(a, b, X[t], M[t])
    BY <1>3, <2>0, <2>3, ReachedMatches
  <2>5. Match(alone[t], c, X[t], M[t])
    BY <2>1, <2>2, <2>4, TypeAlike
  <2>6. Only(b, c, X[t], M[t]) /\ Formed(c)
    BY <2>1, <2>2, <2>3, TypeOnly DEF Reached
  <2>7. c.status = alone[t].status
    BY <2>5 DEF Match
  <2>8. c.status = "ok" => Reached(a, X, M, alone, D \cup {t}, c)
    BY <1>3, <2>0, <2>3, <2>5, <2>6, ReachedNext
  <2> QED BY <2>7, <2>8 DEF c, t
<1> HIDE DEF T, X, M, alone
<1>6. \A i, j \in 1..Len(types) : types[i] = types[j] => i = j
  BY <1>2
<1>7. T = Range(types)
  BY DEF T
<1> HIDE DEF types
<1>8. \A n \in 1..Len(types) : \A D \in SUBSET Range(types) :
        Reached(a, X, M, alone, D, upTo[n - 1]) /\ types[n] \notin D =>
          /\ upTo[n].status = alone[types[n]].status
          /\ upTo[n].status = "ok" => Reached(a, X, M, alone, D \cup {types[n]}, upTo[n])
  BY <1>5, <1>7
<1>9. \A n \in 0..Len(types) : Passed(a, X, M, alone, types, n, upTo[n])
  BY <1>1, <1>4, <1>6, <1>8, PassIs
<1> QED BY <1>9 DEF types, T, X, M, alone

-----------------------------------------------------------------------------
(* What two types of a schema have is apart: their names are claimed by    *)
(* one each, and none is in the catalogue.                                 *)
LEMMA NamedTypes ==
  ASSUME NEW a, NEW sc, Loadable(sc), ReserveNames(a, sc),
         NEW t \in Range(sc.types), NEW u \in Range(sc.types), t.name = u.name
  PROVE  t = u
<1>1. \A i, j \in 1..Len(sc.types) : sc.types[i].name = sc.types[j].name => i = j
  BY TypesApart
<1>2. IsList(sc.types)
  BY LoadableIs
<1> QED BY <1>1, <1>2, ListIs

LEMMA OwnClaimed ==
  ASSUME NEW sc, Loadable(sc), NEW t \in Range(sc.types), NEW x \in OwnNames(t)
  PROVE  \E y \in Claims(sc) : y.name = x /\ sc.types[y.i] = t
<1>1. PICK v \in Range(t.methods) :
        x \in {ArgumentsName(StandardPrefix(t.name, v)), ResponseName(StandardPrefix(t.name, v))}
  BY DEF OwnNames
<1>2. PICK i \in 1..Len(sc.types) : t = sc.types[i]
  BY LoadableIs, ListIs
<1>3. PICK k \in DOMAIN t.methods : t.methods[k] = v
  BY DEF Range
<1> DEFINE prefix == StandardPrefix(t.name, v)
           y == Claim("arguments", i, k, ArgumentsName(prefix))
           z == Claim("response", i, k, ResponseName(prefix))
<1>4. ClaimedBy(i, k, prefix) \subseteq Claims(sc)
  <2>1. ClaimedBy(i, k, StandardPrefix(sc.types[i].name, sc.types[i].methods[k])) \subseteq Claims(sc)
    BY <1>2, <1>3, ClaimsAre
  <2> QED BY <1>2, <1>3, <2>1
<1>5. y \in Claims(sc) /\ z \in Claims(sc)
  BY <1>4 DEF ClaimedBy
<1>6. y.name = ArgumentsName(prefix) /\ z.name = ResponseName(prefix) /\ y.i = i /\ z.i = i
  BY DEF Claim
<1> HIDE DEF y, z
<1> QED BY <1>1, <1>2, <1>5, <1>6

LEMMA OwnApart ==
  ASSUME NEW a, NEW sc, Loadable(sc), ReserveNames(a, sc), NEW t \in Range(sc.types)
  PROVE  /\ OwnNames(t) \cap DOMAIN a.objects = {}
         /\ \A u \in Range(sc.types) : t # u =>
              OwnNames(t) \cap OwnNames(u) = {} /\ OwnMethods(t) \cap OwnMethods(u) = {}
         /\ \A u \in Range(sc.types) : FilterConditionOf(u.name) \notin OwnNames(t)
         /\ Range(t.methods) \subseteq StandardMethods
<1>1. \A y \in Claims(sc) : Unused(a, y.name)
  BY DEF ReserveNames
<1>2. \A y \in Claims(sc) : y.name \notin DOMAIN a.objects
  BY <1>1 DEF Unused
<1>3. OwnNames(t) \cap DOMAIN a.objects = {}
  BY <1>2, OwnClaimed
<1>4. ASSUME NEW u \in Range(sc.types), t # u PROVE OwnNames(t) \cap OwnNames(u) = {}
  <2> SUFFICES ASSUME NEW x \in OwnNames(t), x \in OwnNames(u) PROVE FALSE
    OBVIOUS
  <2>1. PICK y \in Claims(sc) : y.name = x /\ sc.types[y.i] = t
    BY OwnClaimed
  <2>2. PICK z \in Claims(sc) : z.name = x /\ sc.types[z.i] = u
    BY OwnClaimed
  <2>3. y = z
    BY <2>1, <2>2 DEF ReserveNames
  <2> QED BY <1>4, <2>1, <2>2, <2>3
<1>5. \A u \in Range(sc.types) : u.name \in TypesNamed
  BY NamesAre
<1>6. ASSUME NEW u \in Range(sc.types), t # u PROVE OwnMethods(t) \cap OwnMethods(u) = {}
  <2>1. t.name # u.name
    BY <1>6, NamedTypes
  <2> QED BY <1>5, <2>1, NamesAssumption DEF OwnMethods
<1>7. Range(t.methods) \subseteq StandardMethods
  BY DEF ReserveNames, MethodsNamed
<1>8. ASSUME NEW u \in Range(sc.types) PROVE FilterConditionOf(u.name) \notin OwnNames(t)
  BY <1>5, <1>7, NamesAssumption DEF OwnNames
<1> QED BY <1>3, <1>4, <1>6, <1>7, <1>8

(* What the types of a schema make of a catalogue leaves its methods as    *)
(* they were, and its objects there.                                       *)
WithTypes(a, b) ==
  /\ \A n : SameMethod(a, b, n)
  /\ DOMAIN a.objects \subseteq DOMAIN b.objects
  /\ \A n \in DOMAIN b.methods : ArgumentsName(b.methods[n].prefix) \in DOMAIN a.objects

LEMMA TypesReached ==
  ASSUME NEW a, Holding(a), NEW sc, Loadable(sc), ReserveNames(a, sc), NEW alone,
         NEW b, Reached(a, TypesX(Range(sc.types)), TypesM(Range(sc.types)), alone, Range(sc.types), b)
  PROVE  WithTypes(a, b)
<1> DEFINE T == Range(sc.types)
<1>1. ASSUME NEW n PROVE SameMethod(a, b, n)
  <2>1. \A t \in T : n \notin TypesM(T)[t]
    BY DEF TypesM
  <2> QED BY <2>1 DEF Reached
<1>2. ASSUME NEW x \in DOMAIN a.objects PROVE x \in DOMAIN b.objects
  <2>1. ASSUME NEW t \in T PROVE x # t.name
    <3>1. IsList(sc.types) /\ \A i \in 1..Len(sc.types) : Claim("type", i, 0, sc.types[i].name) \in Claims(sc)
      BY LoadableIs, ClaimsAre
    <3>2. PICK i \in 1..Len(sc.types) : t = sc.types[i]
      BY <3>1, ListIs
    <3>3. Claim("type", i, 0, t.name).name = t.name /\ Claim("type", i, 0, t.name) \in Claims(sc)
      BY <3>1, <3>2 DEF Claim
    <3>4. Unused(a, t.name)
      BY <3>3 DEF ReserveNames
    <3> QED BY <3>4 DEF Unused
  <2>2. \A t \in T : x \notin TypesX(T)[t]
    BY <2>1 DEF TypesX
  <2>3. SameObject(a, b, x)
    BY <2>2 DEF Reached
  <2> QED BY <2>3 DEF SameObject
<1>3. \A n \in DOMAIN b.methods : ArgumentsName(b.methods[n].prefix) \in DOMAIN a.objects
  <2>1. \A n \in DOMAIN a.methods : ArgumentsName(a.methods[n].prefix) \in DOMAIN a.objects
    BY DEF Holding, MethodHolds
  <2> QED BY <1>1, <2>1 DEF SameMethod
<1> QED BY <1>1, <1>2, <1>3 DEF WithTypes

(* The pass over the methods of the types.                                 *)
AddedTo(b, t) == {ArgumentsName(b.methods[n].prefix) : n \in OwnMethods(t) \cap DOMAIN b.methods}
MethodsX(b, T) == [t \in T |-> OwnNames(t) \cup AddedTo(b, t)]
MethodsM(T) == [t \in T |-> OwnMethods(t)]
MethodsAlone(b, T, capability) == [t \in T |-> AddSchemaMethods(b, t, capability)]

LEMMA MethodsDisjoint ==
  ASSUME NEW a, Holding(a), NEW sc, Loadable(sc), ReserveNames(a, sc), NEW alone,
         NEW b, Reached(a, TypesX(Range(sc.types)), TypesM(Range(sc.types)), alone, Range(sc.types), b)
  PROVE  Disjoint(MethodsX(b, Range(sc.types)), MethodsM(Range(sc.types)), Range(sc.types))
<1> DEFINE T == Range(sc.types)
<1>1. /\ \A n : SameMethod(a, b, n)
      /\ \A n \in DOMAIN b.methods : ArgumentsName(b.methods[n].prefix) \in DOMAIN a.objects
  BY TypesReached DEF WithTypes
<1>2. \A t \in T : OwnNames(t) \cap DOMAIN a.objects = {} /\ AddedTo(b, t) \subseteq DOMAIN a.objects
  BY <1>1, OwnApart DEF AddedTo
<1>3. \A m, n \in DOMAIN b.methods :
        ArgumentsName(b.methods[m].prefix) = ArgumentsName(b.methods[n].prefix) => m = n
  BY <1>1 DEF Holding, MethodsApart, SameMethod
<1>4. ASSUME NEW t \in T, NEW u \in T, t # u
      PROVE  /\ (OwnNames(t) \cup AddedTo(b, t)) \cap (OwnNames(u) \cup AddedTo(b, u)) = {}
             /\ OwnMethods(t) \cap OwnMethods(u) = {}
  <2>1. OwnNames(t) \cap OwnNames(u) = {} /\ OwnMethods(t) \cap OwnMethods(u) = {}
    BY <1>4, OwnApart
  <2>2. AddedTo(b, t) \cap AddedTo(b, u) = {}
    BY <1>3, <2>1 DEF AddedTo
  <2> QED BY <1>2, <2>1, <2>2
<1> QED BY <1>4 DEF Disjoint, MethodsX, MethodsM

LEMMA MethodsPass ==
  ASSUME NEW a, Holding(a), NEW sc, Loadable(sc), ReserveNames(a, sc), NEW alone,
         NEW b, Reached(a, TypesX(Range(sc.types)), TypesM(Range(sc.types)), alone, Range(sc.types), b),
         NEW upTo, Loading(a, sc, Steps(sc), upTo), upTo[Len(sc.types)] = b
  PROVE  Passed(b, MethodsX(b, Range(sc.types)), MethodsM(Range(sc.types)),
                MethodsAlone(b, Range(sc.types), sc.capability), sc.types, Len(sc.types), upTo[2 * Len(sc.types)])
<1> DEFINE T == Range(sc.types)
           X == MethodsX(b, T)
           M == MethodsM(T)
           by == MethodsAlone(b, T, sc.capability)
           types == sc.types
           L == Len(types)
           f == [n \in 0..L |-> upTo[L + n]]
<1>1. IsList(types) /\ L \in Nat /\ \A i \in 1..L : types[i] \in T
  BY LoadableIs, SchemaIs
<1>2. \A i, j \in 1..L : types[i] = types[j] => i = j
  BY TypesApart
<1>3. Disjoint(X, M, T)
  BY MethodsDisjoint
<1>4. /\ DOMAIN a.objects \subseteq DOMAIN b.objects
      /\ \A n \in DOMAIN b.methods : ArgumentsName(b.methods[n].prefix) \in DOMAIN a.objects
  <2>1. WithTypes(a, b)
    BY TypesReached
  <2> QED BY <2>1 DEF WithTypes
<1>5. Formed(b) /\ b.status = "ok"
  BY DEF Reached
<1>6. f[0] = b
  <2> HIDE DEF L
  <2>1. f[0] = upTo[L]
    BY <1>1
  <2> QED BY <2>1 DEF L
<1>7. ASSUME NEW n \in 1..L
      PROVE  /\ f[n - 1].status # "ok" => f[n] = f[n - 1]
             /\ f[n - 1].status = "ok" => f[n] = AddSchemaMethods(f[n - 1], types[n], sc.capability)
  <2> DEFINE k == L + n
  <2>1. k \in 1..Steps(sc)
    <3> DEFINE K == Len(sc.methods)
               S == Steps(sc)
    <3>1. K \in Nat /\ S = 2 * L + K
      BY StepsIs
    <3> HIDE DEF K, S, L
    <3>2. L + n \in 1..S
      BY <1>1, <3>1
    <3> QED BY <3>2 DEF S
  <2>2. StepsStay(sc, upTo) /\ MethodsDone(sc, upTo)
    BY StepsDo
  <2>3. upTo[k - 1].status # "ok" => upTo[k] = upTo[k - 1]
    <3> HIDE DEF k
    <3> QED BY <2>1, <2>2 DEF StepsStay
  <2>4. upTo[k - 1].status = "ok" => upTo[k] = AddSchemaMethods(upTo[k - 1], types[n], sc.capability)
    BY <2>2, Zenon DEF MethodsDone
  <2>5. f[n] = upTo[k] /\ f[n - 1] = upTo[k - 1]
    <3> HIDE DEF L
    <3>1. n \in 0..L /\ n - 1 \in 0..L /\ L + (n - 1) = (L + n) - 1
      BY <1>1
    <3> QED BY <3>1
  <2> HIDE DEF k, f, L
  <2> QED BY <2>3, <2>4, <2>5
<1> HIDE DEF f
<1>8. ASSUME NEW n \in 1..L, NEW D \in SUBSET T, Reached(b, X, M, by, D, f[n - 1]), types[n] \notin D
      PROVE  /\ f[n].status = by[types[n]].status
             /\ f[n].status = "ok" => Reached(b, X, M, by, D \cup {types[n]}, f[n])
  <2> DEFINE t == types[n]
             c == f[n - 1]
             d == f[n]
             XT == OwnNames(t) \cup AddedTo(b, t)
  <2>0. t \in T \ D
    BY <1>1, <1>8
  <2>1. d = AddSchemaMethods(c, t, sc.capability)
    BY <1>7, <1>8 DEF Reached
  <2>2. by[t] = AddSchemaMethods(b, t, sc.capability) /\ X[t] = XT /\ M[t] = OwnMethods(t)
    BY <2>0 DEF MethodsAlone, MethodsX, MethodsM
  <2>3. DOMAIN t.args \subseteq VerbsNamed
    BY <2>0, LoadableIs
  <2>4. \A u \in D : DOMAIN u.args \subseteq VerbsNamed /\ by[u] = AddSchemaMethods(b, u, sc.capability)
                     /\ X[u] = OwnNames(u) \cup AddedTo(b, u) /\ M[u] = OwnMethods(u)
    BY LoadableIs DEF MethodsAlone, MethodsX, MethodsM
  <2>5. \A u \in T : Within(b, OwnNames(u) \cup AddedTo(b, u), OwnMethods(u))
    BY <1>4 DEF Within, AddedTo
  <2>6. \A u \in T : FilterConditionOf(t.name) \notin OwnNames(u)
    BY <2>0, OwnApart
  <2> HIDE DEF T, X, M, by, c, d, t
  <2>7. Reached(b, X, M, by, D, c)
    BY <1>8 DEF c
  <2>8. Match(b, c, X[t], M[t])
    BY <1>3, <1>5, <2>0, <2>7, ReachedMatches
  <2>9. Within(c, XT, OwnMethods(t))
    BY <2>0, <2>2, <2>5, <2>8 DEF Within, Match, Agree, SameMethod, SameObject
  <2>10. FilterConditionOf(t.name) \in DOMAIN b.objects <=> FilterConditionOf(t.name) \in DOMAIN c.objects
    <3> DEFINE x == FilterConditionOf(t.name)
    <3>1. CASE \A u \in D : x \notin X[u]
      BY <2>7, <3>1 DEF Reached, SameObject
    <3>2. CASE \E u \in D : x \in X[u]
      <4>1. PICK u \in D : x \in X[u]
        BY <3>2
      <4> HIDE DEF x
      <4>2. u \in T /\ x \notin OwnNames(u)
        BY <2>6 DEF x
      <4>3. \A y : y \notin OwnNames(u) => (y \in DOMAIN by[u].objects <=> y \in DOMAIN b.objects)
        <5> DEFINE XU == OwnNames(u) \cup AddedTo(b, u)
        <5>1. OwnNames(u) \subseteq XU /\ Within(b, XU, OwnMethods(u)) /\ DOMAIN u.args \subseteq VerbsNamed
          BY <2>4, <2>5, <4>2
        <5> HIDE DEF XU
        <5>2. \A y : y \notin OwnNames(u) =>
                (y \in DOMAIN AddSchemaMethods(b, u, sc.capability).objects <=> y \in DOMAIN b.objects)
          BY <1>5, <5>1, MethodsOnly
        <5> QED BY <2>4, <5>2
      <4>4. SameObject(by[u], c, x)
        BY <2>7, <4>1 DEF Reached, Agree
      <4> QED BY <4>2, <4>3, <4>4 DEF SameObject, x
    <3> QED BY <3>1, <3>2
  <2>11. OwnNames(t) \subseteq XT
    OBVIOUS
  <2> HIDE DEF XT
  <2>12. Match(by[t], d, X[t], M[t])
    BY <1>5, <2>0, <2>1, <2>2, <2>3, <2>5, <2>8, <2>10, <2>11, MethodsAlike DEF XT
  <2>13. Only(c, d, X[t], M[t]) /\ Formed(d)
    BY <2>1, <2>2, <2>3, <2>7, <2>9, <2>11, MethodsOnly DEF Reached
  <2>14. d.status = by[t].status
    BY <2>12 DEF Match
  <2>15. d.status = "ok" => Reached(b, X, M, by, D \cup {t}, d)
    BY <1>3, <2>0, <2>7, <2>12, <2>13, ReachedNext
  <2> QED BY <2>14, <2>15 DEF d, t
<1>9. T = Range(types)
  BY DEF T
<1> HIDE DEF T, X, M, by
<1>10. Passed(b, X, M, by, types, L, f[L])
  <2>1. \A n \in 1..L : f[n - 1].status # "ok" => f[n] = f[n - 1]
    BY <1>7
  <2> HIDE DEF types
  <2>2. \A n \in 0..L : Passed(b, X, M, by, types, n, f[n])
    BY <1>1, <1>2, <1>5, <1>6, <1>8, <1>9, <2>1, PassIs
  <2>3. L \in 0..L
    BY <1>1
  <2> QED BY <2>2, <2>3
<1>11. f[L] = upTo[2 * L]
  <2> HIDE DEF L
  <2> QED BY <1>1 DEF f
<1> QED BY <1>10, <1>11 DEF T, X, M, by

-----------------------------------------------------------------------------
(* A step that does not go on is the last.                                 *)
LEMMA Stuck ==
  ASSUME NEW sc, Loadable(sc), NEW upTo, StepsStay(sc, upTo), NEW m \in 0..Steps(sc), upTo[m].status # "ok"
  PROVE  upTo[Steps(sc)].status # "ok"
<1> DEFINE S == Steps(sc)
           Wrong == {n \in m..S : upTo[n].status = "ok"}
<1>0. S \in Nat /\ m \in 0..S
  BY StepsIs
<1> SUFFICES ASSUME Wrong # {} PROVE FALSE
  <2> HIDE DEF S
  <2>1. S \in m..S
    BY <1>0
  <2> QED BY <2>1 DEF S
<1> HIDE DEF S
<1>1. Wrong \subseteq Nat
  BY <1>0 DEF S
<1> HIDE DEF Wrong
<1>2. PICK n \in Wrong : \A k \in Wrong : n <= k
  BY <1>1, LeastIn
<1>3. n \in m..S /\ upTo[n].status = "ok"
  BY DEF Wrong
<1>4. m \in Nat /\ m <= S
  BY <1>0 DEF S
<1>5. n # m
  BY <1>3
<1>6. n \in 1..S /\ n - 1 \in m..S /\ ~(n <= n - 1)
  BY <1>0, <1>3, <1>4, <1>5
<1>7. n - 1 \notin Wrong
  BY <1>2, <1>6
<1>8. upTo[n - 1].status # "ok"
  BY <1>6, <1>7 DEF Wrong
<1>9. upTo[n] = upTo[n - 1]
  BY <1>6, <1>8 DEF StepsStay, S
<1> QED BY <1>3, <1>8, <1>9

(* Two schemas with the same types come to the same.                       *)
SameTypes(sc, sd) ==
  /\ Range(sc.types) = Range(sd.types) /\ Len(sc.types) = Len(sd.types)
  /\ sc.methods = sd.methods /\ sc.capability = sd.capability

LEMMA PassedSame ==
  ASSUME NEW a, NEW X, NEW M, NEW alone, NEW D, NEW b, NEW c,
         b.status = "ok" <=> \A t \in D : alone[t].status = "ok",
         b.status = "ok" => Reached(a, X, M, alone, D, b),
         c.status = "ok" <=> \A t \in D : alone[t].status = "ok",
         c.status = "ok" => Reached(a, X, M, alone, D, c)
  PROVE  (b.status = "ok" /\ b = c) \/ (b.status # "ok" /\ c.status # "ok")
<1>1. CASE b.status = "ok"
  <2>1. Reached(a, X, M, alone, D, b) /\ Reached(a, X, M, alone, D, c)
    BY <1>1
  <2> QED BY <1>1, <2>1, ReachedOne
<1>2. CASE b.status # "ok"
  BY <1>2
<1> QED BY <1>1, <1>2

LEMMA ThroughAll == ASSUME NEW types, IsList(types) PROVE Through(types, Len(types)) = Range(types)
BY ListIs DEF Through

LEMMA OwnSame ==
  ASSUME NEW sc, Loadable(sc), NEW f, NEW g, StepsStay(sc, f), StepsStay(sc, g), OwnDone(sc, f), OwnDone(sc, g),
         f[2 * Len(sc.types)] = g[2 * Len(sc.types)]
  PROVE  f[Steps(sc)] = g[Steps(sc)]
<1> DEFINE L == Len(sc.types)
           K == Len(sc.methods)
           S == Steps(sc)
           Wrong == {n \in 0..K : f[2 * L + n] # g[2 * L + n]}
<1>0. L \in Nat /\ K \in Nat /\ S = 2 * L + K /\ S \in Nat
  BY StepsIs
<1>a. f[2 * L] = g[2 * L]
  OBVIOUS
<1>b. \A h : StepsStay(sc, h) <=> \A n \in 1..S : h[n - 1].status # "ok" => h[n] = h[n - 1]
  BY Zenon DEF StepsStay
<1>c. \A h : OwnDone(sc, h) <=> \A n \in 1..K : h[(2 * L + n) - 1].status = "ok" =>
                                  h[2 * L + n] = AddSchemaMethod(h[(2 * L + n) - 1], sc.methods[n])
  BY Zenon DEF OwnDone
<1> HIDE DEF L, K, S
<1> SUFFICES ASSUME Wrong # {} PROVE FALSE
  <2>1. K \in 0..K
    BY <1>0
  <2>2. f[2 * L + K] = g[2 * L + K] => f[S] = g[S]
    BY <1>0
  <2> QED BY <2>1, <2>2 DEF S
<1>1. Wrong \subseteq Nat
  BY <1>0
<1> HIDE DEF Wrong
<1>2. PICK n \in Wrong : \A k \in Wrong : n <= k
  BY <1>1, LeastIn
<1>3. n \in 0..K /\ f[2 * L + n] # g[2 * L + n]
  BY DEF Wrong
<1>4. n # 0
  BY <1>a, <1>0, <1>3
<1>5. n \in 1..K /\ n - 1 \in 0..K /\ ~(n <= n - 1) /\ 2 * L + (n - 1) = (2 * L + n) - 1 /\ 2 * L + n \in 1..S
  BY <1>0, <1>3, <1>4
<1>6. f[(2 * L + n) - 1] = g[(2 * L + n) - 1]
  <2>1. n - 1 \notin Wrong
    BY <1>2, <1>5
  <2> QED BY <1>5, <2>1 DEF Wrong
<1>7. CASE f[(2 * L + n) - 1].status = "ok"
  <2>1. /\ f[2 * L + n] = AddSchemaMethod(f[(2 * L + n) - 1], sc.methods[n])
        /\ g[2 * L + n] = AddSchemaMethod(g[(2 * L + n) - 1], sc.methods[n])
    BY <1>c, <1>5, <1>6, <1>7
  <2> QED BY <1>3, <1>6, <2>1
<1>8. CASE f[(2 * L + n) - 1].status # "ok"
  <2>1. /\ f[2 * L + n] = f[(2 * L + n) - 1]
        /\ g[2 * L + n] = g[(2 * L + n) - 1]
    BY <1>b, <1>5, <1>6, <1>8
  <2> QED BY <1>3, <1>6, <2>1
<1> QED BY <1>7, <1>8

LEMMA ReorderedLoads ==
  ASSUME NEW a, a.status = "ok", Formed(a), Holding(a),
         NEW sc, Loadable(sc), ReserveNames(a, sc), NEW sd, Loadable(sd), ReserveNames(a, sd), SameTypes(sc, sd),
         NEW f, Loading(a, sc, Steps(sc), f), NEW g, Loading(a, sd, Steps(sd), g)
  PROVE  f[Steps(sc)] = g[Steps(sd)] \/ (f[Steps(sc)].status # "ok" /\ g[Steps(sd)].status # "ok")
<1> DEFINE T == Range(sc.types)
           L == Len(sc.types)
<1>1. /\ Range(sd.types) = T /\ Len(sd.types) = L /\ sd.methods = sc.methods /\ sd.capability = sc.capability
      /\ Steps(sd) = Steps(sc)
  BY DEF SameTypes, Steps
<1>2. L \in Nat /\ Steps(sc) \in Nat /\ L \in 0..Steps(sc) /\ 2 * L \in 0..Steps(sc)
  <2> DEFINE K == Len(sc.methods)
             S == Steps(sc)
  <2>1. L \in Nat /\ K \in Nat /\ S = 2 * L + K
    BY StepsIs
  <2> HIDE DEF L, K, S
  <2>2. L \in Nat /\ S \in Nat /\ L \in 0..S /\ 2 * L \in 0..S
    BY <2>1
  <2> QED BY <2>2 DEF S
<1>3. Through(sc.types, L) = T /\ Through(sd.types, L) = T
  BY <1>1, LoadableIs, ThroughAll
<1>4. StepsStay(sc, f) /\ StepsStay(sd, g) /\ OwnDone(sc, f) /\ OwnDone(sd, g)
  BY StepsDo
<1>5. ASSUME NEW m \in 0..Steps(sc), f[m].status # "ok", g[m].status # "ok"
      PROVE  f[Steps(sc)].status # "ok" /\ g[Steps(sd)].status # "ok"
  BY <1>1, <1>4, <1>5, Stuck
<1>6. \/ f[L].status = "ok" /\ f[L] = g[L]
      \/ f[L].status # "ok" /\ g[L].status # "ok"
  <2> DEFINE X == TypesX(T)
             M == TypesM(T)
             alone == TypesAlone(a, T)
  <2>1. Passed(a, X, M, alone, sc.types, L, f[L])
    <3>1. L \in 0..L
      BY <1>2
    <3> QED BY <3>1, TypesPass
  <2>2. Passed(a, X, M, alone, sd.types, L, g[L])
    <3>1. \A n \in 0..L : Passed(a, X, M, alone, sd.types, n, g[n])
      BY <1>1, TypesPass
    <3> QED BY <1>2, <3>1
  <2> HIDE DEF X, M, alone, T, L
  <2> QED BY <1>3, <2>1, <2>2, PassedSame DEF Passed
<1>7. CASE f[L].status # "ok" /\ g[L].status # "ok"
  BY <1>2, <1>5, <1>7
<1>8. CASE f[L].status = "ok" /\ f[L] = g[L]
  <2> DEFINE b == f[L]
             alone == TypesAlone(a, T)
             X == MethodsX(b, T)
             M == MethodsM(T)
             by == MethodsAlone(b, T, sc.capability)
  <2>1. Reached(a, TypesX(T), TypesM(T), alone, T, b)
    <3>1. Passed(a, TypesX(T), TypesM(T), alone, sc.types, L, f[L])
      <4>1. L \in 0..L
        BY <1>2
      <4> QED BY <4>1, TypesPass
    <3> HIDE DEF L, T, alone
    <3> QED BY <1>3, <1>8, <3>1 DEF Passed
  <2>2. Passed(b, X, M, by, sc.types, L, f[2 * L])
    <3> HIDE DEF alone
    <3> QED BY <2>1, MethodsPass
  <2>3. Passed(b, X, M, by, sd.types, L, g[2 * L])
    <3> HIDE DEF alone, b
    <3>1. /\ g[Len(sd.types)] = b
          /\ Reached(a, TypesX(Range(sd.types)), TypesM(Range(sd.types)), alone, Range(sd.types), b)
      BY <1>1, <1>8, <2>1 DEF b
    <3>2. Passed(b, MethodsX(b, Range(sd.types)), MethodsM(Range(sd.types)),
                 MethodsAlone(b, Range(sd.types), sd.capability), sd.types, Len(sd.types), g[2 * Len(sd.types)])
      BY <3>1, MethodsPass
    <3> QED BY <1>1, <3>2
  <2>4. \/ f[2 * L].status = "ok" /\ f[2 * L] = g[2 * L]
        \/ f[2 * L].status # "ok" /\ g[2 * L].status # "ok"
    <3> HIDE DEF X, M, by, T, L, b
    <3> QED BY <1>3, <2>2, <2>3, PassedSame DEF Passed
  <2>5. CASE f[2 * L].status # "ok" /\ g[2 * L].status # "ok"
    BY <1>2, <1>5, <2>5
  <2>6. CASE f[2 * L] = g[2 * L]
    <3>1. StepsStay(sc, g) /\ OwnDone(sc, g)
      BY <1>1, <1>4 DEF StepsStay, OwnDone
    <3>2. f[Steps(sc)] = g[Steps(sc)]
      BY <1>4, <2>6, <3>1, OwnSame
    <3> QED BY <1>1, <3>2
  <2> QED BY <2>4, <2>5, <2>6
<1> QED BY <1>6, <1>7, <1>8

-----------------------------------------------------------------------------
(* A schema whose types are in another order claims the same names.        *)
Reorders(sc, sd, p) ==
  /\ DOMAIN sd.types = DOMAIN sc.types /\ sd.methods = sc.methods /\ sd.capability = sc.capability
  /\ \A i \in DOMAIN sc.types : p[i] \in DOMAIN sc.types /\ sd.types[i] = sc.types[p[i]]
  /\ \A i, j \in DOMAIN sc.types : p[i] = p[j] => i = j
  /\ \A j \in DOMAIN sc.types : \E i \in DOMAIN sc.types : p[i] = j

LEMMA ReordersBack ==
  ASSUME NEW sc, NEW sd, NEW p, Reorders(sc, sd, p)
  PROVE  \E q : Reorders(sd, sc, q)
<1> DEFINE I == DOMAIN sc.types
           q == [j \in I |-> CHOOSE i \in I : p[i] = j]
<1>1. \A j \in I : q[j] \in I /\ p[q[j]] = j
  BY DEF Reorders
<1>2. \A i \in I : p[i] \in I /\ q[p[i]] = i
  BY <1>1 DEF Reorders
<1> HIDE DEF q
<1>3. \A j \in I : sc.types[j] = sd.types[q[j]]
  <2>1. \A i \in I : sd.types[i] = sc.types[p[i]]
    BY DEF Reorders
  <2> HIDE DEF I, q
  <2> QED BY <1>1, <2>1
<1>4. \A i, j \in I : q[i] = q[j] => i = j
  BY <1>1
<1>5. \A j \in I : \E i \in I : q[i] = j
  BY <1>2
<1>6. DOMAIN sd.types = I /\ sd.methods = sc.methods /\ sd.capability = sc.capability
  BY DEF Reorders
<1> HIDE DEF I
<1>7. Reorders(sd, sc, q)
  BY <1>1, <1>3, <1>4, <1>5, <1>6 DEF Reorders, I
<1> QED BY <1>7

(* The claim of a schema that one of the other is.                         *)
Moved(y, p) == IF y.kind = "type" \/ y.k # 0 THEN Claim(y.kind, p[y.i], y.k, y.name) ELSE y

LEMMA ClaimsMoved ==
  ASSUME NEW sc, Loadable(sc), NEW sd, Loadable(sd), NEW p, Reorders(sc, sd, p), NEW y \in Claims(sd)
  PROVE  Moved(y, p) \in Claims(sc) /\ Moved(y, p).name = y.name
<1>0. DOMAIN sc.types = 1..Len(sc.types) /\ DOMAIN sd.types = 1..Len(sd.types)
  BY SchemaIs
<1>1. CASE y \in TypeClaims(sd)
  <2>1. PICK i \in DOMAIN sd.types : y = Claim("type", i, 0, sd.types[i].name)
    BY <1>1 DEF TypeClaims
  <2>2. Moved(y, p) = Claim("type", p[i], 0, sc.types[p[i]].name) /\ p[i] \in DOMAIN sc.types
    BY <2>1 DEF Moved, Claim, Reorders
  <2>3. Moved(y, p) \in Claims(sc)
    BY <2>2 DEF Claims, TypeClaims
  <2>4. sc.types[p[i]].name = sd.types[i].name
    BY <2>1 DEF Reorders
  <2> QED BY <2>1, <2>2, <2>3, <2>4 DEF Claim
<1>2. CASE y \in StandardClaims(sd)
  <2>1. PICK i \in DOMAIN sd.types : \E k \in DOMAIN sd.types[i].methods :
          y \in ClaimedBy(i, k, StandardPrefix(sd.types[i].name, sd.types[i].methods[k]))
    BY <1>2 DEF StandardClaims
  <2>2. PICK k \in DOMAIN sd.types[i].methods :
          y \in ClaimedBy(i, k, StandardPrefix(sd.types[i].name, sd.types[i].methods[k]))
    BY <2>1
  <2> DEFINE prefix == StandardPrefix(sd.types[i].name, sd.types[i].methods[k])
             j == p[i]
  <2>3. k # 0
    BY <1>0, <2>2, SchemaIs
  <2>4. sd.types[i] = sc.types[j] /\ j \in DOMAIN sc.types
    BY DEF Reorders
  <2>5. ClaimedBy(j, k, prefix) \subseteq Claims(sc)
    <3>1. k \in DOMAIN sc.types[j].methods /\ prefix = StandardPrefix(sc.types[j].name, sc.types[j].methods[k])
      BY <2>4
    <3> HIDE DEF prefix, j
    <3>2. ClaimedBy(j, k, prefix) \subseteq StandardClaims(sc)
      BY <2>4, <3>1 DEF StandardClaims
    <3> QED BY <3>2 DEF Claims
  <2> HIDE DEF prefix
  <2>6. y.k = k /\ y.i = i
    BY <2>2 DEF ClaimedBy, Claim
  <2>7. Moved(y, p) \in ClaimedBy(j, k, prefix) /\ Moved(y, p).name = y.name
    <3>1. y \in ClaimedBy(i, k, prefix)
      BY <2>2 DEF prefix
    <3>2. Moved(y, p) = Claim(y.kind, j, k, y.name)
      BY <2>3, <2>6 DEF Moved
    <3> HIDE DEF j
    <3>3. CASE y = Claim("arguments", i, k, ArgumentsName(prefix))
      BY <3>2, <3>3 DEF ClaimedBy, Claim
    <3>4. CASE y = Claim("response", i, k, ResponseName(prefix))
      BY <3>2, <3>4 DEF ClaimedBy, Claim
    <3> QED BY <3>1, <3>3, <3>4 DEF ClaimedBy
  <2> QED BY <2>5, <2>7
<1>3. CASE y \in OwnClaims(sd)
  <2>1. y \in Claims(sc)
    BY <1>3 DEF OwnClaims, Claims, Reorders
  <2>2. y.kind # "type" /\ y.k = 0
    BY <1>3 DEF OwnClaims, ClaimedBy, Claim
  <2> QED BY <2>1, <2>2 DEF Moved
<1> QED BY <1>1, <1>2, <1>3 DEF Claims

LEMMA MovedApart ==
  ASSUME NEW sc, NEW sd, Loadable(sd), NEW p, Reorders(sc, sd, p),
         NEW x \in Claims(sd), NEW y \in Claims(sd), Moved(x, p) = Moved(y, p)
  PROVE  x = y
<1>1. \A z \in Claims(sd) : /\ z = Claim(z.kind, z.i, z.k, z.name)
                            /\ (z.kind = "type" \/ z.k # 0) => z.i \in DOMAIN sc.types
  <2>0. /\ \A kind, i, k, name : LET z == Claim(kind, i, k, name) IN
             z.kind = kind /\ z.i = i /\ z.k = k /\ z.name = name
        /\ DOMAIN sd.types = DOMAIN sc.types
    BY DEF Claim, Reorders
  <2>1. ASSUME NEW z \in TypeClaims(sd) PROVE z = Claim(z.kind, z.i, z.k, z.name) /\ z.i \in DOMAIN sc.types
    <3>1. PICK i \in DOMAIN sd.types : z = Claim("type", i, 0, sd.types[i].name)
      BY DEF TypeClaims
    <3> QED BY <2>0, <3>1
  <2>2. ASSUME NEW z \in StandardClaims(sd) PROVE z = Claim(z.kind, z.i, z.k, z.name) /\ z.i \in DOMAIN sc.types
    <3>1. PICK i \in DOMAIN sd.types : \E k, prefix : z \in ClaimedBy(i, k, prefix)
      BY DEF StandardClaims
    <3>2. PICK k, prefix : z \in ClaimedBy(i, k, prefix)
      BY <3>1
    <3> QED BY <2>0, <3>2 DEF ClaimedBy
  <2>3. ASSUME NEW z \in OwnClaims(sd) PROVE z = Claim(z.kind, z.i, z.k, z.name) /\ z.kind # "type" /\ z.k = 0
    <3>1. PICK i, prefix : z \in ClaimedBy(i, 0, prefix)
      BY DEF OwnClaims
    <3> QED BY <2>0, <3>1 DEF ClaimedBy
  <2> QED BY <2>1, <2>2, <2>3 DEF Claims
<1>2. \A z \in Claims(sd) : Moved(z, p).kind = z.kind /\ Moved(z, p).k = z.k /\ Moved(z, p).name = z.name
                            /\ Moved(z, p).i = IF z.kind = "type" \/ z.k # 0 THEN p[z.i] ELSE z.i
  BY DEF Moved, Claim
<1>3. x.kind = y.kind /\ x.k = y.k /\ x.name = y.name
  BY <1>2
<1>4. x.i = y.i
  <2>1. CASE x.kind = "type" \/ x.k # 0
    <3>1. x.i \in DOMAIN sc.types /\ y.i \in DOMAIN sc.types
      BY <1>1, <1>3, <2>1
    <3>2. Moved(x, p).i = p[x.i] /\ Moved(y, p).i = p[y.i]
      BY <1>2, <1>3, <2>1
    <3>3. p[x.i] = p[y.i]
      BY <3>2
    <3>4. \A i, j \in DOMAIN sc.types : p[i] = p[j] => i = j
      BY DEF Reorders
    <3> QED BY <3>1, <3>3, <3>4, Zenon
  <2>2. CASE ~(x.kind = "type" \/ x.k # 0)
    BY <1>2, <1>3, <2>2
  <2> QED BY <2>1, <2>2
<1> QED BY <1>1, <1>3, <1>4

LEMMA ReorderedReserves ==
  ASSUME NEW a, NEW sc, Loadable(sc), NEW sd, Loadable(sd), NEW p, Reorders(sc, sd, p), ReserveNames(a, sc)
  PROVE  ReserveNames(a, sd)
<1>1. Range(sd.types) \subseteq Range(sc.types)
  <2> SUFFICES ASSUME NEW i \in DOMAIN sd.types PROVE sd.types[i] \in Range(sc.types)
    BY DEF Range
  <2>1. p[i] \in DOMAIN sc.types /\ sd.types[i] = sc.types[p[i]]
    BY DEF Reorders
  <2> QED BY <2>1 DEF Range
<1>2. MethodsNamed(a, sd)
  BY <1>1 DEF ReserveNames, MethodsNamed, Reorders
<1>3. ASSUME NEW x \in Claims(sd)
      PROVE  Unused(a, x.name) /\ \A y \in Claims(sd) : Written(x.name) = Written(y.name) => x = y
  <2>1. \A z \in Claims(sd) : Moved(z, p) \in Claims(sc) /\ Moved(z, p).name = z.name
    BY ClaimsMoved
  <2>2. Unused(a, x.name)
    BY <2>1 DEF ReserveNames
  <2>3. ASSUME NEW y \in Claims(sd), Written(x.name) = Written(y.name) PROVE x = y
    <3>1. Moved(x, p) = Moved(y, p)
      BY <2>1, <2>3 DEF ReserveNames
    <3> QED BY <3>1, MovedApart
  <2> QED BY <2>2, <2>3
<1> QED BY <1>2, <1>3 DEF ReserveNames

LEMMA OrderedIs ==
  ASSUME NEW sc \in Schemas, NEW p \in Bijection(DOMAIN sc.types, DOMAIN sc.types)
  PROVE  Reorders(sc, Ordered(sc, p), p) /\ Loadable(Ordered(sc, p)) /\ SameTypes(sc, Ordered(sc, p))
<1> DEFINE I == DOMAIN sc.types
           L == Len(sc.types)
           types == [i \in I |-> sc.types[p[i]]]
           sd == Ordered(sc, p)
<1>1. Loadable(sc) /\ {"types", "methods", "capability"} \subseteq DOMAIN sc
  BY SchemasAssumption DEF Loadable
<1>2. L \in Nat /\ I = 1..L
  BY <1>1, SchemaIs
<1>3. sd = [sc EXCEPT !.types = types]
  BY DEF Ordered
<1>4. sd.types = types /\ sd.methods = sc.methods /\ sd.capability = sc.capability
  <2> HIDE DEF types, sd
  <2> QED BY <1>1, <1>3
<1>5. /\ \A i \in I : p[i] \in I
      /\ \A i, j \in I : p[i] = p[j] => i = j
      /\ \A j \in I : \E i \in I : p[i] = j
  <2>1. p \in [I -> I] /\ IsInjective(p) /\ \A j \in I : \E i \in I : p[i] = j
    BY DEF Bijection, Injection, Surjection
  <2>2. DOMAIN p = I
    BY <2>1
  <2> HIDE DEF I
  <2> QED BY <2>1, <2>2 DEF IsInjective
<1>6. DOMAIN types = I /\ \A i \in I : types[i] = sc.types[p[i]]
  OBVIOUS
<1> HIDE DEF sd, types
<1>7. Reorders(sc, sd, p)
  BY <1>4, <1>5, <1>6 DEF Reorders
<1>8. Range(types) = Range(sc.types)
  <2>1. ASSUME NEW i \in I PROVE types[i] \in Range(sc.types)
    BY <1>5, <1>6 DEF Range
  <2>2. ASSUME NEW j \in I PROVE sc.types[j] \in Range(types)
    <3>1. PICK i \in I : p[i] = j
      BY <1>5
    <3> QED BY <1>6, <3>1 DEF Range
  <2>3. Range(types) = {types[i] : i \in I} /\ Range(sc.types) = {sc.types[i] : i \in I}
    BY <1>6 DEF Range
  <2> QED BY <2>1, <2>2, <2>3
<1>9. IsList(types) /\ Len(types) = L
  <2>1. types = [i \in 1..L |-> types[i]]
    BY <1>2 DEF types
  <2>2. \A i \in 1..L : types[i] \in Range(types)
    BY <1>2, <1>6 DEF Range
  <2> HIDE DEF L
  <2>3. types \in Seq(Range(types))
    BY <1>2, <2>1, <2>2
  <2>4. DOMAIN types = 1..Len(types) /\ Len(types) \in Nat /\ DOMAIN types = 1..L
    BY <1>2, <1>6, <2>3
  <2>5. Len(types) = L
    <3> DEFINE M == Len(types)
    <3>1. M \in Nat /\ L \in Nat /\ 1..M = 1..L
      BY <1>2, <2>4
    <3> HIDE DEF M
    <3>2. (M \in 1..M => M \in 1..L) /\ (L \in 1..L => L \in 1..M)
      BY <3>1
    <3>3. M = L
      BY <3>1, <3>2
    <3> QED BY <3>3 DEF M
  <2> QED BY <2>3, <2>5 DEF IsList
<1>10. Loadable(sd)
  BY <1>4, <1>8, <1>9 DEF Loadable
<1>11. SameTypes(sc, sd)
  BY <1>4, <1>8, <1>9 DEF SameTypes
<1> QED BY <1>7, <1>10, <1>11 DEF sd

-----------------------------------------------------------------------------
(* Loading a schema leaves a catalogue that is formed as one.              *)
LEMMA ArgumentsForm ==
  ASSUME NEW a, Formed(a), NEW type, NEW args
  PROVE  Formed(AddArguments(a, type, args))
<1> DEFINE c == AddArguments(a, type, args)
           more == AppendArguments(a, type, args)
<1>0. a.objects = [y \in DOMAIN a.objects |-> a.objects[y]] /\ a.methods = [n \in DOMAIN a.methods |-> a.methods[n]]
  BY DEF Formed, Loaded
<1>1. c \in {Refuse(a), Loaded(more, a.methods, a.status)}
  BY DEF AddArguments
<1>2. more = [y \in DOMAIN more |-> more[y]]
  BY DEF AppendArguments
<1> HIDE DEF c, more
<1>3. CASE c = Refuse(a)
  <2>1. /\ c = Loaded(a.objects, a.methods, "refused") /\ c.status = "refused"
        /\ c.objects = a.objects /\ c.methods = a.methods
    BY <1>3 DEF Refuse, Ended, Loaded
  <2>2. Formed(c)
    BY <1>0, <2>1 DEF Formed
  <2> QED BY <2>2 DEF c
<1>4. CASE c = Loaded(more, a.methods, a.status)
  <2>1. c.objects = more /\ c.methods = a.methods /\ c.status = a.status
    BY <1>4 DEF Loaded
  <2>2. Formed(c)
    BY <1>0, <1>2, <1>4, <2>1 DEF Formed
  <2> QED BY <2>2 DEF c
<1> QED BY <1>1, <1>3, <1>4

LEMMA RefusalForms == ASSUME NEW a, Formed(a) PROVE Formed(Refuse(a))
BY DEF Formed, Refuse, Ended, Loaded

LEMMA StepForms ==
  ASSUME NEW a, Formed(a), NEW sc, NEW n
  PROVE  Formed(ExtendStep(a, sc, n))
<1>1. \A t : Formed(AddSchemaType(a, t))
  BY TypeOnly
<1>2. ASSUME NEW t, NEW capability PROVE Formed(AddSchemaMethods(a, t, capability))
  <2> DEFINE b == RegisterStandard(a, t.name, Range(t.methods), capability)
  <2>1. Formed(b)
    <3>1. OwnNames(t) \subseteq OwnNames(t)
      OBVIOUS
    <3> QED BY <3>1, StandardOnly
  <2> HIDE DEF b
  <2>2. Formed(AddArguments(b, t.name, t.args))
    BY <2>1, ArgumentsForm
  <2>3. AddSchemaMethods(a, t, capability) \in {a, Refuse(a), b, AddArguments(b, t.name, t.args)}
    BY DEF AddSchemaMethods, b
  <2> QED BY <2>1, <2>2, <2>3, RefusalForms
<1>3. ASSUME NEW m PROVE Formed(AddSchemaMethod(a, m))
  <2> DEFINE name == MethodName(m.type, m.verb)
             prefix == TypeNamePrefix(m.type, m.verb)
             X == {ArgumentsName(prefix), ResponseName(prefix)}
  <2>1. AddSchemaMethod(a, m) \in {Refuse(a), AddMethod(a, name, prefix, m)}
    BY DEF AddSchemaMethod
  <2>2. name \in {name} /\ {ArgumentsName(prefix), ResponseName(prefix)} \subseteq X
    OBVIOUS
  <2> HIDE DEF name, prefix, X
  <2>3. Formed(AddMethod(a, name, prefix, m))
    BY <2>2, MethodOnly
  <2> QED BY <2>1, <2>3, RefusalForms
<1>4. \E t, capability, m : ExtendStep(a, sc, n) \in
        {a, AddSchemaType(a, t), AddSchemaMethods(a, t, capability), AddSchemaMethod(a, m)}
  <2>1. ExtendStep(a, sc, n) \in
          {a, AddSchemaType(a, sc.types[n]), AddSchemaMethods(a, sc.types[n - Len(sc.types)], sc.capability),
           AddSchemaMethod(a, sc.methods[n - 2 * Len(sc.types)])}
    BY DEF ExtendStep
  <2>2. CASE ExtendStep(a, sc, n) \in {a, AddSchemaType(a, sc.types[n])}
    BY <2>2
  <2>3. CASE ExtendStep(a, sc, n) \in {AddSchemaMethods(a, sc.types[n - Len(sc.types)], sc.capability),
                                       AddSchemaMethod(a, sc.methods[n - 2 * Len(sc.types)])}
    BY <2>3, Zenon
  <2> QED BY <2>1, <2>2, <2>3
<1> QED BY <1>1, <1>2, <1>3, <1>4

LEMMA ExtendForms ==
  ASSUME NEW a, Formed(a), NEW sc, Loadable(sc)
  PROVE  Formed(Extend(a, sc))
<1>1. CASE sc.capability \in Malformed \/ ~ReserveNames(a, sc)
  <2>1. Extend(a, sc) = Refuse(a)
    BY <1>1 DEF Extend
  <2> QED BY <2>1, RefusalForms
<1>2. CASE sc.capability \notin Malformed /\ ReserveNames(a, sc)
  <2> DEFINE S == Steps(sc)
  <2>1. PICK upTo : Loading(a, sc, S, upTo) /\ Extend(a, sc) = WithReferencesChecked(upTo[S])
    BY <1>2, ExtendIs
  <2>2. S \in Nat
    BY StepsIs
  <2> HIDE DEF S
  <2>3. upTo[0] = a /\ \A n \in 1..S : upTo[n] = ExtendStep(upTo[n - 1], sc, n)
    <3>1. upTo = [n \in 0..S |-> IF n = 0 THEN a ELSE ExtendStep(upTo[n - 1], sc, n)]
      BY <2>1 DEF Loading
    <3> QED BY <2>2, <3>1
  <2>4. Formed(upTo[S])
    <3> DEFINE Wrong == {n \in 0..S : ~Formed(upTo[n])}
    <3> SUFFICES ASSUME Wrong # {} PROVE FALSE
      BY <2>2
    <3>1. Wrong \subseteq Nat
      BY <2>2
    <3> HIDE DEF Wrong
    <3>2. PICK n \in Wrong : \A k \in Wrong : n <= k
      BY <3>1, LeastIn
    <3>3. n \in 0..S /\ ~Formed(upTo[n])
      BY DEF Wrong
    <3>4. n # 0
      BY <2>3, <3>3
    <3>5. n \in 1..S /\ n - 1 \in 0..S /\ ~(n <= n - 1)
      BY <2>2, <3>3, <3>4
    <3>6. n - 1 \notin Wrong
      BY <3>2, <3>5
    <3>7. Formed(upTo[n - 1])
      BY <3>5, <3>6 DEF Wrong
    <3>8. Formed(ExtendStep(upTo[n - 1], sc, n))
      BY <3>7, StepForms
    <3> QED BY <2>3, <3>3, <3>5, <3>8
  <2>5. WithReferencesChecked(upTo[S]) \in {upTo[S], Refuse(upTo[S])}
    BY DEF WithReferencesChecked
  <2> QED BY <2>1, <2>4, <2>5, RefusalForms
<1> QED BY <1>1, <1>2

(* The types of a schema may be written in any order: it is refused either *)
(* way, or comes to one catalogue (schema.go, Extend: first every type).   *)
THEOREM ExtendOrderFree ==
  ASSUME NEW a, a.status = "ok", Formed(a), Sound(a), AllLists(a),
         NEW sc \in Schemas, NEW p \in Bijection(DOMAIN sc.types, DOMAIN sc.types)
  PROVE  LET b == Extend(a, Ordered(sc, p))
         IN Extend(a, sc).status = b.status /\ (b.status = "ok" => Extend(a, sc) = b)
<1> DEFINE sd == Ordered(sc, p)
           b == Extend(a, sc)
           c == Extend(a, sd)
<1>1. Loadable(sc)
  BY SchemaLoadable
<1>2. Reorders(sc, sd, p) /\ Loadable(sd) /\ SameTypes(sc, sd)
  BY OrderedIs
<1>3. Holding(a)
  BY DEF Sound, Holding
<1> HIDE DEF sd
<1>4. ReserveNames(a, sc) <=> ReserveNames(a, sd)
  <2>1. PICK q : Reorders(sd, sc, q)
    BY <1>2, ReordersBack
  <2>2. ReserveNames(a, sc) => ReserveNames(a, sd)
    BY <1>1, <1>2, ReorderedReserves
  <2>3. ReserveNames(a, sd) => ReserveNames(a, sc)
    BY <1>1, <1>2, <2>1, ReorderedReserves
  <2> QED BY <2>2, <2>3
<1>5. sc.capability = sd.capability
  BY <1>2 DEF SameTypes
<1>6. b.status \in {"ok", "refused"} /\ c.status \in {"ok", "refused"}
  BY <1>1, <1>2, ExtendKeepsSound
<1>7. b = c \/ (b.status # "ok" /\ c.status # "ok")
  <2>1. CASE sc.capability \in Malformed \/ ~ReserveNames(a, sc)
    <3>1. b = Refuse(a) /\ c = Refuse(a)
      BY <1>4, <1>5, <2>1 DEF Extend
    <3> QED BY <3>1
  <2>2. CASE sc.capability \notin Malformed /\ ReserveNames(a, sc)
    <3>1. PICK f : Loading(a, sc, Steps(sc), f) /\ b = WithReferencesChecked(f[Steps(sc)])
      BY <1>1, <2>2, ExtendIs
    <3>2. PICK g : Loading(a, sd, Steps(sd), g) /\ c = WithReferencesChecked(g[Steps(sd)])
      BY <1>2, <1>4, <1>5, <2>2, ExtendIs
    <3>3. f[Steps(sc)] = g[Steps(sd)] \/ (f[Steps(sc)].status # "ok" /\ g[Steps(sd)].status # "ok")
      BY <1>1, <1>2, <1>3, <1>4, <2>2, <3>1, <3>2, ReorderedLoads
    <3>4. \A x : x.status # "ok" => WithReferencesChecked(x) = x
      BY DEF WithReferencesChecked
    <3> HIDE DEF b, c
    <3> QED BY <3>1, <3>2, <3>3, <3>4
  <2> QED BY <2>1, <2>2
<1> HIDE DEF b, c
<1>8. b.status = c.status /\ (c.status = "ok" => b = c)
  BY <1>6, <1>7
<1> QED BY <1>8 DEF b, c, sd

(* A catalogue comes of the schemas named so far, and is formed as one.    *)
OrderInv == schemas \in Seq(Schemas) /\ Formed(catalogue)

LEMMA OrderInvInit == ProjectInit => OrderInv
BY StandardAssumption DEF ProjectInit, OrderInv

LEMMA OrderInvStep == OrderInv /\ [ExtendCatalogue]_project => OrderInv'
<1> SUFFICES ASSUME OrderInv, [ExtendCatalogue]_project PROVE OrderInv'
  OBVIOUS
<1>1. CASE ExtendCatalogue
  <2>1. PICK sc \in Schemas : schemas' = Append(schemas, sc) /\ catalogue' = Extend(catalogue, sc)
    BY <1>1 DEF ExtendCatalogue
  <2>2. schemas' \in Seq(Schemas)
    BY <2>1 DEF OrderInv
  <2>3. Formed(Extend(catalogue, sc))
    BY SchemaLoadable, ExtendForms DEF OrderInv
  <2>4. Formed(catalogue')
    BY <2>1, <2>3
  <2> QED BY <2>2, <2>4 DEF OrderInv, Formed
<1>2. CASE UNCHANGED project
  BY <1>2 DEF project, OrderInv, Formed
<1> QED BY <1>1, <1>2

(* Whatever schemas a project names: the order each one's types are        *)
(* written in decides nothing.                                             *)
THEOREM OrderFree == ProjectSpec => SchemaOrderFree
<1> DEFINE SameInAnyOrder(sc) ==
             \A p \in Bijection(DOMAIN sc.types, DOMAIN sc.types) :
               LET b == Extend(catalogue, Ordered(sc, p))
               IN catalogue'.status = b.status /\ (b.status = "ok" => catalogue' = b)
<1>1. CatalogueInv /\ OrderInv /\ [ExtendCatalogue]_project =>
        [\A sc \in Schemas : schemas' = Append(schemas, sc) => SameInAnyOrder(sc)]_project
  <2> SUFFICES ASSUME CatalogueInv, OrderInv, ExtendCatalogue, NEW sc \in Schemas, schemas' = Append(schemas, sc)
               PROVE  SameInAnyOrder(sc)
    BY DEF project
  <2>1. PICK named \in Schemas : schemas' = Append(schemas, named) /\ catalogue' = Extend(catalogue, named)
    BY DEF ExtendCatalogue
  <2>2. sc = named
    <3>1. schemas \in Seq(Schemas) /\ Append(schemas, sc) = Append(schemas, named)
      BY <2>1 DEF OrderInv
    <3>2. Append(schemas, sc)[Len(schemas) + 1] = sc /\ Append(schemas, named)[Len(schemas) + 1] = named
      BY <3>1
    <3> QED BY <3>1, <3>2
  <2>3. catalogue' = Extend(catalogue, sc)
    BY <2>1, <2>2
  <2>4. catalogue.status = "ok" /\ Sound(catalogue) /\ AllLists(catalogue) /\ Formed(catalogue)
    BY DEF ExtendCatalogue, CatalogueInv, OrderInv
  <2> QED BY <2>3, <2>4, ExtendOrderFree
<1> QED BY <1>1, CatalogueInvInit, CatalogueInvStep, OrderInvInit, OrderInvStep, PTL DEF ProjectSpec, SchemaOrderFree
=============================================================================
