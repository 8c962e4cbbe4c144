-------------------------- MODULE EventStreamProofs --------------------------
(***************************************************************************)
(* Proofs about one event stream after another: for any kinds of event,    *)
(* any number of events, pings and streams, and any cuts.                  *)
(***************************************************************************)
EXTENDS EventStream, TLAPS

------------------------------------------------------------------------------
(* The inductive invariant.  What has been told is known at every place    *)
(* among the lines, so it says that the lines not read yet lead, each from *)
(* the one before, from where the reader is to where the server is.        *)

(* A place among the lines of a stream: of events and pings, `of` is the   *)
(* last event begun, and pos how many lines of an event or a ping have     *)
(* come, 0 where all have.                                                 *)
Places == [of : Nat, in : {"event", "ping"}, pos : 0..3]

(* What the server may be sending there.                                   *)
Sending(m) == IF m.in = "ping" THEN {PingLines(i) : i \in Intervals} ELSE {Lines(events[m.of], m.of)}

(* A place the server has come to.                                         *)
Reached(l) ==
  /\ l.of < next
  /\ l.pos > 0 /\ l.in = "event" => l.of >= 1
  /\ l.pos > 0 => \A b \in Sending(l) : l.pos < Len(b)

(* The line w leads from one place to the next.                            *)
Leads(l, w, m) ==
  /\ IF l.pos = 0 THEN m.of = (IF m.in = "ping" THEN l.of ELSE l.of + 1)
                  ELSE m.of = l.of /\ m.in = l.in
  /\ \E b \in Sending(m) : /\ w = b[l.pos + 1]
                           /\ m.pos = IF l.pos + 1 = Len(b) THEN 0 ELSE l.pos + 1

(* What Next has gathered there: of an event, the name its first line may  *)
(* give, and its number once its data has come.                            *)
NameIn(b) == IF b[1][1] = "event" THEN b[1][2] ELSE NoName

DataIn(b, pos, k) == IF \E p \in 1..pos : b[p][1] = "data" THEN k ELSE NoData

Gathered(l) ==
  /\ l.pos = 0 => name = NoName /\ data = NoData
  /\ l.pos > 0 /\ l.in = "ping" => name = "ping"
  /\ l.pos > 0 /\ l.in = "event" => /\ name = NameIn(Lines(events[l.of], l.of))
                                    /\ data = DataIn(Lines(events[l.of], l.of), l.pos, l.of)

(* An event is under way there, which Next cannot have told of yet.        *)
UnderWay(l, k) == k = l.of /\ l.in = "event" /\ l.pos > 0

(* Where the reader is: it has told of all before.                         *)
ReaderAt(l) ==
  /\ pendingID <= l.of
  /\ \A k \in 1..l.of : Due(k) /\ ~UnderWay(l, k) => k \in told
  /\ pc = "idle" => l.pos = 0
  /\ pc = "reading" => Gathered(l)

(* The lines on the wire lead on from where the reader is, to where the    *)
(* server is unless the end was cut off.                                   *)
Framed(at) ==
  /\ at \in [0..Len(wire) -> Places]
  /\ \A i \in 0..Len(wire) : Reached(at[i])
  /\ \A i \in 1..Len(wire) : Leads(at[i - 1], wire[i], at[i])
  /\ ~cut => at[Len(wire)].pos = 0 /\ at[Len(wire)].of = next - 1
  /\ ReaderAt(at[0])

WireLines == {"id", "event", "data", "blank"} \X (Nat \cup {"state", "other", "ping"} \cup Intervals)

Types ==
  /\ events \in Seq(Kinds)
  /\ next \in 1..(Len(events) + 1)
  /\ lastEventID \in 0..Len(events) /\ pendingID \in Nat
  /\ told \subseteq 1..Len(events)
  /\ wire \in Seq(WireLines)

IInv ==
  /\ Types
  /\ NothingSkipped
  /\ NoGap
  /\ \E at \in [0..Len(wire) -> Places] : Framed(at)

------------------------------------------------------------------------------
\* The lines of an event.

EveryKind == {"state", "late", "bare", "bad", "other", "keep"}

LEMMA Shape ==
  ASSUME NEW kind \in EveryKind, NEW k \in Nat, NEW b, b = Lines(kind, k)
  PROVE  /\ b \in Seq(WireLines) /\ Len(b) \in 2..4
         /\ \A p \in 1..Len(b) :
              /\ b[p][1] \in {"id", "event", "data", "blank"}
              /\ b[p][1] = "blank" <=> p = Len(b)
              /\ b[p][1] \in {"id", "data"} => b[p][2] = k
              /\ b[p][1] = "event" => p = 1
         /\ kind \in {"state", "late", "bare", "bad"} =>
              /\ b[1][1] = "event" => b[1][2] = "state"
              /\ \E p \in 1..(Len(b) - 1) : b[p][1] = "data"
         /\ kind \in {"other", "keep"} => b[1] = <<"event", "other">>
<1> DEFINE id == <<"id", k>>
           body == <<"data", k>>
           blank == <<"blank", 0>>
           state == <<"event", "state">>
           other == <<"event", "other">>
<1>0. \A x : Lines(x, k) =
        CASE x \in {"state", "bad"} -> <<id, body, blank>>
          [] x = "late"  -> <<state, body, id, blank>>
          [] x = "bare"  -> <<body, blank>>
          [] x = "other" -> <<other, id, body, blank>>
          [] x = "keep"  -> <<other, id, blank>>
  BY DEF Lines
<1>1. id \in WireLines /\ body \in WireLines /\ blank \in WireLines /\ state \in WireLines
        /\ other \in WireLines
  BY DEF WireLines
<1>2. /\ id[1] = "id" /\ id[2] = k /\ body[1] = "data" /\ body[2] = k /\ blank[1] = "blank"
      /\ state[1] = "event" /\ state[2] = "state" /\ other[1] = "event"
      /\ other = <<"event", "other">>
  OBVIOUS
<1> HIDE DEF id, body, blank, state, other
<1>3. CASE kind \in {"state", "bad"}
  <2>1. b = <<id, body, blank>>
    BY <1>3, <1>0
  <2>2. b \in Seq(WireLines) /\ Len(b) = 3
    BY <1>1, <2>1
  <2>3. b[1] = id /\ b[2] = body /\ b[3] = blank
    BY <2>1
  <2>4. \A p \in 1..3 : p = 1 \/ p = 2 \/ p = 3
    OBVIOUS
  <2>5. \A p \in 1..Len(b) :
          /\ b[p][1] \in {"id", "event", "data", "blank"}
          /\ b[p][1] = "blank" <=> p = Len(b)
          /\ b[p][1] \in {"id", "data"} => b[p][2] = k
          /\ b[p][1] = "event" => p = 1
    BY <1>2, <2>2, <2>3, <2>4
  <2>6. \E p \in 1..(Len(b) - 1) : b[p][1] = "data"
    BY <1>2, <2>2, <2>3
  <2> QED BY <1>3, <1>2, <2>2, <2>3, <2>5, <2>6
<1>4. CASE kind = "late"
  <2>1. b = <<state, body, id, blank>>
    BY <1>4, <1>0
  <2>2. b \in Seq(WireLines) /\ Len(b) = 4
    BY <1>1, <2>1
  <2>3. b[1] = state /\ b[2] = body /\ b[3] = id /\ b[4] = blank
    BY <2>1
  <2>4. \A p \in 1..4 : p = 1 \/ p = 2 \/ p = 3 \/ p = 4
    OBVIOUS
  <2>5. \A p \in 1..Len(b) :
          /\ b[p][1] \in {"id", "event", "data", "blank"}
          /\ b[p][1] = "blank" <=> p = Len(b)
          /\ b[p][1] \in {"id", "data"} => b[p][2] = k
          /\ b[p][1] = "event" => p = 1
    BY <1>2, <2>2, <2>3, <2>4
  <2>6. \E p \in 1..(Len(b) - 1) : b[p][1] = "data"
    BY <1>2, <2>2, <2>3
  <2> QED BY <1>4, <1>2, <2>2, <2>3, <2>5, <2>6
<1>5. CASE kind = "bare"
  <2>1. b = <<body, blank>>
    BY <1>5, <1>0
  <2>2. b \in Seq(WireLines) /\ Len(b) = 2
    BY <1>1, <2>1
  <2>3. b[1] = body /\ b[2] = blank
    BY <2>1
  <2>4. \A p \in 1..2 : p = 1 \/ p = 2
    OBVIOUS
  <2>5. \A p \in 1..Len(b) :
          /\ b[p][1] \in {"id", "event", "data", "blank"}
          /\ b[p][1] = "blank" <=> p = Len(b)
          /\ b[p][1] \in {"id", "data"} => b[p][2] = k
          /\ b[p][1] = "event" => p = 1
    BY <1>2, <2>2, <2>3, <2>4
  <2>6. \E p \in 1..(Len(b) - 1) : b[p][1] = "data"
    BY <1>2, <2>2, <2>3
  <2> QED BY <1>5, <1>2, <2>2, <2>3, <2>5, <2>6
<1>6. CASE kind = "other"
  <2>1. b = <<other, id, body, blank>>
    BY <1>6, <1>0
  <2>2. b \in Seq(WireLines) /\ Len(b) = 4
    BY <1>1, <2>1
  <2>3. b[1] = other /\ b[2] = id /\ b[3] = body /\ b[4] = blank
    BY <2>1
  <2>4. \A p \in 1..4 : p = 1 \/ p = 2 \/ p = 3 \/ p = 4
    OBVIOUS
  <2>5. \A p \in 1..Len(b) :
          /\ b[p][1] \in {"id", "event", "data", "blank"}
          /\ b[p][1] = "blank" <=> p = Len(b)
          /\ b[p][1] \in {"id", "data"} => b[p][2] = k
          /\ b[p][1] = "event" => p = 1
    BY <1>2, <2>2, <2>3, <2>4
  <2>6. \E p \in 1..(Len(b) - 1) : b[p][1] = "data"
    BY <1>2, <2>2, <2>3
  <2> QED BY <1>6, <1>2, <2>2, <2>3, <2>5, <2>6
<1>7. CASE kind = "keep"
  <2>1. b = <<other, id, blank>>
    BY <1>7, <1>0
  <2>2. b \in Seq(WireLines) /\ Len(b) = 3
    BY <1>1, <2>1
  <2>3. b[1] = other /\ b[2] = id /\ b[3] = blank
    BY <2>1
  <2>4. \A p \in 1..3 : p = 1 \/ p = 2 \/ p = 3
    OBVIOUS
  <2>5. \A p \in 1..Len(b) :
          /\ b[p][1] \in {"id", "event", "data", "blank"}
          /\ b[p][1] = "blank" <=> p = Len(b)
          /\ b[p][1] \in {"id", "data"} => b[p][2] = k
          /\ b[p][1] = "event" => p = 1
    BY <1>2, <2>2, <2>3, <2>4
  <2> QED BY <1>7, <1>2, <2>2, <2>3, <2>5
<1> QED BY <1>3, <1>4, <1>5, <1>6, <1>7 DEF EveryKind

LEMMA PingShape ==
  ASSUME NEW i \in Intervals, NEW b, b = PingLines(i)
  PROVE  /\ b \in Seq(WireLines) /\ Len(b) = 3
         /\ b[1] = <<"event", "ping">> /\ b[2][1] = "data" /\ b[3][1] = "blank"
  BY DEF PingLines, WireLines

LEMMA Typed ==
  ASSUME IInv
  PROVE  /\ events \in Seq(Kinds) /\ Len(events) \in Nat
         /\ next \in Nat \ {0} /\ next <= Len(events) + 1
         /\ lastEventID \in Nat /\ lastEventID <= Len(events) /\ pendingID \in Nat
         /\ told \subseteq 1..Len(events)
         /\ wire \in Seq(WireLines) /\ Len(wire) \in Nat
<1>1. Types
  BY DEF IInv
<1> QED BY <1>1 DEF Types

LEMMA KindOf ==
  ASSUME IInv, NEW k \in 1..(next - 1)
  PROVE  k \in 1..Len(events) /\ events[k] \in EveryKind
<1>1. k \in 1..Len(events)
  BY Typed
<1>2. events[k] \in Kinds
  BY <1>1, Typed
<1> QED BY <1>1, <1>2, KindsAssumption DEF EveryKind

------------------------------------------------------------------------------

LEMMA InitInv == Init => IInv
<1> SUFFICES ASSUME Init PROVE IInv
  OBVIOUS
<1> DEFINE start == [of |-> 0, in |-> "event", pos |-> 0]
           at == [i \in 0..0 |-> start]
<1>1. Types /\ NothingSkipped /\ NoGap /\ Len(wire) = 0
  BY DEF Init, Types, NothingSkipped, NoGap
<1>2. start \in Places /\ start.of = 0 /\ start.in = "event" /\ start.pos = 0
  BY DEF Places
<1>3. at[0] = start /\ at \in [0..Len(wire) -> Places]
  BY <1>1, <1>2
<1>4. Reached(start) /\ ReaderAt(start) /\ start.of = next - 1
  BY <1>2 DEF Init, Reached, ReaderAt
<1> HIDE DEF start, at
<1>5. Framed(at)
  BY <1>1, <1>2, <1>3, <1>4 DEF Framed
<1> QED BY <1>1, <1>3, <1>5 DEF IInv

(* Where no line is sent, read or lost.                                    *)
LEMMA Beside ==
  ASSUME IInv, UNCHANGED <<events, next, wire, cut, lastEventID, pendingID, told>>,
         \A l \in Places : Reached(l) /\ ReaderAt(l) => ReaderAt(l)'
  PROVE  IInv'
<1>1. Types' /\ NothingSkipped' /\ NoGap'
  BY DEF IInv, Types, NothingSkipped, NoGap, Due
<1>2. PICK at \in [0..Len(wire) -> Places] : Framed(at)
  BY DEF IInv
<1>3. at[0] \in Places /\ Reached(at[0]) /\ ReaderAt(at[0])
  BY <1>2 DEF Framed, IInv, Types
<1>4. ReaderAt(at[0])'
  BY <1>3
<1>5. \A l \in Places : Reached(l) => Reached(l)'
  BY DEF Reached, Sending
<1>6. \A l, m, w : Leads(l, w, m) => Leads(l, w, m)'
  BY DEF Leads, Sending
<1>7. Framed(at)'
  BY <1>2, <1>4, <1>5, <1>6 DEF Framed
<1> QED BY <1>1, <1>2, <1>7 DEF IInv

(* The end of the wire is lost.                                            *)
LEMMA CutShort ==
  ASSUME IInv, NEW n \in 0..Len(wire), wire' = SubSeq(wire, 1, n), cut' = TRUE,
         UNCHANGED <<events, next, lastEventID, pendingID, told>>,
         \A l \in Places : Reached(l) /\ ReaderAt(l) => ReaderAt(l)'
  PROVE  IInv'
<1>1. wire' \in Seq(WireLines) /\ Len(wire') = n /\ \A i \in 1..n : wire'[i] = wire[i]
  BY DEF IInv, Types
<1>2. Types' /\ NothingSkipped' /\ NoGap'
  BY <1>1 DEF IInv, Types, NothingSkipped, NoGap, Due
<1>3. PICK at \in [0..Len(wire) -> Places] : Framed(at)
  BY DEF IInv
<1> DEFINE ahead == [i \in 0..n |-> at[i]]
<1>4. /\ ahead \in [0..n -> Places]
      /\ \A i \in 0..n : ahead[i] = at[i] /\ at[i] \in Places /\ i \in 0..Len(wire)
  <2>1. n \in Nat /\ \A i \in 0..n : i \in 0..Len(wire)
    BY Typed
  <2>2. \A i \in 0..n : at[i] \in Places
    BY <2>1
  <2> QED BY <2>1, <2>2
<1> HIDE DEF ahead
<1>5. ReaderAt(ahead[0])'
  <2>1. 0 \in 0..n /\ 0 \in 0..Len(wire)
    BY Typed
  <2>2. Reached(at[0]) /\ ReaderAt(at[0])
    BY <1>3, <2>1 DEF Framed
  <2> QED BY <1>4, <2>1, <2>2
<1>6. \A i \in 0..n : Reached(ahead[i])'
  <2> SUFFICES ASSUME NEW i \in 0..n PROVE Reached(ahead[i])'
    OBVIOUS
  <2>1. Reached(at[i]) /\ ahead[i] = at[i]
    BY <1>3, <1>4 DEF Framed
  <2> QED BY <2>1 DEF Reached, Sending
<1>7. \A i \in 1..n : Leads(ahead[i - 1], wire[i], ahead[i])'
  <2> SUFFICES ASSUME NEW i \in 1..n PROVE Leads(ahead[i - 1], wire[i], ahead[i])'
    OBVIOUS
  <2>0. i - 1 \in 0..n /\ i \in 0..n /\ i \in 1..Len(wire)
    BY Typed
  <2>1. Leads(at[i - 1], wire[i], at[i])
    BY <1>3, <2>0 DEF Framed
  <2>2. ahead[i - 1] = at[i - 1] /\ ahead[i] = at[i] /\ wire'[i] = wire[i]
    BY <1>1, <1>4, <2>0
  <2> QED BY <2>1, <2>2 DEF Leads, Sending
<1>8. Framed(ahead)'
  BY <1>1, <1>4, <1>5, <1>6, <1>7 DEF Framed
<1> QED BY <1>1, <1>2, <1>4, <1>8 DEF IInv

(* The lines b are sent, of an event or a ping.                            *)
Sent(in, of, b, size) ==
  /\ ~cut /\ ~cut'
  /\ in \in {"event", "ping"} /\ of \in Nat /\ size \in 2..4
  /\ of = (IF in = "ping" THEN next - 1 ELSE next) /\ next' = of + 1
  /\ b \in Seq(WireLines) /\ Len(b) = size /\ wire' = wire \o b
  /\ \A m \in Places : m.of = of /\ m.in = in =>
       b \in Sending(m)' /\ \A c \in Sending(m)' : Len(c) = size

LEMMA LinesSent ==
  ASSUME IInv, NEW in, NEW of, NEW b, NEW size, Sent(in, of, b, size),
         \A m \in Places : m.in = "ping" \/ m.of \in 1..(next - 1) => Sending(m)' = Sending(m),
         \A l \in Places : Reached(l) /\ ReaderAt(l) => ReaderAt(l)'
  PROVE  \E at \in [0..Len(wire') -> Places] : Framed(at)'
<1> USE DEF Sent
<1>1. PICK at \in [0..Len(wire) -> Places] : Framed(at)
  BY DEF IInv
<1> PICK n \in Nat : n = Len(wire)
  BY Typed
<1> DEFINE place(p) == [of |-> of, in |-> in, pos |-> p]
           ahead == [i \in 0..(n + size) |->
                       IF i <= n THEN at[i] ELSE place(IF i = n + size THEN 0 ELSE i - n)]
<1>2. /\ n \in Nat /\ next \in Nat \ {0} /\ Len(wire') = n + size
      /\ \A i \in 1..n : wire'[i] = wire[i]
      /\ \A i \in (n + 1)..(n + size) : wire'[i] = b[i - n]
  BY Typed
<1>3. \A p \in 0..3 : place(p) \in Places /\ place(p).of = of /\ place(p).in = in /\ place(p).pos = p
  BY DEF Places
<1>4. /\ \A i \in 0..n : ahead[i] = at[i]
      /\ \A i \in (n + 1)..(n + size) : ahead[i] = place(IF i = n + size THEN 0 ELSE i - n)
  BY <1>2
<1>5. /\ \A i \in 0..(n + size) : i \in 0..n \/ i \in (n + 1)..(n + size)
      /\ \A i \in (n + 1)..(n + size) : (IF i = n + size THEN 0 ELSE i - n) \in 0..3
  <2>1. ASSUME NEW i \in (n + 1)..(n + size) PROVE (IF i = n + size THEN 0 ELSE i - n) \in 0..3
    <3>1. CASE i = n + size
      BY <3>1
    <3>2. CASE i # n + size
      <4>1. i - n \in 0..3
        BY <3>2
      <4> QED BY <3>2, <4>1
    <3> QED BY <3>1, <3>2
  <2>2. \A i \in 0..(n + size) : i \in 0..n \/ i \in (n + 1)..(n + size)
    OBVIOUS
  <2> QED BY <2>1, <2>2
<1>6. ahead \in [0..(n + size) -> Places]
  <2>1. \A i \in 0..n : at[i] \in Places
    OBVIOUS
  <2>2. \A i \in (n + 1)..(n + size) : place(IF i = n + size THEN 0 ELSE i - n) \in Places
    BY <1>3, <1>5
  <2> HIDE DEF place
  <2> QED BY <1>5, <2>1, <2>2
<1> HIDE DEF ahead
<1>7. /\ \A i \in 0..n : at[i] \in Places /\ Reached(at[i])
      /\ \A i \in 1..n : Leads(at[i - 1], wire[i], at[i])
      /\ at[n].pos = 0 /\ at[n].of = next - 1 /\ ReaderAt(at[0])
  BY <1>1 DEF Framed
<1>8. ReaderAt(ahead[0])'
  BY <1>2, <1>4, <1>7
<1>9. \A i \in 0..(n + size) : Reached(ahead[i])'
  <2>1. ASSUME NEW i \in 0..n PROVE Reached(at[i])'
    <3>1. at[i].pos > 0 => Sending(at[i])' = Sending(at[i])
      BY <1>2, <1>7 DEF Reached, Places
    <3> QED BY <1>2, <1>7, <3>1 DEF Reached, Places
  <2>2. ASSUME NEW i \in (n + 1)..(n + size) PROVE Reached(ahead[i])'
    <3> DEFINE p == IF i = n + size THEN 0 ELSE i - n
    <3>1. p \in 0..3 /\ p < size /\ ahead[i] = place(p)
      BY <1>2, <1>4, <1>5
    <3> HIDE DEF p
    <3>2. \A c \in Sending(place(p))' : p < Len(c)
      BY <1>3, <3>1
    <3> QED BY <1>2, <1>3, <3>1, <3>2 DEF Reached
  <2> QED BY <1>4, <1>5, <2>1, <2>2
<1>10. \A i \in 1..(n + size) : Leads(ahead[i - 1], wire[i], ahead[i])'
  <2>1. ASSUME NEW i \in 1..n PROVE Leads(at[i - 1], wire[i], at[i])'
    <3>1. at[i] \in Places /\ at[i - 1] \in Places /\ i - 1 \in 0..n /\ Leads(at[i - 1], wire[i], at[i])
      <4>1. i \in 0..n /\ i - 1 \in 0..n
        OBVIOUS
      <4> QED BY <1>7, <4>1
    <3>2. at[i].in = "ping" \/ at[i].of \in 1..(next - 1)
      BY <1>2, <1>7, <3>1 DEF Reached, Leads, Places
    <3>3. Sending(at[i])' = Sending(at[i])
      BY <3>1, <3>2
    <3> QED BY <3>1, <3>3 DEF Leads
  <2>2. ASSUME NEW i \in (n + 1)..(n + size) PROVE Leads(ahead[i - 1], wire[i], ahead[i])'
    <3> DEFINE p == IF i = n + size THEN 0 ELSE i - n
    <3>1. p \in 0..3 /\ ahead[i] = place(p) /\ wire'[i] = b[i - n]
      BY <1>2, <1>4, <1>5
    <3>2. b \in Sending(place(p))'
      BY <1>3, <3>1
    <3>3. CASE i = n + 1
      <4>1. i - 1 = n /\ i - 1 \in 0..n /\ i - n = 1 /\ i # n + size /\ p = 1
        BY <3>3
      <4>2. ahead[i - 1] = at[n]
        BY <1>4, <4>1
      <4> HIDE DEF p
      <4>3. /\ at[n].pos = 0 /\ at[n].pos + 1 = 1 /\ at[n].of = next - 1
            /\ place(p).pos = 1 /\ place(p).of = of /\ place(p).in = in
        BY <1>3, <1>7, <3>1, <4>1
      <4> HIDE DEF place
      <4>4. place(p).of = (IF place(p).in = "ping" THEN at[n].of ELSE at[n].of + 1)
        BY <1>2, <4>3
      <4>5. wire'[i] = b[at[n].pos + 1] /\ at[n].pos + 1 # Len(b) /\ place(p).pos = at[n].pos + 1
        BY <3>1, <4>1, <4>3
      <4>6. Leads(at[n], wire[i], place(p))'
        BY <3>2, <4>3, <4>4, <4>5 DEF Leads
      <4> QED BY <3>1, <4>2, <4>6
    <3>4. CASE i > n + 1
      <4>0. /\ i - 1 \in (n + 1)..(n + size) /\ i - 1 # n + size /\ i - 1 - n \in 1..3
            /\ p = (IF i - n = size THEN 0 ELSE i - n)
        BY <3>4
      <4>1. ahead[i - 1] = place(i - 1 - n)
        BY <1>4, <4>0
      <4> HIDE DEF p
      <4>2. place(i - 1 - n).pos = i - 1 - n /\ place(i - 1 - n).of = of /\ place(i - 1 - n).in = in
        BY <1>3, <4>0
      <4>3. /\ place(p).pos = p /\ place(p).of = of /\ place(p).in = in
            /\ i - 1 - n + 1 = i - n /\ i - 1 - n # 0
        BY <1>3, <3>1, <4>0
      <4> QED BY <3>1, <3>2, <4>0, <4>1, <4>2, <4>3 DEF Leads
    <3> QED BY <3>3, <3>4
  <2>3. \A i \in 1..n : i \in 0..n /\ i - 1 \in 0..n
    OBVIOUS
  <2>4. \A i \in 1..(n + size) : i \in 1..n \/ i \in (n + 1)..(n + size)
    OBVIOUS
  <2> QED BY <1>4, <2>1, <2>2, <2>3, <2>4
<1>11. ahead[n + size] = place(0)
  <2>1. n + size \in (n + 1)..(n + size)
    OBVIOUS
  <2> QED BY <1>4, <2>1
<1>12. Framed(ahead)'
  BY <1>2, <1>3, <1>6, <1>8, <1>9, <1>10, <1>11 DEF Framed
<1> QED BY <1>2, <1>6, <1>12

LEMMA ServerSendsInv == ASSUME IInv, ServerSends PROVE IInv'
<1>1. /\ ~cut /\ next' = next + 1
      /\ UNCHANGED <<cut, lastEventID, pendingID, told, name, data, pc>>
  BY DEF ServerSends
<1>2. PICK kind \in Kinds :
        /\ next <= Len(events) => kind = events[next]
        /\ events' = IF next <= Len(events) THEN events ELSE Append(events, kind)
        /\ wire' = wire \o Lines(kind, next)
  BY DEF ServerSends
<1>3. /\ next \in Nat \ {0} /\ events' \in Seq(Kinds) /\ events'[next] = kind /\ next \in 1..Len(events')
      /\ \A k \in 1..Len(events) : k \in 1..Len(events') /\ events'[k] = events[k]
  BY <1>2 DEF IInv, Types
<1> PICK b : b = Lines(kind, next)
  OBVIOUS
<1>4. b \in Seq(WireLines) /\ Len(b) \in 2..4
  BY <1>3, Shape, KindsAssumption DEF EveryKind
<1>5. wire' \in Seq(WireLines)
  BY <1>2, <1>4 DEF IInv, Types
<1>6. \A k \in 1..Len(events) : Due(k)' <=> Due(k)
  BY <1>3 DEF Due
<1>7. Types' /\ NothingSkipped' /\ NoGap'
  <2>1. Types'
    BY <1>1, <1>3, <1>5 DEF IInv, Types
  <2>2. NothingSkipped'
    BY <1>1, <1>6 DEF IInv, Types, NothingSkipped
  <2>3. NoGap'
    BY <1>1, <1>6 DEF IInv, Types, NoGap
  <2> QED BY <2>1, <2>2, <2>3
<1>8. \A m \in Places : m.of = next /\ m.in = "event" => Sending(m)' = {b}
  BY <1>3 DEF Sending
<1>9. \A m \in Places : m.in = "ping" \/ m.of \in 1..(next - 1) => Sending(m)' = Sending(m)
  <2>1. \A k \in 1..(next - 1) : events'[k] = events[k]
    BY <1>3, Typed
  <2> QED BY <2>1 DEF Sending
<1>10. ASSUME NEW l \in Places, Reached(l), ReaderAt(l) PROVE ReaderAt(l)'
  <2>1. l.of \in Nat /\ l.of <= Len(events) /\ (l.pos > 0 /\ l.in = "event" => l.of >= 1)
    BY <1>10 DEF Reached, Places, IInv, Types
  <2>2. \A k \in 1..l.of : Due(k)' <=> Due(k)
    BY <1>6, <2>1 DEF IInv, Types
  <2>3. Gathered(l) => Gathered(l)'
    BY <1>1, <1>3, <2>1 DEF Gathered, Places, IInv, Types
  <2> QED BY <1>1, <1>10, <2>2, <2>3 DEF ReaderAt, UnderWay
<1>11. \E at \in [0..Len(wire') -> Places] : Framed(at)'
  <2>1. /\ "event" \in {"event", "ping"} /\ next \in Nat /\ Len(b) \in 2..4
        /\ next = (IF "event" = "ping" THEN next - 1 ELSE next)
    BY <1>3, <1>4
  <2>2. \A m \in Places : m.of = next /\ m.in = "event" =>
          b \in Sending(m)' /\ \A c \in Sending(m)' : Len(c) = Len(b)
    BY <1>8
  <2>3. Sent("event", next, b, Len(b))
    BY <1>1, <1>2, <1>4, <2>1, <2>2 DEF Sent
  <2> QED BY <1>9, <1>10, <2>3, LinesSent
<1> QED BY <1>7, <1>11 DEF IInv

LEMMA ServerPingsInv == ASSUME IInv, ServerPings PROVE IInv'
<1>1. ~cut /\ UNCHANGED <<events, next, cut, lastEventID, pendingID, told, name, data, pc>>
  BY DEF ServerPings
<1>2. PICK i \in Intervals : wire' = wire \o PingLines(i)
  BY DEF ServerPings
<1> PICK b : b = PingLines(i)
  OBVIOUS
<1>3. b \in Seq(WireLines) /\ Len(b) = 3
  BY PingShape
<1>4. Types' /\ NothingSkipped' /\ NoGap'
  BY <1>1, <1>2, <1>3 DEF IInv, Types, NothingSkipped, NoGap, Due
<1>5. \A m : Sending(m)' = Sending(m)
  BY <1>1 DEF Sending
<1>6. \A m \in Places : m.in = "ping" => b \in Sending(m) /\ \A c \in Sending(m) : Len(c) = 3
  BY PingShape DEF Sending
<1>7. \A l \in Places : ReaderAt(l) => ReaderAt(l)'
  BY <1>1 DEF ReaderAt, UnderWay, Gathered, Due
<1>8. next - 1 \in Nat /\ next' = (next - 1) + 1
  BY <1>1 DEF IInv, Types
<1>9. \E at \in [0..Len(wire') -> Places] : Framed(at)'
  <2>1. /\ "ping" \in {"event", "ping"} /\ Len(b) \in 2..4
        /\ next - 1 = (IF "ping" = "ping" THEN next - 1 ELSE next)
    BY <1>3
  <2>2. \A m \in Places : m.of = next - 1 /\ m.in = "ping" =>
          b \in Sending(m)' /\ \A c \in Sending(m)' : Len(c) = Len(b)
    BY <1>3, <1>5, <1>6
  <2>3. Sent("ping", next - 1, b, Len(b))
    BY <1>1, <1>2, <1>3, <1>8, <2>1, <2>2 DEF Sent
  <2> QED BY <1>5, <1>7, <2>3, LinesSent
<1> QED BY <1>4, <1>9 DEF IInv

------------------------------------------------------------------------------
\* Reading a line.

LEMMA OneLess == ASSUME IInv, ReadLine PROVE wire' \in Seq(WireLines)
<1>1. wire' = Tail(wire) /\ wire # <<>>
  BY DEF ReadLine
<1> QED BY <1>1, Typed

(* What is known where a line leads on.                                    *)
LEMMA LineAhead ==
  ASSUME IInv, ReadLine
  PROVE  \E l, m \in Places, at \in [0..Len(wire) -> Places] :
           /\ Framed(at) /\ l = at[0] /\ m = at[1]
           /\ Leads(l, Head(wire), m) /\ Reached(l) /\ Reached(m) /\ ReaderAt(l)
<1>1. PICK at \in [0..Len(wire) -> Places] : Framed(at)
  BY DEF IInv
<1>2. Len(wire) \in Nat \ {0} /\ Head(wire) = wire[1]
  BY DEF ReadLine, IInv, Types
<1>3. 1 \in 0..Len(wire) /\ 0 \in 0..Len(wire) /\ 1 \in 1..Len(wire) /\ 1 - 1 = 0
  BY <1>2
<1>4. Leads(at[0], Head(wire), at[1]) /\ Reached(at[0]) /\ Reached(at[1]) /\ ReaderAt(at[0])
  BY <1>1, <1>2, <1>3 DEF Framed
<1> QED BY <1>1, <1>3, <1>4

(* The lines after the one that is read lead on from it.                   *)
LEMMA LineRead ==
  ASSUME IInv, ReadLine, NEW at \in [0..Len(wire) -> Places], Framed(at), ReaderAt(at[1])'
  PROVE  \E ahead \in [0..Len(wire') -> Places] : Framed(ahead)'
<1>1. /\ wire' = Tail(wire) /\ Len(wire) \in Nat \ {0} /\ Len(wire') = Len(wire) - 1
      /\ \A i \in 1..Len(wire') : wire'[i] = wire[i + 1]
      /\ UNCHANGED <<events, next, cut>>
  BY DEF ReadLine, IInv, Types, server
<1>0. Len(wire) - 1 \in Nat
  BY <1>1
<1> PICK n \in Nat : n = Len(wire')
  BY <1>0, <1>1
<1> DEFINE ahead == [i \in 0..n |-> at[i + 1]]
<1>2. ahead \in [0..n -> Places] /\ \A i \in 0..n : ahead[i] = at[i + 1] /\ i + 1 \in 0..Len(wire)
  BY <1>1
<1>3. n \in Nat /\ n + 1 = Len(wire) /\ ahead[0] = at[1] /\ ahead[n] = at[Len(wire)]
  BY <1>1, <1>2
<1> HIDE DEF ahead
<1>4. \A i \in 0..n : Reached(ahead[i])'
  <2>1. \A i \in 0..n : Reached(at[i + 1])
    BY <1>2 DEF Framed
  <2>2. \A l : Reached(l) => Reached(l)'
    BY <1>1 DEF Reached, Sending
  <2> QED BY <1>2, <2>1, <2>2
<1>5. \A i \in 1..n : Leads(ahead[i - 1], wire[i], ahead[i])'
  <2> SUFFICES ASSUME NEW i \in 1..n PROVE Leads(ahead[i - 1], wire[i], ahead[i])'
    OBVIOUS
  <2>1. Leads(at[i], wire[i + 1], at[i + 1])
    BY <1>3 DEF Framed
  <2>2. i \in 0..n /\ i - 1 \in 0..n /\ (i - 1) + 1 = i /\ i \in 1..Len(wire')
    OBVIOUS
  <2>3. ahead[i - 1] = at[i] /\ ahead[i] = at[i + 1] /\ wire'[i] = wire[i + 1]
    BY <1>1, <1>2, <2>2
  <2> QED BY <1>1, <2>1, <2>3 DEF Leads, Sending
<1>6. ~cut => ahead[n].pos = 0 /\ ahead[n].of = next - 1
  BY <1>3 DEF Framed
<1>7. Framed(ahead)'
  BY <1>1, <1>2, <1>3, <1>4, <1>5, <1>6 DEF Framed
<1> QED BY <1>2, <1>7

LEMMA ReadFieldInv ==
  ASSUME IInv, ReadLine, Head(wire)[1] # "blank", ReadField(Head(wire)[1], Head(wire)[2])
  PROVE  IInv'
<1>1. PICK l \in Places, m \in Places, at \in [0..Len(wire) -> Places] :
        /\ Framed(at) /\ m = at[1]
        /\ Leads(l, Head(wire), m) /\ Reached(l) /\ Reached(m) /\ ReaderAt(l)
  BY LineAhead
<1> DEFINE w == Head(wire)
<1>2. /\ wire' = Tail(wire) /\ pc = "reading" /\ pc' = pc
      /\ UNCHANGED <<events, next, cut, lastEventID, told>>
  BY DEF ReadLine, ReadField, Hear, server
<1>3. /\ pendingID' = IF w[1] = "id" THEN w[2] ELSE pendingID
      /\ name' = IF w[1] = "event" THEN w[2] ELSE name
      /\ data' = IF w[1] = "data" THEN w[2] ELSE data
      /\ w[1] \in {"id", "event", "data"}
  <2>1. w[1] \in {"id", "event", "data", "blank"}
    <3>1. w \in WireLines
      BY DEF ReadLine, IInv, Types
    <3> QED BY <3>1 DEF WireLines
  <2> QED BY <2>1 DEF ReadField
<1>4. PICK b \in Sending(m) : w = b[l.pos + 1] /\ m.pos = IF l.pos + 1 = Len(b) THEN 0 ELSE l.pos + 1
  BY <1>1 DEF Leads
<1>5. l.pos \in 0..3 /\ m.pos \in 0..3 /\ l.of \in Nat /\ m.of \in Nat /\ m.in \in {"event", "ping"}
        /\ l.in \in {"event", "ping"}
  BY DEF Places
<1>6. IF l.pos = 0 THEN m.of = (IF m.in = "ping" THEN l.of ELSE l.of + 1) ELSE m.of = l.of /\ m.in = l.in
  BY <1>1 DEF Leads
<1>7. pendingID \in Nat /\ pendingID <= l.of /\ Gathered(l)
        /\ \A k \in 1..l.of : Due(k) /\ ~UnderWay(l, k) => k \in told
  BY <1>1, <1>2 DEF ReaderAt, IInv, Types
<1> HIDE DEF w
<1>8. CASE m.in = "event"
  <2>1. b = Lines(events[m.of], m.of) /\ m.of \in 1..(next - 1) /\ events[m.of] \in EveryKind
    <3>1. m.of \in 1..(next - 1)
      BY <1>1, <1>5, <1>6, <1>8 DEF Reached, IInv, Types
    <3> QED BY <1>4, <1>8, <3>1, KindOf DEF Sending
  <2>2. /\ Len(b) \in 2..4 /\ l.pos + 1 \in 1..Len(b)
        /\ \A p \in 1..Len(b) : /\ b[p][1] = "blank" <=> p = Len(b)
                                /\ b[p][1] \in {"id", "data"} => b[p][2] = m.of
                                /\ b[p][1] = "event" => p = 1
    <3>1. /\ Len(b) \in 2..4
          /\ \A p \in 1..Len(b) : /\ b[p][1] = "blank" <=> p = Len(b)
                                  /\ b[p][1] \in {"id", "data"} => b[p][2] = m.of
                                  /\ b[p][1] = "event" => p = 1
      BY <1>5, <2>1, Shape
    <3>2. l.pos > 0 => l.pos < Len(b)
      BY <1>1, <1>6, <1>8, <2>1 DEF Reached, Sending
    <3> QED BY <1>5, <3>1, <3>2
  <2>3. m.pos = l.pos + 1
    BY <1>3, <1>4, <1>5, <2>2
  <2>4. pendingID' \in Nat /\ pendingID' <= m.of
    BY <1>3, <1>4, <1>5, <1>6, <1>7, <2>2
  <2>5. \A k \in 1..m.of : Due(k)' /\ ~UnderWay(m, k) => k \in told
    BY <1>2, <1>5, <1>6, <1>7, <1>8, <2>3 DEF UnderWay, Due
  <2>6. name = IF l.pos > 0 THEN NameIn(b) ELSE NoName
    BY <1>5, <1>6, <1>7, <1>8, <2>1 DEF Gathered
  <2>7. data = DataIn(b, l.pos, m.of)
    <3>1. CASE l.pos = 0
      BY <1>7, <3>1 DEF Gathered, DataIn
    <3>2. CASE l.pos > 0
      BY <1>6, <1>7, <1>8, <2>1, <3>2 DEF Gathered
    <3> QED BY <1>5, <3>1, <3>2
  <2>8. name' = NameIn(b)
    BY <1>3, <1>4, <1>5, <2>2, <2>6 DEF NameIn
  <2>9. data' = DataIn(b, m.pos, m.of)
    <3>1. CASE w[1] = "data"
      <4>1. m.pos \in 1..m.pos /\ b[m.pos][1] = "data" /\ data' = m.of
        BY <1>3, <1>4, <1>5, <2>2, <2>3, <3>1
      <4> QED BY <4>1 DEF DataIn
    <3>2. CASE w[1] # "data"
      <4>1. \A p \in 1..m.pos : p \in 1..l.pos \/ (p = l.pos + 1 /\ b[p][1] # "data")
        BY <1>4, <1>5, <2>3, <3>2
      <4>2. \A p \in 1..l.pos : p \in 1..m.pos
        BY <1>5, <2>3
      <4> QED BY <1>3, <2>7, <3>2, <4>1, <4>2 DEF DataIn
    <3> QED BY <3>1, <3>2
  <2>10. Gathered(m)'
    BY <1>2, <1>5, <1>8, <2>1, <2>3, <2>8, <2>9 DEF Gathered
  <2>11. ReaderAt(m)'
    BY <1>2, <2>4, <2>5, <2>10 DEF ReaderAt, UnderWay
  <2>12. Types'
    BY <1>2, <2>4, Typed, OneLess DEF IInv, Types
  <2>13. NothingSkipped' /\ NoGap'
    BY <1>2 DEF IInv, NothingSkipped, NoGap, Due
  <2> QED BY <1>1, <2>11, <2>12, <2>13, LineRead DEF IInv
<1>9. CASE m.in = "ping"
  <2>1. PICK i \in Intervals : b = PingLines(i)
    BY <1>4, <1>9 DEF Sending
  <2>2. Len(b) = 3 /\ b[1] = <<"event", "ping">> /\ b[2][1] = "data" /\ b[3][1] = "blank"
    BY <2>1, PingShape
  <2>3. l.pos < 3
    <3>1. l.pos > 0 => l.pos < Len(b)
      BY <1>1, <1>4, <1>6, <1>9 DEF Reached, Sending
    <3> QED BY <1>5, <2>2, <3>1
  <2>4. (l.pos = 0 /\ w = <<"event", "ping">>) \/ (l.pos = 1 /\ w[1] = "data")
    BY <1>3, <1>4, <1>5, <2>2, <2>3
  <2>5. m.pos = l.pos + 1 /\ m.of = l.of /\ pendingID' = pendingID
    BY <1>3, <1>4, <1>5, <1>6, <1>9, <2>2, <2>4
  <2>6. name' = "ping"
    BY <1>3, <1>6, <1>7, <1>9, <2>4 DEF Gathered
  <2>7. \A k \in 1..m.of : Due(k)' /\ ~UnderWay(m, k) => k \in told
    BY <1>2, <1>5, <1>6, <1>7, <1>9, <2>5 DEF UnderWay, Due
  <2>8. ReaderAt(m)'
    BY <1>2, <1>5, <1>7, <1>9, <2>5, <2>6, <2>7 DEF ReaderAt, UnderWay, Gathered
  <2>9. Types'
    BY <1>2, <2>5, Typed, OneLess DEF IInv, Types
  <2>10. NothingSkipped' /\ NoGap'
    BY <1>2 DEF IInv, NothingSkipped, NoGap, Due
  <2> QED BY <1>1, <2>8, <2>9, <2>10, LineRead DEF IInv
<1> QED BY <1>5, <1>8, <1>9

(* A blank line ends the event or the ping it is of, and of an event that  *)
(* is due Next then tells.                                                 *)
LEMMA EndEventInv ==
  ASSUME IInv, ReadLine, Head(wire)[1] = "blank", EndEvent
  PROVE  IInv'
<1>1. PICK l \in Places, m \in Places, at \in [0..Len(wire) -> Places] :
        /\ Framed(at) /\ m = at[1]
        /\ Leads(l, Head(wire), m) /\ Reached(l) /\ Reached(m) /\ ReaderAt(l)
  BY LineAhead
<1>2. /\ wire' = Tail(wire) /\ pc = "reading" /\ lastEventID' = pendingID
      /\ name' = NoName /\ data' = NoData
      /\ UNCHANGED <<events, next, cut, pendingID>>
  BY DEF ReadLine, EndEvent, server
<1>3. PICK b \in Sending(m) :
        Head(wire) = b[l.pos + 1] /\ m.pos = IF l.pos + 1 = Len(b) THEN 0 ELSE l.pos + 1
  BY <1>1 DEF Leads
<1>4. l.pos \in 0..3 /\ m.pos \in 0..3 /\ l.of \in Nat /\ m.of \in Nat /\ m.in \in {"event", "ping"}
        /\ l.in \in {"event", "ping"}
  BY DEF Places
<1>5. IF l.pos = 0 THEN m.of = (IF m.in = "ping" THEN l.of ELSE l.of + 1) ELSE m.of = l.of /\ m.in = l.in
  BY <1>1 DEF Leads
<1>6. pendingID \in Nat /\ pendingID <= l.of /\ Gathered(l)
        /\ \A k \in 1..l.of : Due(k) /\ ~UnderWay(l, k) => k \in told
  BY <1>1, <1>2 DEF ReaderAt, IInv, Types
<1>7. m.in = "event" => /\ b = Lines(events[m.of], m.of) /\ m.of \in 1..(next - 1)
                        /\ events[m.of] \in EveryKind /\ m.of \in 1..Len(events)
  <2>1. m.in = "event" => m.of \in 1..(next - 1)
    BY <1>1, <1>4, <1>5 DEF Reached, IInv, Types
  <2> QED BY <1>3, <2>1, KindOf DEF Sending
<1>8. l.pos > 0 /\ m.pos = 0 /\ m.of = l.of /\ m.in = l.in /\ l.pos + 1 = Len(b)
  <2>1. CASE m.in = "event"
    <3>1. Len(b) \in 2..4 /\ \A p \in 1..Len(b) : b[p][1] = "blank" <=> p = Len(b)
      BY <1>4, <1>7, <2>1, Shape
    <3>2. l.pos > 0 => l.pos < Len(b)
      BY <1>1, <1>5, <1>7, <2>1 DEF Reached, Sending
    <3> QED BY <1>3, <1>4, <1>5, <3>1, <3>2
  <2>2. CASE m.in = "ping"
    <3>1. PICK i \in Intervals : b = PingLines(i)
      BY <1>3, <2>2 DEF Sending
    <3>2. Len(b) = 3 /\ b[1] = <<"event", "ping">> /\ b[2][1] = "data" /\ b[3][1] = "blank"
      BY <3>1, PingShape
    <3>3. l.pos > 0 => l.pos < Len(b)
      BY <1>1, <1>3, <1>5, <2>2 DEF Reached, Sending
    <3> QED BY <1>3, <1>4, <1>5, <3>2, <3>3
  <2> QED BY <1>4, <2>1, <2>2
<1>9. name \notin {NoName, "state"} \/ (l.in = "event" /\ data \in {NoData, l.of})
  BY <1>4, <1>6, <1>8 DEF Gathered, DataIn, NoName
<1>10. l.in = "event" /\ Due(l.of) => name \in {NoName, "state"} /\ data = l.of /\ data # NoData
  <2> SUFFICES ASSUME l.in = "event", Due(l.of)
               PROVE  name \in {NoName, "state"} /\ data = l.of /\ data # NoData
    OBVIOUS
  <2>1. events[l.of] \in {"state", "late", "bare", "bad"} /\ b = Lines(events[l.of], l.of)
    BY <1>7, <1>8 DEF Due
  <2>2. (b[1][1] = "event" => b[1][2] = "state") /\ \E p \in 1..(Len(b) - 1) : b[p][1] = "data"
    BY <1>4, <1>7, <1>8, <2>1, Shape
  <2>3. \E p \in 1..l.pos : b[p][1] = "data"
    BY <1>4, <1>8, <2>2
  <2>4. name = NameIn(b) /\ data = DataIn(b, l.pos, l.of)
    BY <1>4, <1>6, <1>8, <2>1 DEF Gathered
  <2>5. name \in {NoName, "state"}
    BY <2>2, <2>4 DEF NameIn
  <2>6. data = l.of
    BY <2>3, <2>4 DEF DataIn
  <2> QED BY <1>4, <2>5, <2>6 DEF NoData
<1>11. \/ told' = told /\ pc' = pc /\ ~(l.in = "event" /\ Due(l.of))
       \/ told' = told \cup {l.of} /\ l.in = "event" /\ pc' \in {"failed", "idle"}
  BY <1>9, <1>10 DEF EndEvent, Hear, NoName
<1>12. \A k : Due(k)' <=> Due(k)
  BY <1>2 DEF Due
<1>13. \A k \in 1..l.of : Due(k) => k \in told'
  BY <1>4, <1>6, <1>11 DEF UnderWay
<1>14. ReaderAt(m)'
  BY <1>2, <1>4, <1>6, <1>8, <1>12, <1>13 DEF ReaderAt, Gathered
<1>15. l.of <= Len(events)
  BY <1>1, <1>4 DEF Reached, IInv, Types
<1>16. Types'
  <2>1. told' \subseteq 1..Len(events)
    BY <1>4, <1>7, <1>8, <1>11, Typed
  <2>2. pendingID \in 0..Len(events)
    BY <1>4, <1>6, <1>15, Typed
  <2> QED BY <1>2, <2>1, <2>2, Typed, OneLess DEF IInv, Types
<1>17. NothingSkipped'
  BY <1>2, <1>4, <1>6, <1>12, <1>13 DEF NothingSkipped
<1>18. NoGap'
  <2> SUFFICES ASSUME NEW k \in told', NEW j \in 1..(k - 1), Due(j) PROVE j \in told'
    BY <1>12 DEF NoGap
  <2>1. CASE k \in told
    BY <1>11, <2>1 DEF IInv, NoGap
  <2>2. CASE k = l.of
    BY <1>4, <1>13, <2>2
  <2> QED BY <1>11, <2>1, <2>2
<1> QED BY <1>1, <1>14, <1>16, <1>17, <1>18, LineRead DEF IInv

------------------------------------------------------------------------------
\* The other steps.

(* The next stream starts where the last stopped, and all before it has    *)
(* been told.                                                              *)
LEMMA EventSourceInv == ASSUME IInv, EventSource PROVE IInv'
<1> PICK last \in Nat : last = lastEventID
  BY Typed
<1> DEFINE start == [of |-> last, in |-> "event", pos |-> 0]
           at == [i \in 0..0 |-> start]
<1>1. /\ wire' = <<>> /\ pendingID' = lastEventID /\ next' = lastEventID + 1 /\ pc' = "idle"
      /\ UNCHANGED <<events, lastEventID, told>>
  BY DEF EventSource
<1>2. Types' /\ NothingSkipped' /\ NoGap' /\ Len(wire') = 0
  BY <1>1 DEF IInv, Types, NothingSkipped, NoGap, Due
<1>3. start \in Places /\ start.of = last /\ start.in = "event" /\ start.pos = 0
  BY DEF Places
<1>4. at[0] = start /\ at \in [0..0 -> Places]
  BY <1>3
<1> HIDE DEF start, at
<1>5. Reached(start)'
  BY <1>1, <1>3 DEF Reached
<1>6. ReaderAt(start)'
  BY <1>1, <1>3 DEF ReaderAt, IInv, NothingSkipped, Due
<1>7. Framed(at)'
  BY <1>1, <1>2, <1>3, <1>4, <1>5, <1>6 DEF Framed
<1> QED BY <1>2, <1>4, <1>7 DEF IInv

LEMMA CallerInv == ASSUME IInv, CallNext \/ ReadEnd PROVE IInv'
<1>1. /\ UNCHANGED <<events, next, wire, cut, lastEventID, pendingID, told>>
      /\ \/ pc = "idle" /\ pc' = "reading" /\ name' = NoName /\ data' = NoData
         \/ pc' = "failed" /\ UNCHANGED <<name, data>>
  BY DEF CallNext, ReadEnd, server
<1>2. \A l \in Places : ReaderAt(l) => ReaderAt(l)'
  BY <1>1 DEF ReaderAt, UnderWay, Gathered, Due
<1> QED BY <1>1, <1>2, Beside

LEMMA CutInv == ASSUME IInv, Drop \/ LapseCloses \/ Close PROVE IInv'
<1>1. /\ cut' = TRUE /\ \E n \in 0..Len(wire) : wire' = SubSeq(wire, 1, n)
      /\ UNCHANGED <<events, next, lastEventID, pendingID, told, name, data>>
      /\ pc' = pc \/ pc' = "closed"
  <2>1. Close => wire' = SubSeq(wire, 1, 0) /\ 0 \in 0..Len(wire)
    BY DEF Close, IInv, Types
  <2> QED BY <2>1 DEF Drop, LapseCloses, Close, Cut, server
<1>2. \A l \in Places : ReaderAt(l) => ReaderAt(l)'
  BY <1>1 DEF ReaderAt, UnderWay, Gathered, Due
<1> QED BY <1>1, <1>2, CutShort

LEMMA ReadLineInv == ASSUME IInv, ReadLine PROVE IInv'
  BY ReadFieldInv, EndEventInv DEF ReadLine

LEMMA NextInv == IInv /\ [Next]_vars => IInv'
<1> SUFFICES ASSUME IInv, [Next]_vars PROVE IInv'
  OBVIOUS
<1>1. CASE UNCHANGED <<events, next, wire, cut, lastEventID, pendingID, name, data, told, pc>>
  <2>1. \A l \in Places : ReaderAt(l) => ReaderAt(l)'
    BY <1>1 DEF ReaderAt, UnderWay, Gathered, Due
  <2> QED BY <1>1, <2>1, Beside
<1>2. CASE UNCHANGED vars \/ Tick \/ Fire \/ Lapse
  BY <1>1, <1>2 DEF vars, server, Tick, Fire, Lapse
<1> QED BY <1>2, EventSourceInv, ServerSendsInv, ServerPingsInv, CutInv, CallerInv, ReadLineInv DEF Next

(* So all of it holds of every reachable state.                           *)
LEMMA Invariant == Spec => []IInv
<1> QED BY InitInv, NextInv, PTL DEF Spec

------------------------------------------------------------------------------

(* Nothing is lost by resuming, wherever streams are cut.                  *)
THEOREM ResumesWhereTold == Spec => []NothingSkipped
<1>1. IInv => NothingSkipped
  BY DEF IInv
<1> QED BY <1>1, Invariant, PTL

(* Events are told of in order, and none that is due is left out.          *)
THEOREM ToldInOrder == Spec => []NoGap
<1>1. IInv => NoGap
  BY DEF IInv
<1> QED BY <1>1, Invariant, PTL

==============================================================================
