----------------------------- MODULE EventStream -----------------------------
(***************************************************************************)
(* eventsource.go: one EventStream after another on a server's push        *)
(* endpoint, each opened from the id the one before it stopped at, and the *)
(* timer that takes a silent stream as lost while Next waits.              *)
(*                                                                         *)
(* The server's events are numbered, and the number of an event is its id. *)
(* A line is <<field, value>>: <<"id", k>>, <<"data", k>>, <<"event",      *)
(* name>>, or <<"blank", 0>>.  Time is counted in seconds of silence.      *)
(***************************************************************************)
EXTENDS Integers, Sequences

CONSTANTS
  Pings,        \* the ping intervals a caller may ask for, 0 for none
  Kinds,        \* the kinds of event the server may send
  Intervals,    \* what a ping may report, 0 where it reports nothing usable
  MaxInterval,  \* maxPing, in seconds
  MaxEvents,    \* bound: the events the server has
  MaxPings,     \* bound: the pings sent on one stream
  MaxStreams,   \* bound: the streams opened
  MaxWire       \* bound: the lines that wait to be read

ASSUME PingsAssumption == Pings \subseteq 0..MaxInterval
ASSUME KindsAssumption == Kinds \subseteq {"state", "late", "bare", "bad", "other", "keep"}

VARIABLES
  asked,        \* opts.Ping of every stream opened, in whole seconds
  events,       \* what the server has to push: the kind of each event
  next,         \* the next event the server sends on this stream
  pings,        \* how many pings it has sent on it
  wire,         \* the lines sent and not read yet
  cut,          \* no more lines will come: the server or lapse closed it
  streams,      \* how many streams have been opened
  lastEventID, pendingID, interval, waiting, lapsed,  \* EventStream's fields
  armed,        \* silence is running
  quiet,        \* the seconds since it was last reset
  firing,       \* lapse has been started and has not taken mu yet
  closing,      \* lapse has released mu and is about to close the body
  name, data,   \* Next's two builders
  told,         \* the events Next has returned, or failed to decode
  pc            \* where the caller is

server == <<asked, events, next, pings>>
timer == <<interval, waiting, lapsed, armed, quiet, firing, closing>>
vars == <<server, wire, cut, streams, lastEventID, pendingID, timer, name, data, told, pc>>

NoData == -1
NoName == ""

(* The stream carries the lines of event k of a kind: with its id before   *)
(* or after its data or with none, undecodable, of an unknown name, or an  *)
(* id and a name with no data.                                             *)
Lines(kind, k) ==
  LET id == <<"id", k>>
      body == <<"data", k>>
      blank == <<"blank", 0>>
  IN CASE kind \in {"state", "bad"} -> <<id, body, blank>>
       [] kind = "late"  -> <<<<"event", "state">>, body, id, blank>>
       [] kind = "bare"  -> <<body, blank>>
       [] kind = "other" -> <<<<"event", "other">>, id, body, blank>>
       [] kind = "keep"  -> <<<<"event", "other">>, id, blank>>

PingLines(i) == <<<<"event", "ping">>, <<"data", i>>, <<"blank", 0>>>>

(* The events Next must tell its caller of.                                *)
Due(k) == events[k] \in {"state", "late", "bare", "bad"}

Watched == asked > 0        \* silence # nil

Init ==
  /\ asked \in Pings
  /\ events = <<>> /\ next = 1 /\ pings = 0
  /\ wire = <<>> /\ cut = FALSE
  /\ streams = 1
  /\ lastEventID = 0 /\ pendingID = 0
  /\ interval = asked /\ waiting = FALSE /\ lapsed = FALSE
  /\ armed = FALSE /\ quiet = 0 /\ firing = FALSE /\ closing = FALSE
  /\ name = NoName /\ data = NoData
  /\ told = {}
  /\ pc = "idle"

------------------------------------------------------------------------------

(* EventSource: the next stream starts where the last one stopped, and its *)
(* timer has been stopped before anything is read.                         *)
EventSource ==
  /\ pc = "closed"
  /\ streams < MaxStreams
  /\ streams' = streams + 1
  /\ pendingID' = lastEventID
  /\ next' = lastEventID + 1
  /\ pings' = 0
  /\ wire' = <<>> /\ cut' = FALSE
  /\ interval' = asked /\ waiting' = FALSE /\ lapsed' = FALSE
  /\ armed' = FALSE /\ quiet' = 0 /\ firing' = FALSE /\ closing' = FALSE
  /\ pc' = "idle"
  /\ UNCHANGED <<asked, events, lastEventID, name, data, told>>

(* The server sends an event it has, or a new one.                         *)
ServerSends ==
  /\ ~cut
  /\ next <= MaxEvents
  /\ \E kind \in Kinds :
       /\ next <= Len(events) => kind = events[next]
       /\ events' = IF next <= Len(events) THEN events ELSE Append(events, kind)
       /\ wire' = wire \o Lines(kind, next)
  /\ Len(wire') <= MaxWire
  /\ next' = next + 1
  /\ UNCHANGED <<asked, pings, cut, streams, lastEventID, pendingID, timer, name, data, told, pc>>

ServerPings ==
  /\ ~cut /\ Watched
  /\ pings < MaxPings
  /\ \E i \in Intervals : wire' = wire \o PingLines(i)
  /\ Len(wire') <= MaxWire
  /\ pings' = pings + 1
  /\ UNCHANGED <<asked, events, next, cut, streams, lastEventID, pendingID, timer, name, data,
                 told, pc>>

(* The connection ends, and what the network had not delivered is lost.    *)
Cut ==
  /\ cut' = TRUE
  /\ \E n \in 0..Len(wire) : wire' = SubSeq(wire, 1, n)

Drop ==
  /\ ~cut
  /\ Cut
  /\ UNCHANGED <<server, streams, lastEventID, pendingID, timer, name, data, told, pc>>

------------------------------------------------------------------------------

(* silence.Reset(2 * interval), and silence.Stop.                          *)
Arm == armed' = Watched /\ quiet' = 0

Disarm == armed' = FALSE /\ waiting' = FALSE /\ UNCHANGED <<interval, quiet, lapsed, firing, closing>>

(* The caller calls Next, which begins by wait().                          *)
CallNext ==
  /\ pc = "idle"
  /\ pc' = "reading"
  /\ name' = NoName /\ data' = NoData
  /\ waiting' = Watched
  /\ Arm
  /\ UNCHANGED <<server, wire, cut, streams, lastEventID, pendingID, interval, lapsed, firing,
                 closing, told>>

(* Next has read a line, and goes on to the next one.                      *)
Hear ==
  /\ Arm
  /\ pc' = pc
  /\ UNCHANGED <<interval, waiting, lapsed, firing, closing, told>>

(* Mutant: the id is the one to resume from as soon as it is read.         *)
ReadFieldAtOnce(field, value) ==
  /\ CASE field = "id"    -> pendingID' = value /\ UNCHANGED <<name, data>>
       [] field = "event" -> name' = value /\ UNCHANGED <<pendingID, data>>
       [] field = "data"  -> data' = value /\ UNCHANGED <<pendingID, name>>
  /\ lastEventID' = IF field = "id" THEN value ELSE lastEventID
  /\ Hear

ReadField(field, value) ==
  /\ CASE field = "id"    -> pendingID' = value /\ UNCHANGED <<name, data>>
       [] field = "event" -> name' = value /\ UNCHANGED <<pendingID, data>>
       [] field = "data"  -> data' = value /\ UNCHANGED <<pendingID, name>>
  /\ Hear
  /\ UNCHANGED lastEventID

(* pinged: the interval the server pings at, where it says which.          *)
Pinged(i) ==
  /\ interval' = IF i > 0 THEN i ELSE interval
  /\ Arm
  /\ UNCHANGED <<waiting, lapsed, firing, closing>>

(* Mutant: an event with no data leaves its name to the next one.          *)
EndEventKeepsName ==
  /\ lastEventID' = pendingID
  /\ name' = IF data = NoData THEN name ELSE NoName
  /\ data' = NoData
  /\ UNCHANGED pendingID
  /\ \/ name = "ping" /\ data # NoData /\ Pinged(data) /\ UNCHANGED <<told, pc>>
     \/ name \notin {NoName, "state", "ping"} /\ data # NoData /\ Hear
     \/ data = NoData /\ Hear
     \/ /\ name \in {NoName, "state"} /\ data # NoData
        /\ told' = told \cup {data}
        /\ pc' = IF events[data] = "bad" THEN "failed" ELSE "idle"
        /\ Disarm

(* The blank line that ends an event takes its id, whatever the event is;  *)
(* a state change goes to the caller, and anything else is skipped.        *)
EndEvent ==
  /\ lastEventID' = pendingID
  /\ name' = NoName /\ data' = NoData
  /\ UNCHANGED pendingID
  /\ \/ name = "ping" /\ data # NoData /\ Pinged(data) /\ UNCHANGED <<told, pc>>
     \/ name \notin {NoName, "state", "ping"} /\ data # NoData /\ Hear
     \/ data = NoData /\ Hear
     \/ /\ name \in {NoName, "state"} /\ data # NoData
        /\ told' = told \cup {data}
        /\ pc' = IF events[data] = "bad" THEN "failed" ELSE "idle"
        /\ Disarm

ReadLine ==
  /\ pc = "reading"
  /\ wire # <<>>
  /\ wire' = Tail(wire)
  /\ \/ Head(wire)[1] = "blank" /\ EndEvent
     \/ Head(wire)[1] # "blank" /\ ReadField(Head(wire)[1], Head(wire)[2])
  /\ UNCHANGED <<server, cut, streams>>

(* Scan finds the end, or the body closed under it: Next fails.            *)
ReadEnd ==
  /\ pc = "reading"
  /\ wire = <<>> /\ cut
  /\ pc' = "failed"
  /\ Disarm
  /\ UNCHANGED <<server, wire, cut, streams, lastEventID, pendingID, name, data, told>>

(* A caller closes the stream Next failed on, or one it has done with.     *)
Close ==
  /\ pc \in {"idle", "failed"}
  /\ pc' = "closed"
  /\ armed' = FALSE
  /\ cut' = TRUE /\ wire' = <<>>
  /\ UNCHANGED <<server, streams, lastEventID, pendingID, interval, waiting, lapsed, quiet, firing,
                 closing, name, data, told>>

------------------------------------------------------------------------------

(* A second passes while Next has nothing to read: reading a line that has *)
(* come takes no time beside it.                                           *)
Tick ==
  /\ armed /\ quiet < 2 * interval
  /\ wire = <<>> /\ ~cut
  /\ quiet' = quiet + 1
  /\ UNCHANGED <<server, wire, cut, streams, lastEventID, pendingID, interval, waiting, lapsed,
                 armed, firing, closing, name, data, told, pc>>

(* silence fires, which starts lapse in a goroutine of its own.  At most   *)
(* one is between its start and mu.                                        *)
Fire ==
  /\ armed /\ quiet = 2 * interval
  /\ ~firing
  /\ armed' = FALSE
  /\ firing' = TRUE
  /\ UNCHANGED <<server, wire, cut, streams, lastEventID, pendingID, interval, waiting, lapsed,
                 quiet, closing, name, data, told, pc>>

(* Mutant: lapse notes that the stream is lost and leaves the body open.   *)
LapseNotesOnly ==
  /\ firing
  /\ firing' = FALSE
  /\ lapsed' = (lapsed \/ waiting)
  /\ UNCHANGED <<server, wire, cut, streams, lastEventID, pendingID, interval, waiting, armed,
                 closing, quiet, name, data, told, pc>>

(* lapse takes mu: it ends the stream only where Next waits.               *)
Lapse ==
  /\ firing
  /\ firing' = FALSE
  /\ lapsed' = (lapsed \/ waiting)
  /\ closing' = (closing \/ waiting)
  /\ UNCHANGED <<server, wire, cut, streams, lastEventID, pendingID, interval, waiting, armed,
                 quiet, name, data, told, pc>>

LapseCloses ==
  /\ closing
  /\ closing' = FALSE
  /\ Cut
  /\ UNCHANGED <<server, streams, lastEventID, pendingID, interval, waiting, lapsed, armed, quiet,
                 firing, name, data, told, pc>>

Next ==
  \/ EventSource \/ ServerSends \/ ServerPings \/ Drop
  \/ CallNext \/ ReadLine \/ ReadEnd \/ Close
  \/ Tick \/ Fire \/ Lapse \/ LapseCloses

Spec == Init /\ [][Next]_vars

(* Time passes, the runtime runs the timer and its goroutine, and Next     *)
(* goes on reading.  The server and the caller owe nothing.                *)
FairSpec ==
  /\ Spec
  /\ WF_vars(Tick) /\ WF_vars(Fire) /\ WF_vars(Lapse) /\ WF_vars(LapseCloses)
  /\ WF_vars(ReadLine) /\ WF_vars(ReadEnd)

------------------------------------------------------------------------------

(* Nothing is lost by resuming: however the streams are cut, in the middle *)
(* of an event or between two, every event up to the id the next one       *)
(* resumes from is one Next told its caller of.                            *)
NothingSkipped == \A k \in 1..lastEventID : Due(k) => k \in told

(* Next tells of events in the order the server has them, leaving none     *)
(* out, whatever comments, unknown events and pings come between.          *)
NoGap == \A k \in told : \A j \in 1..(k - 1) : Due(j) => j \in told

(* A stream the server stops sending on does not hold Next for good: where *)
(* pings were asked for, Next returns.  (The server sends a bounded number *)
(* of lines here, so every stream comes to be silent.)                     *)
LostStreamNoticed == (Watched /\ pc = "reading") ~> (pc # "reading")

==============================================================================
