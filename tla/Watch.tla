-------------------------------- MODULE Watch --------------------------------
(***************************************************************************)
(* watch.go: the loop that follows one type's changes in one account, over *)
(* connections that are refused, dropped and resumed, with a catch-up on   *)
(* connecting and on every push, and a resync where the server can no      *)
(* longer say what changed.                                                *)
(*                                                                         *)
(* The states of the type are numbered in the order the server goes        *)
(* through them, and the id of a push is the state it reports.  What one   *)
(* stream does with lines, ids and pings is EventStream's; here a stream   *)
(* hands on the pushes it has, and ends.                                   *)
(***************************************************************************)
EXTENDS Integers, Sequences

CONSTANTS
  Resyncs,      \* whether a watch may be given a Resync, and whether it may not
  MaxState,     \* bound: the states the server goes through
  MaxFailures,  \* bound: the connections that fail, refused for a while or dropped
  MaxOthers,    \* bound: the pushes about other types and accounts
  MaxInbox      \* bound: the pushes that wait to be read

ASSUME ResyncsAssumption == Resyncs \subseteq BOOLEAN
ASSUME BoundsAssumption ==
  /\ MaxState \in Nat \ {0} /\ MaxFailures \in Nat
  /\ MaxOthers \in Nat /\ MaxInbox \in Nat \ {0}

VARIABLES
  current,      \* the state of the type at the server
  oldest,       \* the oldest state the server calculates changes from
  forgetful,    \* it calculates changes from no state at all
  withResync,   \* cfg.resync: the watch was given a Resync
  pushed,       \* the last state it has pushed on this connection
  others,       \* how many other pushes there have been
  failures,     \* how many connections have failed
  stream,       \* the EventStream: "none" or closed, "open", or "lost"
  inbox,        \* the pushes on it that Next has not returned
  streamID,     \* stream.LastEventID()
  lastEventID, attempt, state, resynced,    \* Watch's and settle's variables
  answer,       \* what catchUp or resync is about to return
  ended,        \* the context has ended
  pc,           \* where Watch is
  result        \* why it has returned

server == <<current, oldest, forgetful, withResync>>
connection == <<stream, inbox, pushed, streamID>>
vars == <<server, connection, others, failures, lastEventID, attempt, state, resynced, answer,
          ended, pc, result>>

None == 0       \* no id, no state, and a push about something else
TooOld == "cannotCalculateChanges"
Failed == "failed"

(* What a call of catchUp or of resync returns.                            *)
Report(s, more) == [err |-> "none", state |-> s, more |-> more]
Error(why) == [err |-> why, state |-> None, more |-> FALSE]
NoAnswer == Error("none")

(* A watch starts from a state it was handed earlier, however long ago.    *)
Init ==
  /\ current \in 1..MaxState
  /\ oldest \in 1..current
  /\ forgetful \in BOOLEAN
  /\ withResync \in Resyncs
  /\ state \in 1..current
  /\ stream = "none" /\ inbox = <<>> /\ pushed = None /\ streamID = None
  /\ others = 0 /\ failures = 0
  /\ lastEventID = None /\ attempt = 0 /\ resynced = FALSE
  /\ answer = NoAnswer
  /\ ended = FALSE
  /\ pc = "connecting" /\ result = "none"

------------------------------------------------------------------------------

ServerChanges ==
  /\ current < MaxState
  /\ current' = current + 1
  /\ UNCHANGED <<oldest, forgetful, withResync, connection, others, failures, lastEventID, attempt, state,
                 resynced, answer, ended, pc, result>>

ServerForgets ==
  /\ oldest < current
  /\ oldest' = oldest + 1
  /\ UNCHANGED <<current, forgetful, withResync, connection, others, failures, lastEventID, attempt, state,
                 resynced, answer, ended, pc, result>>

(* A server pushes the state the type has come to, passing over states in  *)
(* between where it likes.                                                 *)
ServerPushes ==
  /\ stream = "open"
  /\ pushed < current
  /\ Len(inbox) < MaxInbox
  /\ inbox' = Append(inbox, current)
  /\ pushed' = current
  /\ UNCHANGED <<server, stream, streamID, others, failures, lastEventID, attempt, state, resynced,
                 answer, ended, pc, result>>

ServerPushesOther ==
  /\ stream = "open"
  /\ others < MaxOthers
  /\ Len(inbox) < MaxInbox
  /\ inbox' = Append(inbox, None)
  /\ others' = others + 1
  /\ UNCHANGED <<server, stream, pushed, streamID, failures, lastEventID, attempt, state, resynced,
                 answer, ended, pc, result>>

(* The stream ends under the watch, with some of what was sent on it; as a *)
(* stream lapse has closed does.                                           *)
Cut == stream' = "lost" /\ \E n \in 0..Len(inbox) : inbox' = SubSeq(inbox, 1, n)

Drops ==
  /\ stream = "open"
  /\ failures < MaxFailures
  /\ failures' = failures + 1
  /\ Cut
  /\ UNCHANGED <<server, pushed, streamID, others, lastEventID, attempt, state, resynced, answer,
                 ended, pc, result>>

(* Mutant: the stream is asked for without the watch's context.            *)
ContextEndsUnheard ==
  /\ ~ended /\ pc # "returned"
  /\ ended' = TRUE
  /\ UNCHANGED <<server, connection, others, failures, lastEventID, attempt, state, resynced,
                 answer, pc, result>>

(* The context ends, and with it the request the stream is the body of.    *)
ContextEnds ==
  /\ ~ended /\ pc # "returned"
  /\ ended' = TRUE
  /\ IF stream = "open" THEN Cut ELSE UNCHANGED <<stream, inbox>>
  /\ UNCHANGED <<server, pushed, streamID, others, failures, lastEventID, attempt, state, resynced,
                 answer, pc, result>>

------------------------------------------------------------------------------

Goto(to) == pc' = to /\ UNCHANGED result

Return(why) == pc' = "returned" /\ result' = why

CloseStream == stream' = "none" /\ inbox' = <<>>

(* EventSource fails in a way that may pass: the next attempt comes after  *)
(* a wait that grows with their number.                                    *)
EventSourceFails ==
  /\ pc = "connecting"
  /\ \/ ended /\ Return("ended") /\ UNCHANGED <<failures, attempt>>
     \/ /\ ~ended
        /\ failures < MaxFailures
        /\ failures' = failures + 1
        /\ attempt' = attempt + 1
        /\ Goto("pausing")
  /\ UNCHANGED <<server, connection, others, lastEventID, state, resynced, answer, ended>>

(* EventSource fails for good: there is no push, or it is refused.         *)
EventSourceRefused ==
  /\ pc = "connecting"
  /\ Return(IF ended THEN "ended" ELSE "refused")
  /\ UNCHANGED <<server, connection, others, failures, lastEventID, attempt, state, resynced, answer,
                 ended>>

(* The server resumes from the id it was given, or from where it is now.   *)
Connect ==
  /\ stream' = "open" /\ inbox' = <<>>
  /\ pushed' \in {lastEventID, current}
  /\ streamID' = lastEventID

(* Mutant: a new connection waits for a push before it catches up.         *)
EventSourceOpensAndWaits ==
  /\ pc = "connecting" /\ ~ended
  /\ Connect
  /\ attempt' = 0
  /\ Goto("waiting")
  /\ UNCHANGED <<server, others, failures, lastEventID, state, resynced, answer, ended>>

(* EventSource opens a stream, and settle catches up with what changed     *)
(* while there was none.                                                   *)
EventSourceOpens ==
  /\ pc = "connecting" /\ ~ended
  /\ Connect
  /\ attempt' = 0
  /\ resynced' = FALSE
  /\ Goto("catching")
  /\ UNCHANGED <<server, others, failures, lastEventID, state, answer, ended>>

(* The server answers catchUp with as many of the changes as it chooses.   *)
(* An answer that has nothing to report may leave the state out.           *)
Answers ==
  IF forgetful \/ state < oldest
  THEN {Error(TooOld)}
  ELSE {Report(s, s < current) : s \in (state + 1)..current}
       \cup IF state = current THEN {Report(state, FALSE), Report(None, FALSE)} ELSE {}

CatchUp ==
  /\ pc = "catching"
  /\ answer' \in Answers \cup {Error(Failed)}
  /\ Goto("caught")
  /\ UNCHANGED <<server, connection, others, failures, lastEventID, attempt, state, resynced, ended>>

------------------------------------------------------------------------------

(* Mutant: settle stops at the first answer, whether there is more or not. *)
SettleOnce ==
  /\ pc = "caught" /\ answer.err = "none"
  /\ resynced' = FALSE
  /\ state' = IF answer.state # None THEN answer.state ELSE state
  /\ Goto("waiting")
  /\ answer' = NoAnswer
  /\ UNCHANGED <<server, connection, others, failures, lastEventID, attempt, ended>>

(* settle takes catchUp's answer, and asks again while there is more.      *)
Settle ==
  /\ pc = "caught" /\ answer.err = "none"
  /\ resynced' = FALSE
  /\ state' = IF answer.state # None THEN answer.state ELSE state
  /\ Goto(IF answer.more THEN "catching" ELSE "waiting")
  /\ answer' = NoAnswer
  /\ UNCHANGED <<server, connection, others, failures, lastEventID, attempt, ended>>

MayResync == withResync /\ answer.err = TooOld

(* settle returns catchUp's error, and Watch closes the stream.            *)
SettleFails ==
  /\ pc = "caught" /\ answer.err # "none"
  /\ ~MayResync \/ resynced
  /\ CloseStream
  /\ Return(answer.err)
  /\ answer' = NoAnswer
  /\ UNCHANGED <<server, pushed, streamID, others, failures, lastEventID, attempt, state, resynced,
                 ended>>

(* settle reads the records again: once, until an answer has come of it.   *)
Resync ==
  /\ pc = "caught" /\ MayResync /\ ~resynced
  /\ answer' \in {Report(current, TRUE), Error(Failed)}
  /\ Goto("resyncing")
  /\ UNCHANGED <<server, connection, others, failures, lastEventID, attempt, state, resynced, ended>>

ResyncDone ==
  /\ pc = "resyncing" /\ answer.err = "none"
  /\ state' = answer.state /\ resynced' = TRUE
  /\ answer' = NoAnswer
  /\ Goto("catching")
  /\ UNCHANGED <<server, connection, others, failures, lastEventID, attempt, ended>>

ResyncFails ==
  /\ pc = "resyncing" /\ answer.err # "none"
  /\ CloseStream
  /\ Return(Failed)
  /\ answer' = NoAnswer
  /\ UNCHANGED <<server, pushed, streamID, others, failures, lastEventID, attempt, state, resynced,
                 ended>>

------------------------------------------------------------------------------

(* Mutant: the state pushed is taken for the state held.                   *)
NextTakesPushed ==
  /\ pc = "waiting" /\ inbox # <<>>
  /\ inbox' = Tail(inbox)
  /\ streamID' = IF Head(inbox) # None THEN Head(inbox) ELSE streamID
  /\ IF Head(inbox) \in {None, state}
     THEN UNCHANGED <<state, resynced, pc, result>>
     ELSE state' = Head(inbox) /\ resynced' = FALSE /\ Goto("catching")
  /\ UNCHANGED <<server, stream, pushed, others, failures, lastEventID, attempt, answer, ended>>

(* Next returns a push: one about another type or account, or about the    *)
(* state held, is passed over, and any other is settled.                   *)
NextReturns ==
  /\ pc = "waiting" /\ inbox # <<>>
  /\ inbox' = Tail(inbox)
  /\ streamID' = IF Head(inbox) # None THEN Head(inbox) ELSE streamID
  /\ IF Head(inbox) \in {None, state}
     THEN UNCHANGED <<resynced, pc, result>>
     ELSE resynced' = FALSE /\ Goto("catching")
  /\ UNCHANGED <<server, stream, pushed, others, failures, lastEventID, attempt, state, answer,
                 ended>>

(* Next fails: the stream is closed, and the next one resumes from it.     *)
NextFails ==
  /\ pc = "waiting" /\ inbox = <<>> /\ stream = "lost"
  /\ lastEventID' = streamID
  /\ CloseStream
  /\ \/ ended /\ Return("ended") /\ UNCHANGED attempt
     \/ ~ended /\ attempt' = attempt + 1 /\ Goto("pausing")
  /\ UNCHANGED <<server, pushed, streamID, others, failures, state, resynced, answer, ended>>

(* wait returns, before the delay has passed where the context ends.       *)
Wait ==
  /\ pc = "pausing"
  /\ IF ended THEN Return("ended") ELSE Goto("connecting")
  /\ UNCHANGED <<server, connection, others, failures, lastEventID, attempt, state, resynced, answer,
                 ended>>

EventSource == EventSourceFails \/ EventSourceRefused \/ EventSourceOpens
Settles == CatchUp \/ Settle \/ SettleFails \/ Resync \/ ResyncDone \/ ResyncFails
Streams == NextReturns \/ NextFails

Next ==
  \/ ServerChanges \/ ServerForgets \/ ServerPushes \/ ServerPushesOther \/ Drops \/ ContextEnds
  \/ EventSourceFails \/ EventSourceRefused \/ EventSourceOpens
  \/ CatchUp \/ Settle \/ SettleFails \/ Resync \/ ResyncDone \/ ResyncFails
  \/ NextReturns \/ NextFails \/ Wait

Spec == Init /\ [][Next]_vars

(* The watch's goroutine runs on, its calls return, and a server pushes    *)
(* what it has to push on a stream that stays open.                        *)
FairSpec ==
  /\ Spec
  /\ WF_vars(EventSource) /\ WF_vars(Settles) /\ WF_vars(Streams) /\ WF_vars(Wait)
  /\ WF_vars(ServerPushes)

------------------------------------------------------------------------------

(* No change slips between a catch-up and the pushes: a watch that waits   *)
(* on an open stream with no push on its way holds the server's state.     *)
CaughtUp ==
  (pc = "waiting" /\ stream = "open" /\ inbox = <<>> /\ pushed = current) => state = current

(* The watch moves only forward, to states the server has reached, and no  *)
(* more once it has returned.                                              *)
Follows == INSTANCE Follower WITH held <- state, stopped <- (pc = "returned")
IsFollower == Follows!FollowerSpec

(* Whatever is dropped, refused for a while, forgotten or pushed late, the *)
(* watch comes to hold the server's state, unless it has returned.         *)
FollowsServer == <>[](state = current \/ pc = "returned")

(* A watch returns when its context ends, whatever it is doing.            *)
EndsWithContext == ended ~> (pc = "returned")

==============================================================================
