---------------------------- MODULE SessionCache ----------------------------
(***************************************************************************)
(* client.go: the session the client holds, the one fetch of it callers    *)
(* share, and the notice a response gives that it has changed.             *)
(*                                                                         *)
(* The server's session has a version, which stands for its state string.  *)
(* A caller calls Session or RefreshSession, or posts a request whose      *)
(* answer carries the server's sessionState.  What is done under one hold  *)
(* of Client.mu is one action; the answer to a fetch leaves the server     *)
(* before it is stored, and the fetch's channel is closed after the mutex  *)
(* is let go, so other callers run in between.                             *)
(***************************************************************************)
EXTENDS Integers, FiniteSets

CONSTANTS
  Callers,      \* the goroutines using the client
  MaxVersion,   \* bound: the versions the server's session goes through
  Stateless,    \* the versions whose session carries no state of its own
  Refresh       \* FALSE for a client made WithoutSessionRefresh

ASSUME VersionAssumption == MaxVersion \in Nat \ {0}
ASSUME StatelessAssumption == Stateless \subseteq 1..MaxVersion
ASSUME RefreshAssumption == Refresh \in BOOLEAN

VARIABLES
  server,       \* the version of the server's session
  session,      \* Client.session, None where there is none
  stale,        \* Client.stale
  fetching,     \* Client.fetching: the caller whose channel it is, or NoCaller
  fetchErr,     \* Client.fetchErr, None where the last fetch succeeded
  fetchAbandoned,
  pc,           \* where each caller is
  kept,         \* the session a call of Session found, to fall back on
  on,           \* the caller whose fetch a waiting one waits on
  woken,        \* the waiting callers whose channel is closed
  got,          \* what a fetch, or a posted request, was answered
  result,       \* what a call returned: a version, Failed or Ended
  ended         \* the callers whose context has ended

client == <<session, stale, fetching, fetchErr, fetchAbandoned>>
vars == <<server, client, pc, kept, on, woken, got, result, ended>>

NoCaller == "none"
None == 0
Failed == -1      \* a fetch that failed for a reason of its own
Ended == -2       \* a fetch that ended with its caller's context

Versions == 1..MaxVersion

ASSUME CallersAssumption == NoCaller \notin Callers

PC == {"idle", "entering", "waiting", "fetching", "answered", "closing", "returned"}

Init ==
  /\ server = 1
  /\ session = None
  /\ stale = FALSE
  /\ fetching = NoCaller
  /\ fetchErr = None
  /\ fetchAbandoned = FALSE
  /\ pc = [c \in Callers |-> "idle"]
  /\ kept = [c \in Callers |-> None]
  /\ on = [c \in Callers |-> NoCaller]
  /\ woken = {}
  /\ got = [c \in Callers |-> None]
  /\ result = [c \in Callers |-> None]
  /\ ended = {}

Goto(c, to) == pc' = [pc EXCEPT ![c] = to]

(* Mutant: a failure is passed on although there is a session to return.   *)
ReturnAsIs(c, r) ==
  /\ result' = [result EXCEPT ![c] = r]
  /\ Goto(c, "returned")

(* A call returns r to c; Session falls back on the session it found.      *)
Return(c, r) ==
  /\ result' = [result EXCEPT ![c] = IF r < 0 /\ kept[c] # None THEN kept[c] ELSE r]
  /\ Goto(c, "returned")

------------------------------------------------------------------------------

(* The server's session changes.                                           *)
ServerChanges ==
  /\ server < MaxVersion
  /\ server' = server + 1
  /\ UNCHANGED <<client, pc, kept, on, woken, got, result, ended>>

ContextEnds(c) ==
  /\ pc[c] \in {"entering", "waiting", "fetching"}
  /\ c \notin ended
  /\ ended' = ended \cup {c}
  /\ UNCHANGED <<server, client, pc, kept, on, woken, got, result>>

(* Session finds one that no response has said is out of date.             *)
SessionHeld(c) ==
  /\ pc[c] = "idle"
  /\ session # None /\ ~ stale
  /\ Return(c, session)
  /\ UNCHANGED <<server, client, kept, on, woken, got, ended>>

(* Mutant: a session once fetched is not fetched again.                    *)
SessionFetchesOnce(c) ==
  /\ pc[c] = "idle"
  /\ session = None
  /\ kept' = [kept EXCEPT ![c] = session]
  /\ Goto(c, "entering")
  /\ UNCHANGED <<server, client, on, woken, got, result, ended>>

(* Session finds none, or one out of date, and fetches it.                 *)
SessionFetches(c) ==
  /\ pc[c] = "idle"
  /\ session = None \/ stale
  /\ kept' = [kept EXCEPT ![c] = session]
  /\ Goto(c, "entering")
  /\ UNCHANGED <<server, client, on, woken, got, result, ended>>

RefreshSession(c) ==
  /\ pc[c] = "idle"
  /\ Goto(c, "entering")
  /\ UNCHANGED <<server, client, kept, on, woken, got, result, ended>>

(* fetchSession, from the loop's condition on: c makes a fetch where none  *)
(* is in progress, and waits on the one that is.                           *)
FetchOrJoin(c) ==
  \/ /\ fetching = NoCaller
     /\ fetching' = c
     /\ Goto(c, "fetching")
     /\ on' = [on EXCEPT ![c] = NoCaller]
  \/ /\ fetching # NoCaller
     /\ on' = [on EXCEPT ![c] = fetching]
     /\ Goto(c, "waiting")
     /\ UNCHANGED fetching

FetchSession(c) ==
  /\ pc[c] = "entering"
  /\ FetchOrJoin(c)
  /\ UNCHANGED <<server, session, stale, fetchErr, fetchAbandoned, kept, woken, got,
                 result, ended>>

(* getSession ends: the server answers with the session as it stands, the  *)
(* fetch fails, or the caller's context ends first.                        *)
FetchEnds(c) ==
  /\ pc[c] = "fetching"
  /\ \E r \in {server, Failed} \cup (IF c \in ended THEN {Ended} ELSE {}) :
       got' = [got EXCEPT ![c] = r]
  /\ Goto(c, "answered")
  /\ UNCHANGED <<server, client, kept, on, woken, result, ended>>

(* Its outcome is stored.  fetchAbandoned is endedWith(ctx, err): the      *)
(* error has to be the context's, and the context ended.                   *)
StoreFetch(c) ==
  /\ pc[c] = "answered"
  /\ fetching' = NoCaller
  /\ fetchErr' = IF got[c] < 0 THEN got[c] ELSE None
  /\ fetchAbandoned' = (got[c] = Ended)
  /\ IF got[c] < 0
       THEN UNCHANGED <<session, stale>>
       ELSE session' = got[c] /\ stale' = FALSE
  /\ Goto(c, "closing")
  /\ UNCHANGED <<server, kept, on, woken, got, result, ended>>

(* Mutant: fetchSession returns without closing its channel.               *)
CloseFetchNever(c) ==
  /\ pc[c] = "closing"
  /\ Return(c, got[c])
  /\ got' = [got EXCEPT ![c] = None]
  /\ UNCHANGED <<server, client, kept, on, woken, ended>>

(* close(wait), and fetchSession returns.                                  *)
CloseFetch(c) ==
  /\ pc[c] = "closing"
  /\ woken' = woken \cup {w \in Callers : pc[w] = "waiting" /\ on[w] = c}
  /\ Return(c, got[c])
  /\ got' = [got EXCEPT ![c] = None]
  /\ UNCHANGED <<server, client, kept, on, ended>>

Unjoin(c) ==
  /\ woken' = woken \ {c}
  /\ on' = [on EXCEPT ![c] = NoCaller]

Woken(c) == pc[c] = "waiting" /\ c \in woken

(* Mutant: a fetch another caller gave up on is an error like any other.   *)
WakeWithItsError(c) ==
  /\ Woken(c)
  /\ Return(c, IF fetchErr = None THEN session ELSE fetchErr)
  /\ Unjoin(c)
  /\ UNCHANGED <<server, client, kept, got, ended>>

(* The fetch waited on ended, and its outcome is read under the lock: a    *)
(* session, or a failure not of a caller that gave up.                     *)
WakeAnswered(c) ==
  /\ Woken(c)
  /\ fetchErr = None \/ ~ fetchAbandoned
  /\ Return(c, IF fetchErr = None THEN session ELSE fetchErr)
  /\ Unjoin(c)
  /\ UNCHANGED <<server, client, kept, got, ended>>

(* The caller making it gave up, and so has c.                             *)
WakeEnded(c) ==
  /\ Woken(c)
  /\ fetchErr # None /\ fetchAbandoned /\ c \in ended
  /\ Return(c, Ended)
  /\ Unjoin(c)
  /\ UNCHANGED <<server, client, kept, got, ended>>

(* c has not: it goes round again, under the same hold of the lock.        *)
WakeAbandoned(c) ==
  /\ Woken(c)
  /\ fetchErr # None /\ fetchAbandoned /\ c \notin ended
  /\ woken' = woken \ {c}
  /\ FetchOrJoin(c)
  /\ UNCHANGED <<server, session, stale, fetchErr, fetchAbandoned, kept, got, result,
                 ended>>

(* The select finds c's own context ended.                                 *)
StopWaiting(c) ==
  /\ pc[c] = "waiting" /\ c \in ended
  /\ Return(c, Ended)
  /\ Unjoin(c)
  /\ UNCHANGED <<server, client, kept, got, ended>>

(* noteSessionState: an answer to a request carries the state the server   *)
(* had as it gave it.  Any number of requests are out, so an answer given  *)
(* before a change may be noted after it, and after a later one.           *)
Differs(state) ==
  /\ Refresh
  /\ session # None /\ session \notin Stateless
  /\ session # state

NoteSessionState(state) ==
  /\ stale' = (stale \/ Differs(state))
  /\ UNCHANGED <<server, session, fetching, fetchErr, fetchAbandoned, pc, kept, on,
                 woken, got, result, ended>>

(* The caller has what it called for, and its context with it.             *)
Done(c) ==
  /\ pc[c] = "returned"
  /\ kept' = [kept EXCEPT ![c] = None]
  /\ result' = [result EXCEPT ![c] = None]
  /\ ended' = ended \ {c}
  /\ Goto(c, "idle")
  /\ UNCHANGED <<server, client, on, woken, got>>

Call(c) == SessionHeld(c) \/ SessionFetches(c) \/ RefreshSession(c)

Proceed(c) ==
  \/ FetchSession(c)
  \/ FetchEnds(c)
  \/ StoreFetch(c)
  \/ CloseFetch(c)
  \/ WakeAnswered(c)
  \/ WakeEnded(c)
  \/ WakeAbandoned(c)
  \/ StopWaiting(c)
  \/ Done(c)

Next ==
  \/ ServerChanges
  \/ \E state \in 1..server : NoteSessionState(state)
  \/ \E c \in Callers : Call(c) \/ Proceed(c) \/ ContextEnds(c)

Spec == Init /\ [][Next]_vars

(* A goroutine that can run does, and a fetch or a post ends.  Nothing     *)
(* makes a caller call, and nothing makes a fetch succeed.                 *)
FairSpec == Spec /\ \A c \in Callers : WF_vars(Proceed(c))

------------------------------------------------------------------------------

(* The types of the fields, and of what the callers carry.                 *)
TypeOK ==
  /\ server \in Versions
  /\ session \in Versions \cup {None}
  /\ stale \in BOOLEAN
  /\ fetching \in Callers \cup {NoCaller}
  /\ fetchErr \in {None, Failed, Ended}
  /\ fetchAbandoned \in BOOLEAN
  /\ pc \in [Callers -> PC]
  /\ kept \in [Callers -> Versions \cup {None}]
  /\ on \in [Callers -> Callers \cup {NoCaller}]
  /\ woken \in SUBSET Callers
  /\ got \in [Callers -> Versions \cup {None, Failed, Ended}]
  /\ result \in [Callers -> Versions \cup {None, Failed, Ended}]
  /\ ended \in SUBSET Callers

(* A caller is told a context ended only where its own did: one that gives *)
(* up on the fetch it makes fails nobody waiting on it.                    *)
OnlyOwnContextEnds == \A c \in Callers : result[c] = Ended => c \in ended

(* A call that waited, or fell back, returns nothing older than the        *)
(* session the client held as it was made.                                 *)
NeverOlderThanHeld ==
  \A c \in Callers : pc[c] = "returned" /\ kept[c] # None => result[c] >= kept[c]

(* Every call returns: the channel waited on is closed whoever fetches,    *)
(* fails or gives up, even where another fetch starts in between.  A waiter *)
(* goes round again for as long as the fetches it joins are given up, so   *)
(* that has to stop.                                                       *)
FetchesGivenUpFinitelyOften ==
  <>[][\A c \in Callers : StoreFetch(c) => got[c] # Ended]_vars

EveryCallReturns ==
  FetchesGivenUpFinitelyOften =>
    \A c \in Callers : pc[c] \in {"entering", "waiting"} ~> pc[c] = "returned"

(* The client is in use: answers keep arriving, Session keeps being called *)
(* and the fetches made are not refused for ever.                          *)
FetchSucceeds(c) == FetchEnds(c) /\ got'[c] # Failed /\ got'[c] # Ended

InUse ==
  /\ WF_vars(NoteSessionState(server))
  /\ \A c \in Callers : SF_vars(SessionFetches(c)) /\ SF_vars(FetchSucceeds(c))

(* A session out of date does not stay so while the client is in use: it   *)
(* comes to hold the server's session.  A notice that a fetch in progress  *)
(* withdraws is given again by a later answer.                             *)
ComesUpToDate == InUse => <>[](session = server \/ session \in Stateless)

==============================================================================
