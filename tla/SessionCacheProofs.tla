-------------------------- MODULE SessionCacheProofs --------------------------
(***************************************************************************)
(* Proofs about the session cache, for any callers, any number of versions *)
(* of the server's session, and any of them without a state.               *)
(***************************************************************************)
EXTENDS SessionCache, TLAPS

------------------------------------------------------------------------------
(* The inductive invariant.  That nobody is given a session older than the *)
(* one held when it called rests on the session held never going back, and *)
(* that on the answer to the one fetch in progress being as new.           *)

(* Whoever is making a fetch is the caller fetching names.                 *)
OneFetch == \A c \in Callers : pc[c] \in {"fetching", "answered"} => fetching = c

(* What a caller's own fetch was answered, while it has yet to return it.  *)
AnswersKept ==
  \A c \in Callers :
    /\ pc[c] \in {"answered", "closing"} <=> got[c] # None
    /\ got[c] = Ended => c \in ended
    /\ pc[c] = "answered" /\ got[c] > 0 => got[c] >= session
    /\ got[c] > 0 => got[c] >= kept[c] /\ got[c] <= server

(* The session a call fell back on has only been replaced by newer ones.   *)
NoneNewerThanServer ==
  /\ session <= server
  /\ \A c \in Callers : kept[c] <= session /\ (pc[c] = "idle" => kept[c] = None)

ErrorsTold == fetchAbandoned = (fetchErr = Ended)

IInv ==
  /\ TypeOK
  /\ OneFetch
  /\ AnswersKept
  /\ NoneNewerThanServer
  /\ ErrorsTold
  /\ OnlyOwnContextEnds
  /\ NeverOlderThanHeld

------------------------------------------------------------------------------

(* What the numbers are: everything a fetch is answered is an integer, and *)
(* only versions are above None.                                           *)
LEMMA Numbers ==
  /\ None = 0 /\ Failed = -1 /\ Ended = -2
  /\ \A v \in Versions : v \in Nat /\ v > 0
  /\ 1 \in Versions
  BY VersionAssumption DEF None, Failed, Ended, Versions

(* The client starts with no session and nobody calling.                   *)
LEMMA InitInv == Init => IInv
<1> SUFFICES ASSUME Init PROVE IInv
  OBVIOUS
<1> USE DEF Init
<1>1. TypeOK
  BY Numbers DEF TypeOK, PC
<1>2. OneFetch
  BY DEF OneFetch
<1>3. AnswersKept
  BY Numbers DEF AnswersKept
<1>4. NoneNewerThanServer
  BY Numbers DEF NoneNewerThanServer
<1>5. ErrorsTold
  <2>1. fetchErr # Ended
    BY Numbers
  <2> QED BY <2>1 DEF ErrorsTold
<1>6. OnlyOwnContextEnds /\ NeverOlderThanHeld
  BY Numbers DEF OnlyOwnContextEnds, NeverOlderThanHeld
<1> QED BY <1>1, <1>2, <1>3, <1>4, <1>5, <1>6 DEF IInv

(* The types are kept by every step.                                       *)
LEMMA TypesKept == TypeOK /\ [Next]_vars => TypeOK'
<1> SUFFICES ASSUME TypeOK, [Next]_vars PROVE TypeOK'
  OBVIOUS
<1> USE Numbers DEF TypeOK, PC
<1>1. CASE ServerChanges
  BY <1>1, VersionAssumption DEF ServerChanges, client, Versions
<1>2. CASE \E state \in 1..server : NoteSessionState(state)
  <2>1. stale' \in BOOLEAN /\ UNCHANGED <<server, session, fetching, fetchErr, fetchAbandoned>>
    BY <1>2, Zenon DEF NoteSessionState
  <2>2. UNCHANGED <<pc, kept, on, woken, got, result, ended>>
    BY <1>2 DEF NoteSessionState
  <2> QED BY <2>1, <2>2
<1>3. ASSUME NEW c \in Callers, Call(c) \/ Proceed(c) \/ ContextEnds(c)
      PROVE  TypeOK'
  <2>1. CASE SessionHeld(c)
    BY <2>1 DEF SessionHeld, Return, Goto, client
  <2>2. CASE SessionFetches(c)
    BY <2>2 DEF SessionFetches, Goto, client
  <2>3. CASE RefreshSession(c)
    BY <2>3 DEF RefreshSession, Goto, client
  <2>4. CASE FetchSession(c)
    BY <2>4 DEF FetchSession, FetchOrJoin, Goto
  <2>5. CASE FetchEnds(c)
    BY <2>5 DEF FetchEnds, Goto, client
  <2>6. CASE StoreFetch(c)
    <3>1. fetchAbandoned' \in BOOLEAN
      BY <2>6 DEF StoreFetch
    <3>2. /\ fetchErr' \in {None, Failed, Ended}
          /\ session' \in Versions \cup {None} /\ stale' \in BOOLEAN
      <4>1. CASE got[c] < 0
        <5>1. got[c] \in {Failed, Ended}
          BY <4>1
        <5> QED BY <2>6, <4>1, <5>1 DEF StoreFetch
      <4>2. CASE ~(got[c] < 0)
        <5>1. got[c] \in Versions \cup {None}
          BY <4>2
        <5> QED BY <2>6, <4>2, <5>1 DEF StoreFetch
      <4> QED BY <4>1, <4>2
    <3> QED BY <2>6, <3>1, <3>2 DEF StoreFetch, Goto
  <2>7. CASE CloseFetch(c)
    BY <2>7 DEF CloseFetch, Return, Goto, client
  <2>8. CASE WakeAnswered(c)
    BY <2>8 DEF WakeAnswered, Unjoin, Return, Goto, client
  <2>9. CASE WakeEnded(c)
    BY <2>9 DEF WakeEnded, Unjoin, Return, Goto, client
  <2>10. CASE WakeAbandoned(c)
    BY <2>10 DEF WakeAbandoned, FetchOrJoin, Goto
  <2>11. CASE StopWaiting(c)
    BY <2>11 DEF StopWaiting, Unjoin, Return, Goto, client
  <2>12. CASE Done(c)
    BY <2>12 DEF Done, Goto, client
  <2>13. CASE ContextEnds(c)
    BY <2>13 DEF ContextEnds, client
  <2> QED BY <1>3, <2>1, <2>2, <2>3, <2>4, <2>5, <2>6, <2>7, <2>8, <2>9, <2>10, <2>11, <2>12, <2>13
          DEF Call, Proceed
<1>4. CASE UNCHANGED vars
  BY <1>4 DEF vars, client
<1> QED BY <1>1, <1>2, <1>3, <1>4 DEF Next

(* The rest is kept as well, by each step in turn.                         *)
LEMMA NextInv == IInv /\ [Next]_vars => IInv'
<1> SUFFICES ASSUME IInv, [Next]_vars PROVE IInv'
  OBVIOUS
<1>0. TypeOK'
  BY TypesKept DEF IInv
<1> USE Numbers DEF IInv
<1>1. CASE ServerChanges
  <2>1. OneFetch' /\ ErrorsTold' /\ OnlyOwnContextEnds' /\ NeverOlderThanHeld'
    BY <1>1 DEF ServerChanges, client, OneFetch, ErrorsTold, OnlyOwnContextEnds, NeverOlderThanHeld
  <2>2. server \in Nat /\ server' = server + 1 /\ UNCHANGED <<session, got, kept, pc, ended>>
    BY <1>1, VersionAssumption DEF ServerChanges, client, TypeOK, Versions
  <2>3. AnswersKept'
    <3>1. \A c \in Callers : got[c] \in Int
      BY DEF TypeOK
    <3> QED BY <2>2, <3>1 DEF AnswersKept
  <2>4. NoneNewerThanServer'
    <3>1. session \in Int
      BY DEF TypeOK
    <3> QED BY <2>2, <3>1 DEF NoneNewerThanServer
  <2> QED BY <1>0, <2>1, <2>3, <2>4
<1>2. CASE \E state \in 1..server : NoteSessionState(state)
  <2>1. UNCHANGED <<server, session, fetching, fetchErr, fetchAbandoned, pc, kept, got, result, ended>>
    BY <1>2 DEF NoteSessionState
  <2> QED BY <1>0, <2>1 DEF OneFetch, AnswersKept, NoneNewerThanServer, ErrorsTold, OnlyOwnContextEnds,
                            NeverOlderThanHeld
<1>3. ASSUME NEW c \in Callers, Call(c) \/ Proceed(c) \/ ContextEnds(c)
      PROVE  IInv'
  <2>1. CASE SessionHeld(c)
    <3>1. OneFetch'
      BY <2>1 DEF SessionHeld, Return, Goto, client, OneFetch
    <3>2. AnswersKept'
      BY <2>1 DEF SessionHeld, Return, Goto, client, AnswersKept
    <3>3. NoneNewerThanServer'
      BY <2>1 DEF SessionHeld, Return, Goto, client, NoneNewerThanServer
    <3>4. ErrorsTold'
      BY <2>1 DEF SessionHeld, Return, Goto, client, ErrorsTold
    <3>5. OnlyOwnContextEnds'
      BY <2>1 DEF SessionHeld, Return, Goto, client, OnlyOwnContextEnds, TypeOK
    <3>6. NeverOlderThanHeld'
BY <2>1 DEF SessionHeld, Return, Goto, client, TypeOK, OneFetch, AnswersKept, NoneNewerThanServer,
             ErrorsTold, OnlyOwnContextEnds, NeverOlderThanHeld
    <3> QED BY <1>0, <3>1, <3>2, <3>3, <3>4, <3>5, <3>6
  <2>2. CASE SessionFetches(c)
    <3>1. OneFetch'
      BY <2>2 DEF SessionFetches, Goto, client, OneFetch
    <3>2. AnswersKept'
      BY <2>2 DEF SessionFetches, Goto, client, AnswersKept
    <3>3. NoneNewerThanServer'
      BY <2>2 DEF SessionFetches, Goto, client, NoneNewerThanServer, TypeOK
    <3>4. ErrorsTold'
      BY <2>2 DEF SessionFetches, Goto, client, ErrorsTold
    <3>5. OnlyOwnContextEnds'
      BY <2>2 DEF SessionFetches, Goto, client, OnlyOwnContextEnds
    <3>6. NeverOlderThanHeld'
      BY <2>2 DEF SessionFetches, Goto, client, NeverOlderThanHeld
    <3> QED BY <1>0, <3>1, <3>2, <3>3, <3>4, <3>5, <3>6
  <2>3. CASE RefreshSession(c)
    <3>1. OneFetch'
      BY <2>3 DEF RefreshSession, Goto, client, OneFetch
    <3>2. AnswersKept'
      BY <2>3 DEF RefreshSession, Goto, client, AnswersKept
    <3>3. NoneNewerThanServer'
      BY <2>3 DEF RefreshSession, Goto, client, NoneNewerThanServer
    <3>4. ErrorsTold'
      BY <2>3 DEF RefreshSession, Goto, client, ErrorsTold
    <3>5. OnlyOwnContextEnds'
      BY <2>3 DEF RefreshSession, Goto, client, OnlyOwnContextEnds
    <3>6. NeverOlderThanHeld'
      BY <2>3 DEF RefreshSession, Goto, client, NeverOlderThanHeld
    <3> QED BY <1>0, <3>1, <3>2, <3>3, <3>4, <3>5, <3>6
  <2>4. CASE FetchSession(c)
    <3>1. OneFetch'
      BY <2>4, CallersAssumption DEF FetchSession, FetchOrJoin, Goto, OneFetch, TypeOK
    <3>2. AnswersKept'
      BY <2>4 DEF FetchSession, FetchOrJoin, Goto, AnswersKept, TypeOK
    <3>3. NoneNewerThanServer'
      BY <2>4 DEF FetchSession, FetchOrJoin, Goto, NoneNewerThanServer, TypeOK
    <3>4. ErrorsTold'
      BY <2>4 DEF FetchSession, FetchOrJoin, Goto, ErrorsTold
    <3>5. OnlyOwnContextEnds'
      BY <2>4 DEF FetchSession, FetchOrJoin, Goto, OnlyOwnContextEnds
    <3>6. NeverOlderThanHeld'
      BY <2>4 DEF FetchSession, FetchOrJoin, Goto, NeverOlderThanHeld, TypeOK
    <3> QED BY <1>0, <3>1, <3>2, <3>3, <3>4, <3>5, <3>6
  <2>5. CASE FetchEnds(c)
    <3>1. OneFetch'
      BY <2>5 DEF FetchEnds, Goto, client, OneFetch
    <3>2. AnswersKept'
BY <2>5 DEF FetchEnds, Goto, client, TypeOK, OneFetch, AnswersKept, NoneNewerThanServer,
             ErrorsTold, OnlyOwnContextEnds, NeverOlderThanHeld
    <3>3. NoneNewerThanServer'
      BY <2>5 DEF FetchEnds, Goto, client, NoneNewerThanServer
    <3>4. ErrorsTold'
      BY <2>5 DEF FetchEnds, Goto, client, ErrorsTold
    <3>5. OnlyOwnContextEnds'
      BY <2>5 DEF FetchEnds, Goto, client, OnlyOwnContextEnds
    <3>6. NeverOlderThanHeld'
      BY <2>5 DEF FetchEnds, Goto, client, NeverOlderThanHeld
    <3> QED BY <1>0, <3>1, <3>2, <3>3, <3>4, <3>5, <3>6
  <2>6. CASE StoreFetch(c)
    <3>1. OneFetch'
      BY <2>6 DEF StoreFetch, Goto, OneFetch, TypeOK
    <3>2. AnswersKept'
BY <2>6 DEF StoreFetch, Goto, TypeOK, OneFetch, AnswersKept, NoneNewerThanServer, ErrorsTold,
             OnlyOwnContextEnds, NeverOlderThanHeld
    <3>3. NoneNewerThanServer'
      BY <2>6 DEF StoreFetch, Goto, TypeOK, NoneNewerThanServer, AnswersKept
    <3>4. ErrorsTold'
      BY <2>6 DEF StoreFetch, Goto, ErrorsTold
    <3>5. OnlyOwnContextEnds'
      BY <2>6 DEF StoreFetch, Goto, OnlyOwnContextEnds
    <3>6. NeverOlderThanHeld'
      BY <2>6 DEF StoreFetch, Goto, NeverOlderThanHeld
    <3> QED BY <1>0, <3>1, <3>2, <3>3, <3>4, <3>5, <3>6
  <2>7. CASE CloseFetch(c)
    <3>1. OneFetch'
      BY <2>7 DEF CloseFetch, Return, Goto, client, OneFetch
    <3>2. AnswersKept'
      BY <2>7 DEF CloseFetch, Return, Goto, client, AnswersKept, TypeOK
    <3>3. NoneNewerThanServer'
      BY <2>7 DEF CloseFetch, Return, Goto, client, NoneNewerThanServer
    <3>4. ErrorsTold'
      BY <2>7 DEF CloseFetch, Return, Goto, client, ErrorsTold
    <3>5. OnlyOwnContextEnds'
      BY <2>7 DEF CloseFetch, Return, Goto, client, TypeOK, OnlyOwnContextEnds, AnswersKept
    <3>6. NeverOlderThanHeld'
      BY <2>7 DEF CloseFetch, Return, Goto, client, TypeOK, NeverOlderThanHeld, AnswersKept
    <3> QED BY <1>0, <3>1, <3>2, <3>3, <3>4, <3>5, <3>6
  <2>8. CASE WakeAnswered(c)
    <3>1. OneFetch'
      BY <2>8 DEF WakeAnswered, Woken, Unjoin, Return, Goto, client, OneFetch
    <3>2. AnswersKept'
      BY <2>8 DEF WakeAnswered, Woken, Unjoin, Return, Goto, client, AnswersKept
    <3>3. NoneNewerThanServer'
      BY <2>8 DEF WakeAnswered, Woken, Unjoin, Return, Goto, client, NoneNewerThanServer
    <3>4. ErrorsTold'
      BY <2>8 DEF WakeAnswered, Woken, Unjoin, Return, Goto, client, ErrorsTold
    <3>5. OnlyOwnContextEnds'
      <4>1. fetchErr # Ended
        <5>1. CASE fetchErr = None
          BY <5>1
        <5>2. CASE ~ fetchAbandoned
          BY <5>2, Zenon DEF ErrorsTold
        <5> QED BY <2>8, <5>1, <5>2 DEF WakeAnswered
      <4>2. session # Ended
        BY DEF TypeOK
      <4> QED BY <2>8, <4>1, <4>2 DEF WakeAnswered, Unjoin, Return, Goto, client, TypeOK, OnlyOwnContextEnds
    <3>6. NeverOlderThanHeld'
BY <2>8 DEF WakeAnswered, Woken, Unjoin, Return, Goto, client, TypeOK, OneFetch, AnswersKept,
             NoneNewerThanServer, ErrorsTold, OnlyOwnContextEnds, NeverOlderThanHeld
    <3> QED BY <1>0, <3>1, <3>2, <3>3, <3>4, <3>5, <3>6
  <2>9. CASE WakeEnded(c)
    <3>1. OneFetch'
      BY <2>9 DEF WakeEnded, Woken, Unjoin, Return, Goto, client, OneFetch
    <3>2. AnswersKept'
      BY <2>9 DEF WakeEnded, Woken, Unjoin, Return, Goto, client, AnswersKept
    <3>3. NoneNewerThanServer'
      BY <2>9 DEF WakeEnded, Woken, Unjoin, Return, Goto, client, NoneNewerThanServer
    <3>4. ErrorsTold'
      BY <2>9 DEF WakeEnded, Woken, Unjoin, Return, Goto, client, ErrorsTold
    <3>5. OnlyOwnContextEnds'
      BY <2>9 DEF WakeEnded, Woken, Unjoin, Return, Goto, client, OnlyOwnContextEnds
    <3>6. NeverOlderThanHeld'
      BY <2>9 DEF WakeEnded, Woken, Unjoin, Return, Goto, client, NeverOlderThanHeld, TypeOK
    <3> QED BY <1>0, <3>1, <3>2, <3>3, <3>4, <3>5, <3>6
  <2>10. CASE WakeAbandoned(c)
    <3>1. OneFetch'
      BY <2>10, CallersAssumption DEF WakeAbandoned, Woken, FetchOrJoin, Goto, OneFetch, TypeOK
    <3>2. AnswersKept'
      BY <2>10 DEF WakeAbandoned, Woken, FetchOrJoin, Goto, AnswersKept, TypeOK
    <3>3. NoneNewerThanServer'
      BY <2>10 DEF WakeAbandoned, Woken, FetchOrJoin, Goto, NoneNewerThanServer, TypeOK
    <3>4. ErrorsTold'
      BY <2>10 DEF WakeAbandoned, Woken, FetchOrJoin, Goto, ErrorsTold
    <3>5. OnlyOwnContextEnds'
      BY <2>10 DEF WakeAbandoned, Woken, FetchOrJoin, Goto, OnlyOwnContextEnds
    <3>6. NeverOlderThanHeld'
      BY <2>10 DEF WakeAbandoned, Woken, FetchOrJoin, Goto, NeverOlderThanHeld, TypeOK
    <3> QED BY <1>0, <3>1, <3>2, <3>3, <3>4, <3>5, <3>6
  <2>11. CASE StopWaiting(c)
    <3>1. OneFetch'
      BY <2>11 DEF StopWaiting, Unjoin, Return, Goto, client, OneFetch
    <3>2. AnswersKept'
      BY <2>11 DEF StopWaiting, Unjoin, Return, Goto, client, AnswersKept
    <3>3. NoneNewerThanServer'
      BY <2>11 DEF StopWaiting, Unjoin, Return, Goto, client, NoneNewerThanServer
    <3>4. ErrorsTold'
      BY <2>11 DEF StopWaiting, Unjoin, Return, Goto, client, ErrorsTold
    <3>5. OnlyOwnContextEnds'
      BY <2>11 DEF StopWaiting, Unjoin, Return, Goto, client, OnlyOwnContextEnds
    <3>6. NeverOlderThanHeld'
      BY <2>11 DEF StopWaiting, Unjoin, Return, Goto, client, NeverOlderThanHeld, TypeOK
    <3> QED BY <1>0, <3>1, <3>2, <3>3, <3>4, <3>5, <3>6
  <2>12. CASE Done(c)
    <3>1. OneFetch'
      BY <2>12 DEF Done, Goto, client, OneFetch
    <3>2. AnswersKept'
      BY <2>12 DEF Done, Goto, client, AnswersKept
    <3>3. NoneNewerThanServer'
      BY <2>12 DEF Done, Goto, client, NoneNewerThanServer, TypeOK
    <3>4. ErrorsTold'
      BY <2>12 DEF Done, Goto, client, ErrorsTold
    <3>5. OnlyOwnContextEnds'
      BY <2>12 DEF Done, Goto, client, OnlyOwnContextEnds, TypeOK
    <3>6. NeverOlderThanHeld'
      BY <2>12 DEF Done, Goto, client, NeverOlderThanHeld, TypeOK
    <3> QED BY <1>0, <3>1, <3>2, <3>3, <3>4, <3>5, <3>6
  <2>13. CASE ContextEnds(c)
    <3>1. OneFetch'
      BY <2>13 DEF ContextEnds, client, OneFetch
    <3>2. AnswersKept'
      BY <2>13 DEF ContextEnds, client, AnswersKept
    <3>3. NoneNewerThanServer'
      BY <2>13 DEF ContextEnds, client, NoneNewerThanServer
    <3>4. ErrorsTold'
      BY <2>13 DEF ContextEnds, client, ErrorsTold
    <3>5. OnlyOwnContextEnds'
      BY <2>13 DEF ContextEnds, client, OnlyOwnContextEnds
    <3>6. NeverOlderThanHeld'
      BY <2>13 DEF ContextEnds, client, NeverOlderThanHeld
    <3> QED BY <1>0, <3>1, <3>2, <3>3, <3>4, <3>5, <3>6
<2> QED BY <1>3, <2>1, <2>2, <2>3, <2>4, <2>5, <2>6, <2>7, <2>8, <2>9, <2>10, <2>11, <2>12, <2>13
          DEF Call, Proceed
<1>4. CASE UNCHANGED vars
  BY <1>0, <1>4 DEF vars, client, OneFetch, AnswersKept, NoneNewerThanServer, ErrorsTold,
                    OnlyOwnContextEnds, NeverOlderThanHeld
<1> QED BY <1>1, <1>2, <1>3, <1>4 DEF Next

(* So all of it holds of every reachable state.                           *)
LEMMA Invariant == Spec => []IInv
<1> QED BY InitInv, NextInv, PTL DEF Spec

------------------------------------------------------------------------------

(* A caller is told a context ended only where its own did, whoever else   *)
(* gives up on the fetch it waits for.                                     *)
THEOREM OwnContextOnly == Spec => []OnlyOwnContextEnds
<1>1. IInv => OnlyOwnContextEnds
  BY DEF IInv
<1> QED BY <1>1, Invariant, PTL

(* A call returns nothing older than the session held as it was made.      *)
THEOREM NothingOlder == Spec => []NeverOlderThanHeld
<1>1. IInv => NeverOlderThanHeld
  BY DEF IInv
<1> QED BY <1>1, Invariant, PTL

==============================================================================
