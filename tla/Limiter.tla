------------------------------- MODULE Limiter -------------------------------
(***************************************************************************)
(* limit.go: the limiter that keeps a client to the number of requests the *)
(* server accepts at once, with the callers that use it (client.go:post).  *)
(*                                                                         *)
(* A caller reads the limit from the session under the client's mutex      *)
(* (ReadLimit), then asks for a slot under the limiter's own mutex (Hold): *)
(* the session may be replaced between the two.  Everything done under one *)
(* hold of limiter.mu is one action.  A waiter's select is an action of    *)
(* its own, because a slot handed over and a context that ended may both   *)
(* be ready when it runs.                                                  *)
(***************************************************************************)
EXTENDS Integers, Sequences, FiniteSets

CONSTANTS
  Callers,    \* the goroutines sending requests; each sends any number of them
  Limits      \* the numbers a server may state; 0 is none stated

ASSUME CallersAssumption == IsFiniteSet(Callers)
ASSUME LimitsAssumption  == Limits \subseteq Nat /\ Limits # {}

VARIABLES
  stated,     \* the number the session held by the client states
  asked,      \* the number a caller has read and not yet passed to hold
  limit,      \* limiter.limit
  held,       \* limiter.held
  waiting,    \* limiter.waiting, oldest first: the caller stands for its channel
  closed,     \* the callers whose slot channel is closed and not yet received from
  ended,      \* the callers whose context has ended
  pc          \* where each caller is

vars == <<stated, asked, limit, held, waiting, closed, ended, pc>>

PC == {"idle", "asking", "waiting", "leaving", "holding"}

Elements(w) == {w[i] : i \in 1..Len(w)}

Free(h, l) == l = 0 \/ h < l

Given(n, h, l) ==
  IF l = 0 \/ n <= l - h THEN n ELSE IF h < l THEN l - h ELSE 0

(* handOut, run on a queue w with h slots held and c the closed channels.  *)
HandOut(w, h, l, c) ==
  LET n == Given(Len(w), h, l) IN
  /\ waiting' = SubSeq(w, n + 1, Len(w))
  /\ held'    = h + n
  /\ closed'  = c \cup {w[i] : i \in 1..n}

------------------------------------------------------------------------------

Init ==
  /\ stated \in Limits
  /\ asked = [c \in Callers |-> stated]
  /\ limit = 0
  /\ held = 0
  /\ waiting = <<>>
  /\ closed = {}
  /\ ended = {}
  /\ pc = [c \in Callers |-> "idle"]

(* fetchSession stores a session that states another number.               *)
SessionStates(n) ==
  /\ n # stated
  /\ stated' = n
  /\ UNCHANGED <<asked, limit, held, waiting, closed, ended, pc>>

(* A caller starts a request under a context of its own, and reads what    *)
(* the session states: Client.limit, called before hold takes its lock.    *)
ReadLimit(c) ==
  /\ pc[c] = "idle"
  /\ asked' = [asked EXCEPT ![c] = stated]
  /\ ended' = ended \ {c}
  /\ pc' = [pc EXCEPT ![c] = "asking"]
  /\ UNCHANGED <<stated, limit, held, waiting, closed>>

(* hold finds no caller left waiting and a slot free, and takes it.        *)
HoldAtOnce(c) ==
  /\ pc[c] = "asking"
  /\ limit' = asked[c]
  /\ LET n == Given(Len(waiting), held, asked[c]) IN
       /\ n = Len(waiting)
       /\ Free(held + n, asked[c])
       /\ held' = held + n + 1
       /\ closed' = closed \cup Elements(waiting)
  /\ waiting' = <<>>
  /\ pc' = [pc EXCEPT ![c] = "holding"]
  /\ UNCHANGED <<stated, asked, ended>>

(* hold hands out what the new limit allows, and joins those left waiting. *)
HoldWaits(c) ==
  /\ pc[c] = "asking"
  /\ limit' = asked[c]
  /\ LET n == Given(Len(waiting), held, asked[c]) IN
       /\ ~ (n = Len(waiting) /\ Free(held + n, asked[c]))
       /\ waiting' = Append(SubSeq(waiting, n + 1, Len(waiting)), c)
       /\ held' = held + n
       /\ closed' = closed \cup {waiting[i] : i \in 1..n}
  /\ pc' = [pc EXCEPT ![c] = "waiting"]
  /\ UNCHANGED <<stated, asked, ended>>

(* The waiter's select: its slot was handed over.                          *)
TakeSlot(c) ==
  /\ pc[c] = "waiting"
  /\ c \in closed
  /\ closed' = closed \ {c}
  /\ pc' = [pc EXCEPT ![c] = "holding"]
  /\ UNCHANGED <<stated, asked, limit, held, waiting, ended>>

(* The waiter's select: its context ended.  The slot may be ready too.     *)
GiveUp(c) ==
  /\ pc[c] = "waiting"
  /\ c \in ended
  /\ pc' = [pc EXCEPT ![c] = "leaving"]
  /\ UNCHANGED <<stated, asked, limit, held, waiting, closed, ended>>

(* The queue without its ith caller.                                       *)
Without(w, i) == [j \in 1..(Len(w) - 1) |-> IF j < i THEN w[j] ELSE w[j + 1]]

(* abandon finds the caller still in the queue.                            *)
AbandonQueue(c) ==
  /\ pc[c] = "leaving"
  /\ \E i \in 1..Len(waiting) : waiting[i] = c /\ waiting' = Without(waiting, i)
  /\ pc' = [pc EXCEPT ![c] = "idle"]
  /\ UNCHANGED <<stated, asked, limit, held, closed, ended>>

(* Mutant: the slot that came with the end of the context is dropped.      *)
AbandonForgets(c) ==
  /\ pc[c] = "leaving"
  /\ c \notin Elements(waiting)
  /\ closed' = closed \ {c}
  /\ pc' = [pc EXCEPT ![c] = "idle"]
  /\ UNCHANGED <<stated, asked, limit, held, waiting, ended>>

(* Mutant: it is counted back, and offered to nobody.                      *)
AbandonOffersNobody(c) ==
  /\ pc[c] = "leaving"
  /\ c \notin Elements(waiting)
  /\ closed' = closed \ {c}
  /\ held' = held - 1
  /\ pc' = [pc EXCEPT ![c] = "idle"]
  /\ UNCHANGED <<stated, asked, limit, waiting, ended>>

(* abandon does not find it, so its slot was handed over and goes back.    *)
AbandonSlot(c) ==
  /\ pc[c] = "leaving"
  /\ c \notin Elements(waiting)
  /\ HandOut(waiting, held - 1, limit, closed \ {c})
  /\ pc' = [pc EXCEPT ![c] = "idle"]
  /\ UNCHANGED <<stated, asked, limit, ended>>

(* Mutant: the release function can be called twice.                       *)
ReleaseTwice(c) ==
  /\ pc[c] = "holding"
  /\ HandOut(waiting, held - 1, limit, closed)
  /\ pc' \in {pc, [pc EXCEPT ![c] = "idle"]}
  /\ UNCHANGED <<stated, asked, limit, ended>>

(* The exchange has ended, with an answer or an error: the deferred release. *)
Release(c) ==
  /\ pc[c] = "holding"
  /\ HandOut(waiting, held - 1, limit, closed)
  /\ pc' = [pc EXCEPT ![c] = "idle"]
  /\ UNCHANGED <<stated, asked, limit, ended>>

ContextEnds(c) ==
  /\ pc[c] # "idle"
  /\ c \notin ended
  /\ ended' = ended \cup {c}
  /\ UNCHANGED <<stated, asked, limit, held, waiting, closed, pc>>

Caller(c) ==
  \/ ReadLimit(c)
  \/ HoldAtOnce(c)
  \/ HoldWaits(c)
  \/ TakeSlot(c)
  \/ GiveUp(c)
  \/ AbandonQueue(c)
  \/ AbandonSlot(c)
  \/ Release(c)

Next ==
  \/ \E n \in Limits : SessionStates(n)
  \/ \E c \in Callers : Caller(c) \/ ContextEnds(c)

Spec == Init /\ [][Next]_vars

(***************************************************************************)
(* A goroutine that can run does, and an exchange ends: the server answers *)
(* or the transport fails.  Nothing makes a caller start a request, a      *)
(* context end, or the server state another number.                        *)
(***************************************************************************)
Fairness ==
  \A c \in Callers :
    /\ WF_vars(HoldAtOnce(c) \/ HoldWaits(c))
    /\ WF_vars(TakeSlot(c) \/ GiveUp(c))
    /\ WF_vars(AbandonQueue(c) \/ AbandonSlot(c))
    /\ WF_vars(Release(c))

FairSpec == Spec /\ Fairness

------------------------------------------------------------------------------

(* The types of the limiter's fields and of the callers' bookkeeping.      *)
TypeOK ==
  /\ stated \in Limits
  /\ asked \in [Callers -> Limits]
  /\ limit \in Nat
  /\ held \in Nat
  /\ waiting \in Seq(Callers)
  /\ closed \in SUBSET Callers
  /\ ended \in SUBSET Callers
  /\ pc \in [Callers -> PC]

(* The callers a slot is out to: those sending a request, and those whose  *)
(* channel was closed and who have not received from it yet.               *)
Owners == {c \in Callers : pc[c] = "holding"} \cup closed

(* limiter.held counts exactly the slots that are out.  A caller that gives *)
(* up in the very step its slot is handed over returns it (abandon), so no *)
(* slot is lost and none is returned twice.                                *)
SlotsAccounted == held = Cardinality(Owners)

(* No lost wake-up: while anyone waits, no slot is free under the limit in *)
(* force, whichever of hold, release and abandon ran last.                 *)
NoIdleSlot == waiting # <<>> => ~ Free(held, limit)

(* Every caller that waits is given a slot or gives up: the queue never    *)
(* strands one while requests in flight end.                               *)
EveryWaiterAnswered ==
  \A c \in Callers : pc[c] = "waiting" ~> pc[c] \in {"holding", "idle"}

(* Refinement: the limiter, with its channels, its counter and the select  *)
(* that may find both a slot and an ended context, is a SlotPool.          *)
Pool == INSTANCE SlotPool WITH Caps <- Limits, cap <- limit, queue <- waiting,
                               out <- Owners

IsSlotPool == Pool!PoolSpec

==============================================================================
