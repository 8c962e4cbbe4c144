------------------------------- MODULE SlotPool -------------------------------
(***************************************************************************)
(* What the limiter of limit.go promises, whatever channels and locks it   *)
(* uses: a pool of slots with one queue.  Whoever asks joins the end of    *)
(* the queue, and the queue is then served from its head for as long as    *)
(* the cap allows: nobody is served beyond the cap, and nobody is left     *)
(* waiting beside a free slot.                                             *)
(***************************************************************************)
EXTENDS Integers, Sequences, FiniteSets

CONSTANTS Callers, Caps

VARIABLES
  cap,      \* the slots there are, and 0 for as many as are asked for
  queue,    \* those waiting for one, oldest first
  out       \* those that have one

poolVars == <<cap, queue, out>>

Fits(n, l) == l = 0 \/ n <= l

(* The pool once the first k of q have joined the owners o, under cap l.   *)
Served(q, o, l, k) ==
  /\ k > 0 => Fits(Cardinality(o) + k, l)
  /\ k < Len(q) => ~ Fits(Cardinality(o) + k + 1, l)
  /\ cap' = l
  /\ queue' = SubSeq(q, k + 1, Len(q))
  /\ out' = o \cup {q[i] : i \in 1..k}

Serve(q, o, l) == \E k \in 0..Len(q) : Served(q, o, l, k)

PoolInit == cap = 0 /\ queue = <<>> /\ out = {}

(* c asks for a slot, and says how many there are.                         *)
Join(c, l) ==
  /\ c \notin out
  /\ \A i \in 1..Len(queue) : queue[i] # c
  /\ Serve(Append(queue, c), out, l)

(* c stops waiting.                                                        *)
Leave(c) ==
  /\ \E i \in 1..Len(queue) :
       /\ queue[i] = c
       /\ queue' = [j \in 1..(Len(queue) - 1) |-> IF j < i THEN queue[j] ELSE queue[j + 1]]
  /\ UNCHANGED <<cap, out>>

(* c gives its slot back.                                                  *)
Return(c) == c \in out /\ Serve(queue, out \ {c}, cap)

PoolNext ==
  \E c \in Callers : Leave(c) \/ Return(c) \/ \E l \in Caps : Join(c, l)

PoolSpec == PoolInit /\ [][PoolNext]_poolVars

==============================================================================
