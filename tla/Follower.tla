------------------------------- MODULE Follower -------------------------------
(***************************************************************************)
(* What Watch promises: a follower of a state that changes somewhere else  *)
(* holds a state the server has reached, moves only forward, and moves no  *)
(* more once it has stopped.                                               *)
(***************************************************************************)
EXTENDS Integers

CONSTANT MaxState     \* bound: the states the server goes through

VARIABLES
  current,    \* the server's state
  held,       \* the state the follower holds
  stopped     \* the follower has returned

FollowerInit ==
  /\ current \in 1..MaxState
  /\ held \in 1..current
  /\ stopped = FALSE

Change == current < MaxState /\ current' = current + 1 /\ UNCHANGED <<held, stopped>>

Follow == ~stopped /\ held' \in (held + 1)..current /\ UNCHANGED <<current, stopped>>

Stop == ~stopped /\ stopped' = TRUE /\ UNCHANGED <<current, held>>

FollowerNext == Change \/ Follow \/ Stop

FollowerSpec == FollowerInit /\ [][FollowerNext]_<<current, held, stopped>>

==============================================================================
