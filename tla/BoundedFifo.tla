---------------------------- MODULE BoundedFifo ----------------------------
(***************************************************************************)
(* What a ring buffer promises: a bounded first-in first-out queue for any *)
(* number of threads.  An item holds its place from the moment a producer  *)
(* is given it, can be taken once its push is complete, and its slot is    *)
(* free again once the consumer that took it is done.                      *)
(***************************************************************************)
EXTENDS Naturals, Sequences, FiniteSets

CONSTANTS Consumers, Items, Capacity, None

VARIABLES
  queue,     \* the places taken, oldest first: [item, ready]
  leaving,   \* consumers still inside the slot they took
  taken      \* latest result of each consumer

fifoVars == <<queue, leaving, taken>>

FifoInit ==
  /\ queue = <<>>
  /\ leaving = {}
  /\ taken = [c \in Consumers |-> None]

Enqueue(x) ==
  /\ Len(queue) + Cardinality(leaving) < Capacity
  /\ queue' = Append(queue, [item |-> x, ready |-> FALSE])
  /\ UNCHANGED <<leaving, taken>>

Complete(i) ==
  /\ ~queue[i].ready
  /\ queue' = [queue EXCEPT ![i].ready = TRUE]
  /\ UNCHANGED <<leaving, taken>>

Dequeue(c) ==
  /\ c \notin leaving
  /\ queue # <<>>
  /\ Head(queue).ready
  /\ taken' = [taken EXCEPT ![c] = Head(queue).item]
  /\ leaving' = leaving \cup {c}
  /\ queue' = Tail(queue)

Leave(c) ==
  /\ c \in leaving
  /\ leaving' = leaving \ {c}
  /\ UNCHANGED <<queue, taken>>

\* Nothing to take: the oldest item, if any, is still being pushed.
FindNone(c) ==
  /\ c \notin leaving
  /\ queue # <<>> => ~Head(queue).ready
  /\ taken' = [taken EXCEPT ![c] = None]
  /\ UNCHANGED <<queue, leaving>>

FifoNext ==
  \/ \E x \in Items : Enqueue(x)
  \/ \E i \in DOMAIN queue : Complete(i)
  \/ \E c \in Consumers : Dequeue(c) \/ Leave(c) \/ FindNone(c)

FifoSpec == FifoInit /\ [][FifoNext]_fifoVars
=============================================================================
