----------------------------- MODULE RingBuffer -----------------------------
(***************************************************************************)
(* The bounded ring buffer of src/ringbuffer.rs: an array of cells, each   *)
(* with a sequence number, and two ticket counters.  push and pop take a   *)
(* ticket with a compare-and-swap; push_for_sp and pop_for_sc, for a       *)
(* single producer or consumer, take it with plain loads and stores.       *)
(* LogRingBuffer of src/wal.rs is the same code, with push on one side     *)
(* and pop_for_sc on the other.                                            *)
(*                                                                         *)
(* One action is one atomic load, store or compare-and-swap, or one access *)
(* to the data of a cell.  Atomics are sequentially consistent here; that  *)
(* a weak compare-and-swap may fail without a reason is modelled.          *)
(***************************************************************************)
EXTENDS Integers, Sequences

CONSTANTS
  Producers,   \* threads that push
  Consumers,   \* threads that pop
  Size,        \* number of cells, 1 << size_order
  MaxCalls,    \* bound: successful pushes of each producer
  None         \* what pop returns when it finds nothing, and an unwritten cell

ASSUME SizeAssumption == Size \in Nat \ {0}
ASSUME ThreadsAssumption == Producers \cap Consumers = {}
ASSUME CallsAssumption == MaxCalls \in Nat
ASSUME NoneAssumption == None \notin Producers \X Nat

VARIABLES
  mode,    \* [sp, sc]: which of the two entry points each side uses
  tail,    \* next ticket of a producer
  head,    \* next ticket of a consumer
  seq,     \* sequence number of each cell
  data,    \* item in each cell, None while it was never written
  pc,      \* what each thread is about to do
  pos,     \* local variable tail of push, head of pop
  calls,   \* pushes each producer has completed
  got,     \* result of each consumer's latest pop
  claim,   \* history: items in the order of their tickets
  served   \* history: number of tickets handed to consumers

vars == <<mode, tail, head, seq, data, pc, pos, calls, got, claim, served>>

Threads == Producers \cup Consumers
Cells   == 0 .. Size - 1
Items   == Producers \X Nat

\* buf[ticket & mask]
Cell(t) == t % Size

\* The value a producer passes to its current push: the n-th it has to send.
\* An Err hands the same value back to the caller.
Item(p) == <<p, calls[p]>>

\* Ticket order: claim[t + 1] is the item of ticket t.
ItemOf(t) == claim[t + 1]

Goto(t, label) == pc' = [pc EXCEPT ![t] = label]

Init ==
  /\ mode \in [sp : BOOLEAN, sc : BOOLEAN]
  /\ tail = 0
  /\ head = 0
  /\ seq = [i \in Cells |-> i]
  /\ data = [i \in Cells |-> None]
  /\ pc = [t \in Threads |-> "idle"]
  /\ pos = [t \in Threads |-> 0]
  /\ calls = [p \in Producers |-> 0]
  /\ got = [c \in Consumers |-> None]
  /\ claim = <<>>
  /\ served = 0
-----------------------------------------------------------------------------
(***************************************************************************)
(* Mutants: the same code with a slip.  Each breaks one of the properties  *)
(* below, and none of them is part of the specification.                   *)
(***************************************************************************)

\* diff <= 0 taken for "free".
PushSeesFree_OrFull(p) ==
  /\ pc[p] = "check"
  /\ seq[Cell(pos[p])] <= pos[p]
  /\ IF mode.sp
     THEN Goto(p, "write") /\ claim' = Append(claim, Item(p))
     ELSE Goto(p, "cas") /\ UNCHANGED claim
  /\ UNCHANGED <<mode, tail, head, seq, data, pos, calls, got, served>>

\* A stale ticket taken for a full ring.
PushSeesFull_OrStale(p) ==
  /\ pc[p] = "check"
  /\ seq[Cell(pos[p])] # pos[p]
  /\ Goto(p, "idle")
  /\ UNCHANGED <<mode, tail, head, seq, data, pos, calls, got, claim, served>>

\* An add instead of a compare-and-swap.
PushClaim_Add(p) ==
  /\ pc[p] = "cas"
  /\ tail' = tail + 1
  /\ claim' = Append(claim, Item(p))
  /\ Goto(p, "write")
  /\ UNCHANGED <<mode, head, seq, data, pos, calls, got, served>>

\* Published with the claim, before the write.
PushClaim_Publishes(p) ==
  /\ pc[p] = "cas"
  /\ tail = pos[p]
  /\ tail' = tail + 1
  /\ claim' = Append(claim, Item(p))
  /\ seq' = [seq EXCEPT ![Cell(pos[p])] = pos[p] + 1]
  /\ Goto(p, "write")
  /\ UNCHANGED <<mode, head, data, pos, calls, got, served>>

\* A stale ticket taken for an empty ring.
PopSeesEmpty_OrStale(c) ==
  /\ pc[c] = "check"
  /\ seq[Cell(pos[c])] # pos[c] + 1
  /\ got' = [got EXCEPT ![c] = None]
  /\ Goto(c, "idle")
  /\ UNCHANGED <<mode, tail, head, seq, data, pos, calls, claim, served>>

\* An add instead of a compare-and-swap.
PopClaim_Add(c) ==
  /\ pc[c] = "cas"
  /\ head' = head + 1
  /\ served' = served + 1
  /\ Goto(c, "read")
  /\ UNCHANGED <<mode, tail, seq, data, pos, calls, got, claim>>

\* The cell freed for this round again, not for the next.
PopRelease_SameRound(c) ==
  /\ pc[c] = "release"
  /\ seq' = [seq EXCEPT ![Cell(pos[c])] = pos[c]]
  /\ Goto(c, IF mode.sc THEN "advance" ELSE "idle")
  /\ UNCHANGED <<mode, tail, head, data, pos, calls, got, claim, served>>

\* The counter of a single consumer is not moved.
PopAdvance_Stays(c) ==
  /\ pc[c] = "advance"
  /\ head' = pos[c]
  /\ Goto(c, "idle")
  /\ UNCHANGED <<mode, tail, seq, data, pos, calls, got, claim, served>>
-----------------------------------------------------------------------------
(***************************************************************************)
(* push and push_for_sp                                                    *)
(***************************************************************************)

\* "single producer": no two push_for_sp calls overlap.
MayPush(p) ==
  /\ calls[p] < MaxCalls
  /\ mode.sp => \A q \in Producers : pc[q] = "idle"

PushLoadTail(p) ==
  /\ pc[p] = "reload" \/ (pc[p] = "idle" /\ MayPush(p))
  /\ pos' = [pos EXCEPT ![p] = tail]
  /\ Goto(p, "check")
  /\ UNCHANGED <<mode, tail, head, seq, data, calls, got, claim, served>>

\* The cell is free for this ticket.  A single producer owns the ticket now;
\* otherwise the counter has to be won first.
PushSeesFree(p) ==
  /\ pc[p] = "check"
  /\ seq[Cell(pos[p])] = pos[p]
  /\ IF mode.sp
     THEN Goto(p, "write") /\ claim' = Append(claim, Item(p))
     ELSE Goto(p, "cas") /\ UNCHANGED claim
  /\ UNCHANGED <<mode, tail, head, seq, data, pos, calls, got, served>>

\* Err(value): the cell still holds the item of one round before.
PushSeesFull(p) ==
  /\ pc[p] = "check"
  /\ seq[Cell(pos[p])] < pos[p] \/ (mode.sp /\ seq[Cell(pos[p])] # pos[p])
  /\ Goto(p, "idle")
  /\ UNCHANGED <<mode, tail, head, seq, data, pos, calls, got, claim, served>>

\* Another producer took the ticket meanwhile.
PushSeesStale(p) ==
  /\ pc[p] = "check"
  /\ ~mode.sp
  /\ seq[Cell(pos[p])] > pos[p]
  /\ Goto(p, "reload")
  /\ UNCHANGED <<mode, tail, head, seq, data, pos, calls, got, claim, served>>

PushClaim(p) ==
  /\ pc[p] = "cas"
  /\ tail = pos[p]
  /\ tail' = tail + 1
  /\ claim' = Append(claim, Item(p))
  /\ Goto(p, "write")
  /\ UNCHANGED <<mode, head, seq, data, pos, calls, got, served>>

\* The compare-and-swap fails, spuriously too, and returns the actual tail.
PushCasFails(p) ==
  /\ pc[p] = "cas"
  /\ pos' = [pos EXCEPT ![p] = tail]
  /\ Goto(p, "check")
  /\ UNCHANGED <<mode, tail, head, seq, data, calls, got, claim, served>>

PushWrite(p) ==
  /\ pc[p] = "write"
  /\ data' = [data EXCEPT ![Cell(pos[p])] = Item(p)]
  /\ Goto(p, "publish")
  /\ UNCHANGED <<mode, tail, head, seq, pos, calls, got, claim, served>>

PushPublish(p) ==
  /\ pc[p] = "publish"
  /\ seq' = [seq EXCEPT ![Cell(pos[p])] = pos[p] + 1]
  /\ Goto(p, IF mode.sp THEN "advance" ELSE "idle")
  /\ calls' = [calls EXCEPT ![p] = @ + 1]
  /\ UNCHANGED <<mode, tail, head, data, pos, got, claim, served>>

\* push_for_sp moves the counter only after the item is visible.
PushAdvance(p) ==
  /\ pc[p] = "advance"
  /\ tail' = pos[p] + 1
  /\ Goto(p, "idle")
  /\ UNCHANGED <<mode, head, seq, data, pos, calls, got, claim, served>>

Push(p) ==
  \/ PushLoadTail(p) \/ PushSeesFree(p) \/ PushSeesFull(p) \/ PushSeesStale(p)
  \/ PushClaim(p) \/ PushCasFails(p)
  \/ PushWrite(p) \/ PushPublish(p) \/ PushAdvance(p)
-----------------------------------------------------------------------------
(***************************************************************************)
(* pop and pop_for_sc                                                      *)
(***************************************************************************)

MayPop == mode.sc => \A d \in Consumers : pc[d] = "idle"

PopLoadHead(c) ==
  /\ pc[c] = "reload" \/ (pc[c] = "idle" /\ MayPop)
  /\ pos' = [pos EXCEPT ![c] = head]
  /\ Goto(c, "check")
  /\ UNCHANGED <<mode, tail, head, seq, data, calls, got, claim, served>>

PopSeesItem(c) ==
  /\ pc[c] = "check"
  /\ seq[Cell(pos[c])] = pos[c] + 1
  /\ IF mode.sc
     THEN Goto(c, "read") /\ served' = served + 1
     ELSE Goto(c, "cas") /\ UNCHANGED served
  /\ UNCHANGED <<mode, tail, head, seq, data, pos, calls, got, claim>>

\* None: the item of this ticket is not there yet.
PopSeesEmpty(c) ==
  /\ pc[c] = "check"
  /\ \/ seq[Cell(pos[c])] < pos[c] + 1
     \/ mode.sc /\ seq[Cell(pos[c])] # pos[c] + 1
  /\ got' = [got EXCEPT ![c] = None]
  /\ Goto(c, "idle")
  /\ UNCHANGED <<mode, tail, head, seq, data, pos, calls, claim, served>>

PopSeesStale(c) ==
  /\ pc[c] = "check"
  /\ ~mode.sc
  /\ seq[Cell(pos[c])] > pos[c] + 1
  /\ Goto(c, "reload")
  /\ UNCHANGED <<mode, tail, head, seq, data, pos, calls, got, claim, served>>

PopClaim(c) ==
  /\ pc[c] = "cas"
  /\ head = pos[c]
  /\ head' = head + 1
  /\ served' = served + 1
  /\ Goto(c, "read")
  /\ UNCHANGED <<mode, tail, seq, data, pos, calls, got, claim>>

PopCasFails(c) ==
  /\ pc[c] = "cas"
  /\ pos' = [pos EXCEPT ![c] = head]
  /\ Goto(c, "check")
  /\ UNCHANGED <<mode, tail, head, seq, data, calls, got, claim, served>>

PopRead(c) ==
  /\ pc[c] = "read"
  /\ got' = [got EXCEPT ![c] = data[Cell(pos[c])]]
  /\ Goto(c, "release")
  /\ UNCHANGED <<mode, tail, head, seq, data, pos, calls, claim, served>>

PopRelease(c) ==
  /\ pc[c] = "release"
  /\ seq' = [seq EXCEPT ![Cell(pos[c])] = pos[c] + Size]
  /\ Goto(c, IF mode.sc THEN "advance" ELSE "idle")
  /\ UNCHANGED <<mode, tail, head, data, pos, calls, got, claim, served>>

PopAdvance(c) ==
  /\ pc[c] = "advance"
  /\ head' = pos[c] + 1
  /\ Goto(c, "idle")
  /\ UNCHANGED <<mode, tail, seq, data, pos, calls, got, claim, served>>

Pop(c) ==
  \/ PopLoadHead(c) \/ PopSeesItem(c) \/ PopSeesEmpty(c) \/ PopSeesStale(c)
  \/ PopClaim(c) \/ PopCasFails(c)
  \/ PopRead(c) \/ PopRelease(c) \/ PopAdvance(c)
-----------------------------------------------------------------------------
Next ==
  \/ \E p \in Producers : Push(p)
  \/ \E c \in Consumers : Pop(c)

Spec == Init /\ [][Next]_vars

(***************************************************************************)
(* A thread that is inside a call is scheduled again; consumers poll, as   *)
(* every caller in the repository does.  A weak compare-and-swap does not  *)
(* fail for ever when nobody else moves the counter.  Nothing is assumed   *)
(* of producers outside a call.                                            *)
(***************************************************************************)
Fairness ==
  /\ \A p \in Producers :
       WF_vars(PushWrite(p)) /\ WF_vars(PushPublish(p)) /\ WF_vars(PushAdvance(p))
  /\ \A c \in Consumers :
       /\ WF_vars(PopLoadHead(c)) /\ WF_vars(PopSeesItem(c))
       /\ WF_vars(PopSeesEmpty(c)) /\ WF_vars(PopSeesStale(c))
       /\ SF_vars(PopClaim(c))
       /\ WF_vars(PopRead(c)) /\ WF_vars(PopRelease(c)) /\ WF_vars(PopAdvance(c))

FairSpec == Spec /\ Fairness
-----------------------------------------------------------------------------
(***************************************************************************)
(* Properties                                                              *)
(***************************************************************************)

PushLabels == {"idle", "reload", "check", "cas", "write", "publish", "advance"}
PopLabels  == {"idle", "reload", "check", "cas", "read", "release", "advance"}

Writing(p) == pc[p] \in {"write", "publish"}
Taking(c)  == pc[c] \in {"read", "release"}

\* Every variable has its type.
TypeOK ==
  /\ mode \in [sp : BOOLEAN, sc : BOOLEAN]
  /\ tail \in Nat /\ head \in Nat /\ served \in Nat
  /\ seq \in [Cells -> Nat]
  /\ data \in [Cells -> Items \cup {None}]
  /\ pc \in [Threads -> PushLabels \cup PopLabels]
  /\ \A p \in Producers : pc[p] \in PushLabels
  /\ \A c \in Consumers : pc[c] \in PopLabels
  /\ pos \in [Threads -> Nat]
  /\ calls \in [Producers -> Nat]
  /\ got \in [Consumers -> Items \cup {None}]
  /\ claim \in Seq(Items)

\* "The capacity is 2^k": never more than Size items are accepted and not yet
\* handed to a consumer, whatever the order of the threads' steps.
CapacityBound == Len(claim) <= served + Size

\* The cells are the only protection of the data (push and pop access it
\* without a lock): no two threads are ever inside the same cell.
ExclusiveCell ==
  /\ \A p, q \in Producers :
       Writing(p) /\ Writing(q) /\ Cell(pos[p]) = Cell(pos[q]) => p = q
  /\ \A c, d \in Consumers :
       Taking(c) /\ Taking(d) /\ Cell(pos[c]) = Cell(pos[d]) => c = d
  /\ \A p \in Producers, c \in Consumers :
       Writing(p) /\ Taking(c) => Cell(pos[p]) # Cell(pos[c])

\* What a consumer has read is the item of the ticket it took: nothing is
\* lost, overwritten, read twice or read before it is written.
TicketDelivery ==
  \A c \in Consumers :
    pc[c] = "release" => pos[c] < Len(claim) /\ got[c] = ItemOf(pos[c])

\* With no call in progress every accepted item is in its cell, published,
\* and both counters agree with history: Drop, which pops until None, then
\* leaks nothing.
QuiescentComplete ==
  (\A t \in Threads : pc[t] = "idle") =>
    /\ tail = Len(claim) /\ head = served
    /\ \A t \in served .. Len(claim) - 1 :
         seq[Cell(t)] = t + 1 /\ data[Cell(t)] = ItemOf(t)

\* pop answers None only when nothing is waiting, or when the oldest item's
\* producer has its ticket and has not published: an item whose push has
\* returned is missed only behind such a producer.
EmptyIsJustified ==
  [][\A c \in Consumers :
       PopSeesEmpty(c) =>
         \/ served = Len(claim)
         \/ \E p \in Producers : Writing(p) /\ pos[p] = served]_vars

\* push answers Err only when Size items are waiting, or when a consumer is
\* still inside the cell of the next ticket.
FullIsJustified ==
  [][\A p \in Producers :
       PushSeesFull(p) =>
         \/ Len(claim) = served + Size
         \/ \E c \in Consumers : Taking(c) /\ pos[c] + Size = Len(claim)]_vars

(***************************************************************************)
(* The ring buffer implements a bounded FIFO queue: the k-th item handed   *)
(* out is the k-th accepted, a pop that finds nothing is right to, and a   *)
(* slot is reused only when its consumer has left it.                      *)
(***************************************************************************)
Waiting ==
  [i \in 1 .. Len(claim) - served |->
     [item |-> claim[served + i],
      ready |-> seq[Cell(served + i - 1)] = served + i]]

Fifo == INSTANCE BoundedFifo WITH
  Items <- Producers \X (0 .. MaxCalls),
  Capacity <- Size,
  queue <- Waiting,
  leaving <- {c \in Consumers : Taking(c)},
  taken <- [c \in Consumers |->
              IF pc[c] = "read" THEN ItemOf(pos[c]) ELSE got[c]]

ImplementsFifo == Fifo!FifoSpec

\* A consumer that polls gets every accepted item: no ticket is skipped and
\* no interleaving leaves both sides spinning.
EveryClaimServed ==
  \A n \in 1 .. 2 * MaxCalls : (Len(claim) >= n) ~> (served >= n)
-----------------------------------------------------------------------------
(***************************************************************************)
(* The inductive invariant behind the safety properties.                   *)
(***************************************************************************)
Pushing(p) == pc[p] \in {"write", "publish", "advance"}
Popping(c) == pc[c] \in {"read", "release", "advance"}

\* The counters against history.  A single producer (consumer) stores its
\* counter after the cell, so in between it is one behind.
CounterInv ==
  /\ served <= Len(claim) /\ Len(claim) <= served + Size
  /\ ~mode.sp => tail = Len(claim) /\ \A p \in Producers : pc[p] # "advance"
  /\ ~mode.sc => head = served /\ \A c \in Consumers : pc[c] # "advance"

SingleProducerInv ==
  mode.sp =>
    /\ \A p, q \in Producers : p = q \/ pc[p] = "idle" \/ pc[q] = "idle"
    /\ \A p \in Producers :
         /\ pc[p] \notin {"cas", "reload"}
         /\ pc[p] # "idle" => pos[p] = tail
         /\ Pushing(p) => Len(claim) = tail + 1
    /\ (\A p \in Producers : ~Pushing(p)) => Len(claim) = tail

SingleConsumerInv ==
  mode.sc =>
    /\ \A c, d \in Consumers : c = d \/ pc[c] = "idle" \/ pc[d] = "idle"
    /\ \A c \in Consumers :
         /\ pc[c] \notin {"cas", "reload"}
         /\ pc[c] # "idle" => pos[c] = head
         /\ Popping(c) => served = head + 1
    /\ (\A c \in Consumers : ~Popping(c)) => served = head

\* The cell of each of the last Size tickets: free for a first use, being
\* written, holding the ticket's item, being emptied, or free again.
CellInv ==
  /\ \A t \in Len(claim) .. Size - 1 : seq[Cell(t)] = t
  /\ \A t \in served .. Len(claim) - 1 :
       \/ seq[Cell(t)] = t /\ \E p \in Producers : Writing(p) /\ pos[p] = t
       \/ seq[Cell(t)] = t + 1 /\ data[Cell(t)] = ItemOf(t)
  /\ \A t \in 0 .. served - 1 :
       Len(claim) <= t + Size =>
         \/ seq[Cell(t)] = t + 1 /\ \E c \in Consumers : Taking(c) /\ pos[c] = t
         \/ seq[Cell(t)] = t + Size

WriterInv ==
  /\ \A p \in Producers :
       Writing(p) =>
         /\ served <= pos[p] /\ pos[p] < Len(claim)
         /\ seq[Cell(pos[p])] = pos[p]
         /\ ItemOf(pos[p]) = Item(p)
         /\ pc[p] = "publish" => data[Cell(pos[p])] = Item(p)
  /\ \A p, q \in Producers :
       Writing(p) /\ Writing(q) /\ pos[p] = pos[q] => p = q

TakerInv ==
  /\ \A c \in Consumers :
       Taking(c) =>
         /\ pos[c] < served /\ Len(claim) <= pos[c] + Size
         /\ seq[Cell(pos[c])] = pos[c] + 1
         /\ pc[c] = "read" => data[Cell(pos[c])] = ItemOf(pos[c])
         /\ pc[c] = "release" => got[c] = ItemOf(pos[c])
  /\ \A c, d \in Consumers :
       Taking(c) /\ Taking(d) /\ pos[c] = pos[d] => c = d

\* A thread's copy of a counter may be stale, but what it saw in the cell
\* still holds as long as the counter has not moved.
SnapshotInv ==
  /\ \A p \in Producers :
       /\ pos[p] <= Len(claim)
       /\ pc[p] = "cas" /\ pos[p] = Len(claim) => seq[Cell(pos[p])] = pos[p]
  /\ \A c \in Consumers :
       /\ pos[c] <= served
       /\ pc[c] = "cas" /\ pos[c] = served => seq[Cell(pos[c])] = pos[c] + 1

\* Sequence numbers only grow: a thread with a stale ticket sees that it is
\* stale, and never mistakes it for a full or an empty ring.
StaleInv ==
  /\ \A t \in 0 .. Len(claim) - 1 : t <= seq[Cell(t)]
  /\ \A t \in 0 .. served - 1 : t < seq[Cell(t)]

\* The inductive invariant of push and pop: counters, cells and the threads
\* inside a call agree on which tickets are open.
RingInv ==
  /\ TypeOK
  /\ CounterInv
  /\ SingleProducerInv
  /\ SingleConsumerInv
  /\ CellInv
  /\ WriterInv
  /\ TakerInv
  /\ SnapshotInv
=============================================================================
