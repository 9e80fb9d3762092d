-------------------------- MODULE SyncProofs --------------------------
(***************************************************************************)
(* Proofs about the two primitives that threads share: the ring buffer,    *)
(* for any sets of threads, any number of cells but one and any number of  *)
(* calls, and, behind it, the spin lock, for any number of threads and of  *)
(* calls.  The one says nothing of the other.                              *)
(***************************************************************************)
EXTENDS RingBuffer, SpinLock, FiniteSetTheorems, SequenceTheorems, TLAPS

-----------------------------------------------------------------------------
(***************************************************************************)
(* The cell of a ticket.  The rest of the proof knows Cell only by these   *)
(* facts: it repeats every Size tickets, and not sooner.                   *)
(***************************************************************************)
LEMMA CellType == \A t \in Nat : Cell(t) \in Cells
  BY SizeAssumption DEF Cell, Cells

LEMMA SmallMultiple ==
  ASSUME NEW k \in Int, -Size < Size * k, Size * k < Size
  PROVE  k = 0
<1>1. CASE k >= 1
  <2>1. Size * (k - 1) >= 0
    BY <1>1, SizeAssumption
  <2>2. Size * k = Size + Size * (k - 1)
    BY SizeAssumption
  <2> QED BY <2>1, <2>2, SizeAssumption
<1>2. CASE k <= -1
  <2>1. Size * (-1 - k) >= 0
    BY <1>2, SizeAssumption
  <2>2. Size * k = - Size - Size * (-1 - k)
    BY SizeAssumption
  <2> QED BY <2>1, <2>2, SizeAssumption
<1> QED BY <1>1, <1>2

LEMMA DivMod ==
  ASSUME NEW t \in Nat
  PROVE  /\ t \div Size \in Int /\ Cell(t) \in Int
         /\ t = Size * (t \div Size) + Cell(t)
         /\ 0 <= Cell(t) /\ Cell(t) < Size
  BY SizeAssumption DEF Cell

LEMMA CellWrap == \A t \in Nat : Cell(t + Size) = Cell(t)
<1> TAKE t \in Nat
<1> DEFINE k == (t + Size) \div Size - t \div Size - 1
<1>0. t + Size \in Nat BY SizeAssumption
<1>1. /\ t \div Size \in Int /\ Cell(t) \in Int
      /\ t = Size * (t \div Size) + Cell(t)
      /\ 0 <= Cell(t) /\ Cell(t) < Size
  BY DivMod
<1>2. /\ (t + Size) \div Size \in Int /\ Cell(t + Size) \in Int
      /\ t + Size = Size * ((t + Size) \div Size) + Cell(t + Size)
      /\ 0 <= Cell(t + Size) /\ Cell(t + Size) < Size
  BY <1>0, DivMod
<1>3. Size * k = Cell(t) - Cell(t + Size)
  BY <1>1, <1>2, SizeAssumption
<1>4. k \in Int
  BY <1>1, <1>2
<1>5. -Size < Size * k /\ Size * k < Size
  BY <1>1, <1>2, <1>3, SizeAssumption
<1>6. k = 0
  BY <1>4, <1>5, SmallMultiple
<1>7. Size * k = 0
  BY <1>6, SizeAssumption
<1> QED BY SMTT(60), <1>1, <1>2, <1>3, <1>7

LEMMA CellDistinct ==
  \A t, u \in Nat : t < u /\ u < t + Size => Cell(t) # Cell(u)
<1> SUFFICES ASSUME NEW t \in Nat, NEW u \in Nat, t < u, u < t + Size,
                    Cell(t) = Cell(u)
             PROVE  FALSE
  OBVIOUS
<1> DEFINE k == u \div Size - t \div Size
<1>1. /\ t \div Size \in Int /\ Cell(t) \in Int
      /\ t = Size * (t \div Size) + Cell(t)
  BY DivMod
<1>2. /\ u \div Size \in Int
      /\ u = Size * (u \div Size) + Cell(u)
  BY DivMod
<1>3. Size * k = u - t
  BY <1>1, <1>2, SizeAssumption
<1>4. k \in Int
  BY <1>1, <1>2
<1>5. k = 0
  BY <1>3, <1>4, SmallMultiple, SizeAssumption
<1>6. Size * k = 0
  BY <1>5, SizeAssumption
<1> QED BY <1>3, <1>6

LEMMA CellSmall == \A t \in 0 .. Size - 1 : Cell(t) = t
<1> TAKE t \in 0 .. Size - 1
<1>1. /\ t \div Size \in Int /\ Cell(t) \in Int
      /\ t = Size * (t \div Size) + Cell(t)
      /\ 0 <= Cell(t) /\ Cell(t) < Size
  BY DivMod
<1>2. t \div Size = 0
  BY <1>1, SmallMultiple, SizeAssumption
<1>3. Size * (t \div Size) = 0
  BY <1>2, SizeAssumption
<1> QED BY <1>1, <1>3

-----------------------------------------------------------------------------
(***************************************************************************)
(* Types                                                                   *)
(***************************************************************************)
LEMMA GotoType ==
  ASSUME TypeOK, NEW t \in Threads, NEW label,
         t \in Producers => label \in PushLabels,
         t \in Consumers => label \in PopLabels,
         Goto(t, label)
  PROVE  /\ pc' \in [Threads -> PushLabels \cup PopLabels]
         /\ \A p \in Producers : pc'[p] \in PushLabels
         /\ \A c \in Consumers : pc'[c] \in PopLabels
<1>1. label \in PushLabels \cup PopLabels
  BY DEF Threads
<1> QED BY <1>1 DEF TypeOK, Goto, Threads

LEMMA TypeInit == Init => TypeOK
  BY SizeAssumption, ThreadsAssumption
  DEF Init, TypeOK, PushLabels, PopLabels, Items, Cells, Threads

LEMMA TypePush ==
  ASSUME TypeOK, NEW p \in Producers, Push(p)
  PROVE  TypeOK'
<1>0. p \in Threads /\ p \notin Consumers /\ pos[p] \in Nat /\ calls[p] \in Nat
  BY ThreadsAssumption DEF TypeOK, Threads
<1>1. CASE PushLoadTail(p)
  BY <1>0, <1>1, GotoType DEF TypeOK, PushLoadTail, PushLabels
<1>2. CASE PushSeesFree(p)
  <2>1. CASE mode.sp
    <3>1. Goto(p, "write")
      BY <1>2, <2>1 DEF PushSeesFree
    <3>2. claim' \in Seq(Items)
      <4>1. claim \in Seq(Items) /\ Item(p) \in Items
        BY <1>0 DEF TypeOK, Items, Item
      <4>2. claim' = Append(claim, Item(p))
        BY <1>2, <2>1 DEF PushSeesFree
      <4> QED BY <4>1, <4>2
    <3> QED BY <1>0, <1>2, <3>1, <3>2, GotoType DEF TypeOK, PushSeesFree, PushLabels
  <2>2. CASE ~mode.sp
    BY <1>0, <1>2, <2>2, GotoType DEF TypeOK, PushSeesFree, PushLabels
  <2> QED BY <2>1, <2>2
<1>3. CASE PushSeesFull(p)
  BY <1>0, <1>3, GotoType DEF TypeOK, PushSeesFull, PushLabels
<1>4. CASE PushSeesStale(p)
  BY <1>0, <1>4, GotoType DEF TypeOK, PushSeesStale, PushLabels
<1>5. CASE PushClaim(p)
  <2>1. tail' \in Nat
    BY <1>5 DEF PushClaim, TypeOK
  <2>2. claim' \in Seq(Items)
    BY <1>0, <1>5 DEF PushClaim, TypeOK, Items, Item
  <2> QED BY <1>0, <1>5, <2>1, <2>2, GotoType DEF TypeOK, PushClaim, PushLabels
<1>6. CASE PushCasFails(p)
  BY <1>0, <1>6, GotoType DEF TypeOK, PushCasFails, PushLabels
<1>7. CASE PushWrite(p)
  <2>1. data' \in [Cells -> Items \cup {None}]
    BY <1>0, <1>7 DEF PushWrite, TypeOK, Items, Item
  <2> QED BY <1>0, <1>7, <2>1, GotoType DEF TypeOK, PushWrite, PushLabels
<1>8. CASE PushPublish(p)
  <2>1. seq' \in [Cells -> Nat]
    <3>1. pos[p] + 1 \in Nat
      BY <1>0
    <3> QED BY <1>8, <3>1 DEF PushPublish, TypeOK
  <2>2. calls' \in [Producers -> Nat]
    <3>1. calls[p] + 1 \in Nat
      BY <1>0
    <3> QED BY <1>8, <3>1 DEF PushPublish, TypeOK
  <2>3. PICK label \in {"advance", "idle"} : Goto(p, label)
    BY <1>8 DEF PushPublish
  <2>4. label \in PushLabels
    BY DEF PushLabels
  <2> QED BY <1>0, <1>8, <2>1, <2>2, <2>3, <2>4, GotoType DEF TypeOK, PushPublish
<1>9. CASE PushAdvance(p)
  <2>1. tail' \in Nat
    BY <1>0, <1>9 DEF PushAdvance
  <2> QED BY <1>0, <1>9, <2>1, GotoType DEF TypeOK, PushAdvance, PushLabels
<1> QED BY <1>1, <1>2, <1>3, <1>4, <1>5, <1>6, <1>7, <1>8, <1>9 DEF Push

LEMMA TypePop ==
  ASSUME TypeOK, NEW c \in Consumers, Pop(c)
  PROVE  TypeOK'
<1>0. c \in Threads /\ c \notin Producers /\ pos[c] \in Nat /\ Cell(pos[c]) \in Cells
  BY ThreadsAssumption, CellType DEF TypeOK, Threads
<1>1. CASE PopLoadHead(c)
  BY <1>0, <1>1, GotoType DEF TypeOK, PopLoadHead, PopLabels
<1>2. CASE PopSeesItem(c)
  <2>1. served' \in Nat
    BY <1>2 DEF PopSeesItem, TypeOK
  <2>2. PICK label \in {"read", "cas"} : Goto(c, label)
    BY <1>2 DEF PopSeesItem
  <2>3. label \in PopLabels
    BY DEF PopLabels
  <2> QED BY <1>0, <1>2, <2>1, <2>2, <2>3, GotoType DEF TypeOK, PopSeesItem
<1>3. CASE PopSeesEmpty(c)
  BY <1>0, <1>3, GotoType DEF TypeOK, PopSeesEmpty, PopLabels
<1>4. CASE PopSeesStale(c)
  BY <1>0, <1>4, GotoType DEF TypeOK, PopSeesStale, PopLabels
<1>5. CASE PopClaim(c)
  <2>1. head' \in Nat /\ served' \in Nat
    BY <1>5 DEF PopClaim, TypeOK
  <2> QED BY <1>0, <1>5, <2>1, GotoType DEF TypeOK, PopClaim, PopLabels
<1>6. CASE PopCasFails(c)
  BY <1>0, <1>6, GotoType DEF TypeOK, PopCasFails, PopLabels
<1>7. CASE PopRead(c)
  BY <1>0, <1>7, GotoType DEF TypeOK, PopRead, PopLabels
<1>8. CASE PopRelease(c)
  <2>1. seq' \in [Cells -> Nat]
    <3>1. pos[c] + Size \in Nat
      BY <1>0, SizeAssumption
    <3> QED BY <1>8, <3>1 DEF PopRelease, TypeOK
  <2>2. PICK label \in {"advance", "idle"} : Goto(c, label)
    BY <1>8 DEF PopRelease
  <2>3. label \in PopLabels
    BY DEF PopLabels
  <2> QED BY <1>0, <1>8, <2>1, <2>2, <2>3, GotoType DEF TypeOK, PopRelease
<1>9. CASE PopAdvance(c)
  <2>1. head' \in Nat
    BY <1>0, <1>9 DEF PopAdvance
  <2> QED BY <1>0, <1>9, <2>1, GotoType DEF TypeOK, PopAdvance, PopLabels
<1> QED BY <1>1, <1>2, <1>3, <1>4, <1>5, <1>6, <1>7, <1>8, <1>9 DEF Pop

LEMMA TypeStep == TypeOK /\ [Next]_vars => TypeOK'
<1> SUFFICES ASSUME TypeOK, [Next]_vars PROVE TypeOK'
  OBVIOUS
<1>1. CASE UNCHANGED vars
  BY <1>1 DEF vars, TypeOK
<1>2. CASE Next
  BY <1>2, TypePush, TypePop DEF Next
<1> QED BY <1>1, <1>2

\* Every reachable state of a ring of any size is well typed.
THEOREM TypeCorrect == Spec => []TypeOK
<1> QED BY TypeInit, TypeStep, PTL DEF Spec


-----------------------------------------------------------------------------
(***************************************************************************)
(* Steps in which a thread only looks around: it moves its own pc and its  *)
(* copy of a counter, and enters or leaves no cell.                        *)
(***************************************************************************)
LEMMA Basics ==
  ASSUME TypeOK
  PROVE  /\ tail \in Nat /\ head \in Nat /\ served \in Nat /\ Len(claim) \in Nat
         /\ \A t \in Threads : pos[t] \in Nat
         /\ \A i \in Cells : seq[i] \in Nat
  BY DEF TypeOK

LEMMA GotoOnly ==
  ASSUME TypeOK, NEW t \in Threads, NEW label, Goto(t, label)
  PROVE  pc'[t] = label /\ \A u \in Threads : u # t => pc'[u] = pc[u]
  BY DEF TypeOK, Goto

LEMMA LocalPush ==
  ASSUME RingInv, TypeOK', NEW p \in Producers, NEW label, NEW n \in Nat,
         ~Pushing(p), label \in {"idle", "reload", "check", "cas"},
         Goto(p, label), pos' = [pos EXCEPT ![p] = n],
         n <= Len(claim),
         label = "cas" /\ n = Len(claim) => seq[Cell(n)] = n,
         mode.sp => /\ label \in {"idle", "check"}
                    /\ label = "check" => n = tail
                    /\ \A q \in Producers : q = p \/ pc[q] = "idle",
         UNCHANGED <<mode, tail, head, seq, data, calls, got, claim, served>>
  PROVE  RingInv'
<1>1. /\ pc'[p] = label /\ pos'[p] = n
      /\ \A q \in Producers : q # p => pc'[q] = pc[q] /\ pos'[q] = pos[q]
      /\ \A c \in Consumers : pc'[c] = pc[c] /\ pos'[c] = pos[c]
  BY GotoOnly, ThreadsAssumption DEF RingInv, TypeOK, Threads
<1>2. \A q \in Producers : Writing(q)' <=> Writing(q)
  BY <1>1 DEF Writing, Pushing
<1>3. \A q \in Producers : Pushing(q)' <=> Pushing(q)
  BY <1>1 DEF Pushing
<1>4. \A c \in Consumers : /\ Taking(c)' <=> Taking(c)
                           /\ Popping(c)' <=> Popping(c)
  BY <1>1 DEF Taking, Popping
<1>5. CounterInv'
  BY <1>1 DEF RingInv, CounterInv
<1>6. SingleProducerInv'
  BY <1>1, <1>3 DEF RingInv, SingleProducerInv
<1>7. SingleConsumerInv'
  BY <1>1, <1>4 DEF RingInv, SingleConsumerInv
<1>8. CellInv'
  BY SMTT(60), <1>1, <1>2, <1>4 DEF RingInv, CellInv, ItemOf, Cell, Writing, Pushing
<1>9. WriterInv'
  <2>1. \A q \in Producers : Item(q)' = Item(q)
    BY DEF Item
  <2>2. \A q \in Producers : Writing(q) => pc'[q] = pc[q] /\ pos'[q] = pos[q]
    BY <1>1 DEF Writing, Pushing
  <2> QED
    BY <1>1, <1>2, <2>1, <2>2 DEF RingInv, WriterInv, ItemOf, Cell
<1>10. TakerInv'
  BY <1>1, <1>4 DEF RingInv, TakerInv, ItemOf, Cell
<1>11. SnapshotInv'
  BY <1>1 DEF RingInv, SnapshotInv, Cell
<1> QED BY <1>5, <1>6, <1>7, <1>8, <1>9, <1>10, <1>11 DEF RingInv

LEMMA LocalPop ==
  ASSUME RingInv, TypeOK', NEW c \in Consumers, NEW label, NEW n \in Nat,
         ~Popping(c), label \in {"idle", "reload", "check", "cas"},
         Goto(c, label), pos' = [pos EXCEPT ![c] = n],
         n <= served,
         label = "cas" /\ n = served => seq[Cell(n)] = n + 1,
         mode.sc => /\ label \in {"idle", "check"}
                    /\ label = "check" => n = head
                    /\ \A d \in Consumers : d = c \/ pc[d] = "idle",
         \A d \in Consumers : d # c => got'[d] = got[d],
         UNCHANGED <<mode, tail, head, seq, data, calls, claim, served>>
  PROVE  RingInv'
<1>1. /\ pc'[c] = label /\ pos'[c] = n
      /\ \A d \in Consumers : d # c => pc'[d] = pc[d] /\ pos'[d] = pos[d]
      /\ \A p \in Producers : pc'[p] = pc[p] /\ pos'[p] = pos[p]
  BY GotoOnly, ThreadsAssumption DEF RingInv, TypeOK, Threads
<1>2. \A d \in Consumers : /\ Taking(d)' <=> Taking(d)
                           /\ Popping(d)' <=> Popping(d)
  BY <1>1 DEF Taking, Popping
<1>3. \A p \in Producers : /\ Writing(p)' <=> Writing(p)
                           /\ Pushing(p)' <=> Pushing(p)
                           /\ Item(p)' = Item(p)
  BY <1>1 DEF Writing, Pushing, Item
<1>4. \A d \in Consumers : Taking(d) => d # c
  BY DEF Taking, Popping
<1>5. CounterInv'
  BY <1>1 DEF RingInv, CounterInv
<1>6. SingleProducerInv'
  BY <1>1, <1>3 DEF RingInv, SingleProducerInv
<1>7. SingleConsumerInv'
  BY <1>1, <1>2 DEF RingInv, SingleConsumerInv
<1>8. CellInv'
  BY <1>1, <1>2, <1>3, <1>4 DEF RingInv, CellInv, ItemOf, Cell
<1>9. WriterInv'
  BY <1>1, <1>3 DEF RingInv, WriterInv, ItemOf, Cell
<1>10. TakerInv'
  BY <1>1, <1>2, <1>4 DEF RingInv, TakerInv, ItemOf, Cell
<1>11. SnapshotInv'
  BY <1>1 DEF RingInv, SnapshotInv, Cell
<1> QED BY <1>5, <1>6, <1>7, <1>8, <1>9, <1>10, <1>11 DEF RingInv

-----------------------------------------------------------------------------
(***************************************************************************)
(* The producer: claim a ticket, write the cell, publish it, and, alone,   *)
(* move the counter.                                                       *)
(***************************************************************************)

LEMMA TwoCells ==
  ASSUME Size # 1
  PROVE  Size \in Nat /\ Size >= 2
  BY SizeAssumption

LEMMA ClaimRoom ==
  ASSUME RingInv, Size # 1, seq[Cell(Len(claim))] = Len(claim)
  PROVE  Len(claim) < served + Size
<1>0. Len(claim) \in Nat /\ served \in Nat /\ served <= Len(claim)
  BY Basics DEF RingInv, CounterInv
<1>1. CASE Len(claim) < Size
  BY <1>0, <1>1, SizeAssumption
<1>2. CASE Size <= Len(claim)
  <2> DEFINE t == Len(claim) - Size
  <2>1. t \in Nat /\ t + Size = Len(claim)
    BY <1>0, <1>2, SizeAssumption
  <2>2. seq[Cell(t)] = t + Size
    BY <2>1, CellWrap
  <2>3. t \in served .. Len(claim) - 1 => seq[Cell(t)] = t \/ seq[Cell(t)] = t + 1
    BY DEF RingInv, CellInv
  <2>4. t + Size # t /\ t + Size # t + 1
    BY <2>1, TwoCells
  <2>5. t < served
    <3> HIDE DEF t
    <3> QED BY <1>0, <2>1, <2>2, <2>3, <2>4, TwoCells
  <2> QED
    BY <1>0, <2>1, <2>5, SizeAssumption
<1> QED BY <1>0, <1>1, <1>2, SizeAssumption

LEMMA ClaimStep ==
  ASSUME RingInv, TypeOK', Size # 1, NEW p \in Producers,
         pc[p] \in {"check", "cas"}, pos[p] = Len(claim),
         seq[Cell(pos[p])] = pos[p],
         claim' = Append(claim, Item(p)), Goto(p, "write"),
         ~mode.sp => tail' = tail + 1,
         mode.sp => /\ tail' = tail /\ tail = Len(claim)
                    /\ \A q \in Producers : q = p \/ pc[q] = "idle",
         UNCHANGED <<mode, head, seq, data, pos, calls, got, served>>
  PROVE  RingInv'
<1>1. /\ pc'[p] = "write"
      /\ \A q \in Producers : q # p => pc'[q] = pc[q]
      /\ \A c \in Consumers : pc'[c] = pc[c]
  BY GotoOnly, ThreadsAssumption DEF RingInv, Threads
<1>2. /\ Len(claim') = Len(claim) + 1
      /\ \A t \in 0 .. Len(claim) - 1 : ItemOf(t)' = ItemOf(t)
      /\ claim'[Len(claim) + 1] = Item(p)
  <2>1. claim \in Seq(Items) /\ Item(p) \in Items
    BY DEF RingInv, TypeOK, Items, Item
  <2>2. /\ Len(claim') = Len(claim) + 1
        /\ \A i \in 1 .. Len(claim) : claim'[i] = claim[i]
        /\ claim'[Len(claim) + 1] = Item(p)
    BY <2>1
  <2>3. Len(claim) \in Nat
    BY <2>1
  <2> QED BY <2>2, <2>3 DEF ItemOf
<1>3. /\ Len(claim) \in Nat /\ served \in Nat /\ served <= Len(claim)
      /\ \A t \in Threads : pos[t] \in Nat
  BY Basics DEF RingInv, CounterInv
<1>4. Len(claim) < served + Size
  BY ClaimRoom
<1>5. \A q \in Producers : Item(q)' = Item(q)
  BY DEF Item
<1>6. \A c \in Consumers : /\ Taking(c)' <=> Taking(c)
                           /\ Popping(c)' <=> Popping(c)
  BY <1>1 DEF Taking, Popping
<1>7. /\ ~Writing(p) /\ Writing(p)' /\ Pushing(p)'
      /\ \A q \in Producers : q # p => /\ Writing(q)' <=> Writing(q)
                                       /\ Pushing(q)' <=> Pushing(q)
  BY <1>1 DEF Writing, Pushing
<1>8. CounterInv'
  <2>1. served <= Len(claim') /\ Len(claim') <= served + Size
    BY <1>2, <1>3, <1>4, SizeAssumption
  <2>2. ~mode.sp => /\ tail' = Len(claim')
                    /\ \A q \in Producers : pc'[q] # "advance"
    BY <1>1, <1>2 DEF RingInv, CounterInv
  <2>3. ~mode.sc => head = served /\ \A c \in Consumers : pc'[c] # "advance"
    BY <1>1 DEF RingInv, CounterInv
  <2> QED BY <2>1, <2>2, <2>3 DEF CounterInv
<1>9. SingleProducerInv'
  BY <1>1, <1>2, <1>3, <1>7 DEF RingInv, SingleProducerInv, Pushing
<1>10. SingleConsumerInv'
  BY <1>1, <1>6 DEF RingInv, SingleConsumerInv
<1>11. CellInv'
  <2>1. \A t \in Len(claim') .. Size - 1 : seq'[Cell(t)] = t
    BY <1>2, <1>3, SizeAssumption DEF RingInv, CellInv
  <2>2. ASSUME NEW t \in served .. Len(claim') - 1
        PROVE  \/ seq[Cell(t)] = t /\ \E q \in Producers : Writing(q)' /\ pos[q] = t
               \/ seq[Cell(t)] = t + 1 /\ data[Cell(t)] = ItemOf(t)'
    <3>1. CASE t = Len(claim)
      BY <3>1, <1>7
    <3>2. CASE t # Len(claim)
      <4>1. t \in served .. Len(claim) - 1 /\ t \in 0 .. Len(claim) - 1
        BY <3>2, <1>2, <1>3
      <4> QED
        BY <4>1, <1>2, <1>7 DEF RingInv, CellInv
    <3> QED BY <3>1, <3>2
  <2>3. ASSUME NEW t \in 0 .. served - 1, Len(claim') <= t + Size
        PROVE  \/ seq[Cell(t)] = t + 1 /\ \E c \in Consumers : Taking(c)' /\ pos[c] = t
               \/ seq[Cell(t)] = t + Size
    BY <2>3, <1>2, <1>3, <1>6, SizeAssumption DEF RingInv, CellInv
  <2> QED BY <2>1, <2>2, <2>3 DEF CellInv, Cell
<1>12. WriterInv'
  <2>1. ASSUME NEW q \in Producers, Writing(q)'
        PROVE  /\ served <= pos[q] /\ pos[q] < Len(claim')
               /\ seq[Cell(pos[q])] = pos[q]
               /\ ItemOf(pos[q])' = Item(q)
               /\ pc'[q] = "publish" => data[Cell(pos[q])] = Item(q)
    <3>1. CASE q = p
      <4>1. ItemOf(pos[p])' = Item(p) /\ pc'[p] # "publish"
        BY <1>1, <1>2 DEF ItemOf
      <4> QED BY <3>1, <4>1, <1>2, <1>3
    <3>2. CASE q # p
      <4>1. /\ served <= pos[q] /\ pos[q] < Len(claim)
            /\ seq[Cell(pos[q])] = pos[q]
            /\ ItemOf(pos[q]) = Item(q)
            /\ pc[q] = "publish" => data[Cell(pos[q])] = Item(q)
        BY <2>1, <3>2, <1>7 DEF RingInv, WriterInv
      <4>2. pos[q] \in 0 .. Len(claim) - 1
        BY <4>1, <1>3 DEF Threads
      <4> QED
        BY <4>1, <4>2, <1>1, <1>2, <1>3, <3>2
    <3> QED BY <3>1, <3>2
  <2>2. ASSUME NEW q \in Producers, NEW r \in Producers,
               Writing(q)', Writing(r)', pos[q] = pos[r]
        PROVE  q = r
    <3>1. \A w \in Producers : Writing(w) => pos[w] < Len(claim)
      BY DEF RingInv, WriterInv
    <3> QED
      BY <2>2, <3>1, <1>3, <1>7 DEF RingInv, WriterInv
  <2> QED BY <2>1, <2>2, <1>5 DEF WriterInv, Cell
<1>13. TakerInv'
  <2>1. ASSUME NEW c \in Consumers, Taking(c)
        PROVE  /\ pos[c] < served /\ Len(claim') <= pos[c] + Size
               /\ seq[Cell(pos[c])] = pos[c] + 1
               /\ pc'[c] = "read" => data[Cell(pos[c])] = ItemOf(pos[c])'
               /\ pc'[c] = "release" => got[c] = ItemOf(pos[c])'
    <3>1. /\ pos[c] < served /\ Len(claim) <= pos[c] + Size
          /\ seq[Cell(pos[c])] = pos[c] + 1
          /\ pc[c] = "read" => data[Cell(pos[c])] = ItemOf(pos[c])
          /\ pc[c] = "release" => got[c] = ItemOf(pos[c])
      BY <2>1 DEF RingInv, TakerInv
    <3>2. pos[c] \in Nat /\ pos[c] \in 0 .. Len(claim) - 1
      BY <3>1, <1>3 DEF Threads
    <3>3. Len(claim) # pos[c] + Size
      <4>1. pos[c] + Size # pos[c] + 1
        BY <3>2, TwoCells
      <4> QED BY <3>1, <3>2, <4>1, CellWrap
    <3> QED
      BY SMTT(60), <3>1, <3>2, <3>3, <1>1, <1>2, <1>3, SizeAssumption
  <2> QED BY <2>1, <1>1, <1>6 DEF RingInv, TakerInv, Cell
<1>14. SnapshotInv'
  BY <1>1, <1>2, <1>3 DEF RingInv, SnapshotInv, Cell, Threads
<1> QED BY <1>8, <1>9, <1>10, <1>11, <1>12, <1>13, <1>14 DEF RingInv

LEMMA WriteStep ==
  ASSUME RingInv, TypeOK', NEW p \in Producers, PushWrite(p)
  PROVE  RingInv'
<1>1. /\ pc[p] = "write" /\ pc'[p] = "publish"
      /\ \A q \in Producers : q # p => pc'[q] = pc[q]
      /\ \A c \in Consumers : pc'[c] = pc[c]
  BY GotoOnly, ThreadsAssumption DEF RingInv, Threads, PushWrite
<1>2. /\ data'[Cell(pos[p])] = Item(p)
      /\ \A i \in Cells : i # Cell(pos[p]) => data'[i] = data[i]
      /\ UNCHANGED <<mode, tail, head, seq, pos, calls, got, claim, served>>
  BY CellType DEF PushWrite, RingInv, TypeOK, Threads
<1>3. /\ Len(claim) \in Nat /\ served \in Nat
      /\ served <= Len(claim) /\ Len(claim) <= served + Size
      /\ \A t \in Threads : pos[t] \in Nat
  BY Basics DEF RingInv, CounterInv
<1>4. /\ Writing(p) /\ served <= pos[p] /\ pos[p] < Len(claim)
      /\ seq[Cell(pos[p])] = pos[p] /\ ItemOf(pos[p]) = Item(p)
  BY <1>1 DEF RingInv, WriterInv, Writing
<1>5. \A q \in Producers : /\ Writing(q)' <=> Writing(q)
                           /\ Pushing(q)' <=> Pushing(q)
                           /\ Item(q)' = Item(q)
  BY <1>1, <1>2 DEF Writing, Pushing, Item
<1>6. \A c \in Consumers : /\ Taking(c)' <=> Taking(c)
                           /\ Popping(c)' <=> Popping(c)
  BY <1>1 DEF Taking, Popping
<1>7. CounterInv'
  BY <1>1, <1>2 DEF RingInv, CounterInv
<1>8. SingleProducerInv'
  BY <1>1, <1>2, <1>5 DEF RingInv, SingleProducerInv
<1>9. SingleConsumerInv'
  BY <1>1, <1>2, <1>6 DEF RingInv, SingleConsumerInv
<1>10. CellInv'
  <2>1. ASSUME NEW t \in served .. Len(claim) - 1
        PROVE  \/ seq[Cell(t)] = t /\ \E q \in Producers : Writing(q)' /\ pos[q] = t
               \/ seq[Cell(t)] = t + 1 /\ data'[Cell(t)] = ItemOf(t)
    <3>1. CASE t = pos[p]
      BY <3>1, <1>4, <1>5
    <3>2. CASE t # pos[p]
      <4>1. t \in Nat /\ pos[p] \in Nat /\ Cell(t) \in Cells
        BY <1>3, CellType DEF Threads
      <4>2. Cell(t) # Cell(pos[p])
        BY <4>1, <3>2, <1>3, <1>4, CellDistinct, SizeAssumption
      <4> QED
        BY <4>1, <4>2, <1>2, <1>5 DEF RingInv, CellInv
    <3> QED BY <3>1, <3>2
  <2> QED
    BY <2>1, <1>2, <1>6 DEF RingInv, CellInv, ItemOf, Cell
<1>11. WriterInv'
  <2>1. ASSUME NEW q \in Producers, Writing(q)
        PROVE  /\ served <= pos[q] /\ pos[q] < Len(claim)
               /\ seq[Cell(pos[q])] = pos[q]
               /\ ItemOf(pos[q]) = Item(q)
               /\ pc'[q] = "publish" => data'[Cell(pos[q])] = Item(q)
    <3>1. CASE q = p
      BY <3>1, <1>2, <1>4
    <3>2. CASE q # p
      <4>1. /\ served <= pos[q] /\ pos[q] < Len(claim)
            /\ seq[Cell(pos[q])] = pos[q] /\ ItemOf(pos[q]) = Item(q)
            /\ pc[q] = "publish" => data[Cell(pos[q])] = Item(q)
            /\ pos[q] # pos[p]
        BY <2>1, <3>2, <1>4 DEF RingInv, WriterInv
      <4>2. pos[q] \in Nat /\ pos[p] \in Nat /\ Cell(pos[q]) \in Cells
        BY <1>3, CellType DEF Threads
      <4>3. Cell(pos[q]) # Cell(pos[p])
        BY <4>1, <4>2, <1>4
      <4> QED BY <4>1, <4>2, <4>3, <1>1, <1>2, <3>2
    <3> QED BY <3>1, <3>2
  <2> QED
    BY <2>1, <1>2, <1>5 DEF RingInv, WriterInv, ItemOf, Cell
<1>12. TakerInv'
  <2>1. ASSUME NEW c \in Consumers, Taking(c)
        PROVE  data'[Cell(pos[c])] = data[Cell(pos[c])]
    <3>1. pos[c] \in Nat /\ pos[p] \in Nat /\ Cell(pos[c]) \in Cells
      BY <1>3, CellType DEF Threads
    <3>2. pos[c] < served /\ Len(claim) <= pos[c] + Size
      BY <2>1 DEF RingInv, TakerInv
    <3>3. Cell(pos[c]) # Cell(pos[p])
      BY <3>1, <3>2, <1>3, <1>4, CellDistinct, SizeAssumption
    <3> QED BY <3>1, <3>3, <1>2
  <2> QED
    BY <2>1, <1>1, <1>2, <1>6 DEF RingInv, TakerInv, ItemOf, Cell
<1>13. SnapshotInv'
  BY <1>1, <1>2 DEF RingInv, SnapshotInv, Cell
<1> QED BY <1>7, <1>8, <1>9, <1>10, <1>11, <1>12, <1>13 DEF RingInv

LEMMA PublishStep ==
  ASSUME RingInv, TypeOK', NEW p \in Producers, PushPublish(p)
  PROVE  RingInv'
<1>1. /\ pc[p] = "publish"
      /\ pc'[p] = IF mode.sp THEN "advance" ELSE "idle"
      /\ \A q \in Producers : q # p => pc'[q] = pc[q]
      /\ \A c \in Consumers : pc'[c] = pc[c]
  BY GotoOnly, ThreadsAssumption DEF RingInv, Threads, PushPublish
<1>2. /\ seq'[Cell(pos[p])] = pos[p] + 1
      /\ \A i \in Cells : i # Cell(pos[p]) => seq'[i] = seq[i]
      /\ \A q \in Producers : q # p => calls'[q] = calls[q]
      /\ UNCHANGED <<mode, tail, head, data, pos, got, claim, served>>
  BY CellType DEF PushPublish, RingInv, TypeOK, Threads
<1>3. /\ Len(claim) \in Nat /\ served \in Nat
      /\ served <= Len(claim) /\ Len(claim) <= served + Size
      /\ \A t \in Threads : pos[t] \in Nat
  BY Basics DEF RingInv, CounterInv
<1>4. /\ Writing(p) /\ served <= pos[p] /\ pos[p] < Len(claim)
      /\ seq[Cell(pos[p])] = pos[p]
      /\ data[Cell(pos[p])] = ItemOf(pos[p])
  BY <1>1 DEF RingInv, WriterInv, Writing
<1>5. /\ ~Writing(p)'
      /\ Pushing(p)' => mode.sp
      /\ \A q \in Producers : q # p => /\ Writing(q)' <=> Writing(q)
                                       /\ Pushing(q)' <=> Pushing(q)
                                       /\ Item(q)' = Item(q)
  BY <1>1, <1>2 DEF Writing, Pushing, Item
<1>6. \A c \in Consumers : /\ Taking(c)' <=> Taking(c)
                           /\ Popping(c)' <=> Popping(c)
  BY <1>1 DEF Taking, Popping
\* No other ticket of the last Size ones, nor a future one, uses this cell.
<1>7. ASSUME NEW t \in Nat, t # pos[p], t < pos[p] + Size, Len(claim) <= t + Size
      PROVE  seq'[Cell(t)] = seq[Cell(t)]
  <2>1. pos[p] \in Nat /\ Cell(t) \in Cells
    BY <1>3, CellType DEF Threads
  <2>2. Cell(t) # Cell(pos[p])
    BY <2>1, <1>7, <1>3, <1>4, CellDistinct, SizeAssumption
  <2> QED BY <2>1, <2>2, <1>2
<1>8. pos[p] \in Nat
  BY <1>3 DEF Threads
<1>9. CounterInv'
  BY <1>1, <1>2 DEF RingInv, CounterInv
<1>10. SingleProducerInv'
  <2>1. mode.sp => Pushing(p) /\ Pushing(p)'
    BY <1>1 DEF Pushing
  <2> QED BY <1>1, <1>2, <1>5, <2>1 DEF RingInv, SingleProducerInv
<1>11. SingleConsumerInv'
  BY <1>1, <1>2, <1>6 DEF RingInv, SingleConsumerInv
<1>12. CellInv'
  <2>1. ASSUME NEW t \in Len(claim) .. Size - 1
        PROVE  seq'[Cell(t)] = t
    <3>1. t \in Nat /\ t # pos[p] /\ t < pos[p] + Size /\ Len(claim) <= t + Size
      BY <1>3, <1>4, <1>8, SizeAssumption
    <3> QED BY <3>1, <1>7 DEF RingInv, CellInv
  <2>2. ASSUME NEW t \in served .. Len(claim) - 1
        PROVE  \/ seq'[Cell(t)] = t /\ \E q \in Producers : Writing(q)' /\ pos[q] = t
               \/ seq'[Cell(t)] = t + 1 /\ data[Cell(t)] = ItemOf(t)
    <3>1. CASE t = pos[p]
      BY <3>1, <1>2, <1>4
    <3>2. CASE t # pos[p]
      <4>1. t \in Nat /\ t < pos[p] + Size /\ Len(claim) <= t + Size
        BY <1>3, <1>4, <1>8, SizeAssumption
      <4>2. seq'[Cell(t)] = seq[Cell(t)]
        BY <4>1, <3>2, <1>7
      <4> QED BY <4>2, <3>2, <1>5 DEF RingInv, CellInv
    <3> QED BY <3>1, <3>2
  <2>3. ASSUME NEW t \in 0 .. served - 1, Len(claim) <= t + Size
        PROVE  \/ seq'[Cell(t)] = t + 1 /\ \E c \in Consumers : Taking(c)' /\ pos[c] = t
               \/ seq'[Cell(t)] = t + Size
    <3>1. t \in Nat /\ t # pos[p] /\ t < pos[p] + Size
      BY <1>3, <1>4, <1>8, SizeAssumption
    <3>2. seq'[Cell(t)] = seq[Cell(t)]
      BY <3>1, <2>3, <1>7
    <3> QED BY <3>2, <2>3, <1>6 DEF RingInv, CellInv
  <2> QED BY <2>1, <2>2, <2>3, <1>2 DEF CellInv, ItemOf, Cell
<1>13. WriterInv'
  <2>1. ASSUME NEW q \in Producers, q # p, Writing(q)
        PROVE  seq'[Cell(pos[q])] = seq[Cell(pos[q])]
    <3>1. served <= pos[q] /\ pos[q] < Len(claim) /\ pos[q] # pos[p]
      BY <2>1, <1>4 DEF RingInv, WriterInv
    <3>2. pos[q] \in Nat /\ pos[q] < pos[p] + Size /\ Len(claim) <= pos[q] + Size
      BY <3>1, <1>3, <1>4, <1>8, SizeAssumption DEF Threads
    <3> QED BY <3>1, <3>2, <1>7
  <2> QED
    BY <2>1, <1>1, <1>2, <1>5 DEF RingInv, WriterInv, ItemOf, Cell
<1>14. TakerInv'
  <2>1. ASSUME NEW c \in Consumers, Taking(c)
        PROVE  seq'[Cell(pos[c])] = seq[Cell(pos[c])]
    <3>1. pos[c] < served /\ Len(claim) <= pos[c] + Size
      BY <2>1 DEF RingInv, TakerInv
    <3>2. pos[c] \in Nat /\ pos[c] < pos[p] + Size /\ pos[c] # pos[p]
      BY <3>1, <1>3, <1>4, <1>8, SizeAssumption DEF Threads
    <3> QED BY <3>1, <3>2, <1>7
  <2> QED
    BY <2>1, <1>1, <1>2, <1>6 DEF RingInv, TakerInv, ItemOf, Cell
<1>15. SnapshotInv'
  <2>1. ASSUME NEW q \in Producers, pc'[q] = "cas", pos[q] = Len(claim)
        PROVE  seq'[Cell(pos[q])] = pos[q]
    <3>1. pc[q] = "cas" /\ seq[Cell(pos[q])] = pos[q]
      BY <2>1, <1>1 DEF RingInv, SnapshotInv
    <3>2. pos[q] # pos[p] + Size
      <4>1. Cell(pos[p] + Size) = Cell(pos[p])
        BY <1>8, CellWrap
      <4>2. pos[p] + Size # pos[p]
        BY <1>8, SizeAssumption
      <4>3. seq[Cell(pos[p])] = pos[p]
        BY <1>4
      <4> QED BY <3>1, <4>1, <4>2, <4>3
    <3>3. pos[q] \in Nat /\ pos[q] # pos[p] /\ pos[q] < pos[p] + Size
          /\ Len(claim) <= pos[q] + Size
      BY <2>1, <3>2, <1>3, <1>4, <1>8, SizeAssumption
    <3> QED BY <3>1, <3>3, <1>7
  <2>2. ASSUME NEW c \in Consumers, pc'[c] = "cas", pos[c] = served
        PROVE  seq'[Cell(pos[c])] = pos[c] + 1
    <3>1. pc[c] = "cas" /\ seq[Cell(pos[c])] = pos[c] + 1
      BY <2>2, <1>1 DEF RingInv, SnapshotInv
    <3>2. pos[c] # pos[p]
      BY <3>1, <1>4, <1>8
    <3>3. pos[c] \in Nat /\ pos[c] < pos[p] + Size /\ Len(claim) <= pos[c] + Size
      BY <2>2, <3>2, <1>3, <1>4, <1>8, SizeAssumption
    <3> QED BY <3>1, <3>2, <3>3, <1>7
  <2>3. /\ \A q \in Producers : pos[q] <= Len(claim)
        /\ \A c \in Consumers : pos[c] <= served
    BY DEF RingInv, SnapshotInv
  <2> QED BY <2>1, <2>2, <2>3, <1>2 DEF SnapshotInv, Cell
<1> QED BY <1>9, <1>10, <1>11, <1>12, <1>13, <1>14, <1>15 DEF RingInv

LEMMA PushAdvanceStep ==
  ASSUME RingInv, TypeOK', NEW p \in Producers, PushAdvance(p)
  PROVE  RingInv'
<1>1. /\ pc[p] = "advance" /\ pc'[p] = "idle"
      /\ \A q \in Producers : q # p => pc'[q] = pc[q]
      /\ \A c \in Consumers : pc'[c] = pc[c]
  BY GotoOnly, ThreadsAssumption DEF RingInv, Threads, PushAdvance
<1>2. /\ tail' = pos[p] + 1
      /\ UNCHANGED <<mode, head, seq, data, pos, calls, got, claim, served>>
  BY DEF PushAdvance
<1>3. \A q \in Producers : /\ Writing(q)' <=> Writing(q)
                           /\ Item(q)' = Item(q)
                           /\ q # p => (Pushing(q)' <=> Pushing(q))
  BY <1>1, <1>2 DEF Writing, Pushing, Item
<1>4. \A c \in Consumers : /\ Taking(c)' <=> Taking(c)
                           /\ Popping(c)' <=> Popping(c)
  BY <1>1 DEF Taking, Popping
<1>5. mode.sp
  BY <1>1 DEF RingInv, CounterInv
<1>6. /\ Len(claim) = tail + 1 /\ pos[p] = tail
      /\ \A q \in Producers : q # p => pc'[q] = "idle"
  BY <1>1, <1>5 DEF RingInv, SingleProducerInv, Pushing
<1>7. CounterInv'
  BY <1>1, <1>2, <1>5 DEF RingInv, CounterInv
<1>8. SingleProducerInv'
  BY <1>1, <1>2, <1>6 DEF SingleProducerInv, Pushing
<1>9. SingleConsumerInv'
  BY <1>1, <1>2, <1>4 DEF RingInv, SingleConsumerInv
<1>10. CellInv'
  BY <1>2, <1>3, <1>4 DEF RingInv, CellInv, ItemOf, Cell
<1>11. WriterInv'
  <2>1. \A q \in Producers : Writing(q) => pc'[q] = pc[q]
    BY <1>1 DEF Writing
  <2> QED
    BY <2>1, <1>2, <1>3 DEF RingInv, WriterInv, ItemOf, Cell
<1>12. TakerInv'
  BY <1>1, <1>2, <1>4 DEF RingInv, TakerInv, ItemOf, Cell
<1>13. SnapshotInv'
  BY <1>1, <1>2 DEF RingInv, SnapshotInv, Cell
<1> QED BY <1>7, <1>8, <1>9, <1>10, <1>11, <1>12, <1>13 DEF RingInv

-----------------------------------------------------------------------------
(***************************************************************************)
(* The consumer: take a ticket, read the cell, free it, and, alone, move   *)
(* the counter.                                                            *)
(***************************************************************************)

LEMMA ServeStep ==
  ASSUME RingInv, TypeOK', Size # 1, NEW c \in Consumers,
         pc[c] \in {"check", "cas"}, pos[c] = served,
         seq[Cell(pos[c])] = pos[c] + 1,
         served' = served + 1, Goto(c, "read"),
         ~mode.sc => head' = head + 1,
         mode.sc => /\ head' = head /\ head = served
                    /\ \A d \in Consumers : d = c \/ pc[d] = "idle",
         UNCHANGED <<mode, tail, seq, data, pos, calls, got, claim>>
  PROVE  RingInv'
<1>1. /\ pc'[c] = "read"
      /\ \A d \in Consumers : d # c => pc'[d] = pc[d]
      /\ \A p \in Producers : pc'[p] = pc[p]
  BY GotoOnly, ThreadsAssumption DEF RingInv, Threads
<1>2. /\ Len(claim) \in Nat /\ served \in Nat
      /\ served <= Len(claim) /\ Len(claim) <= served + Size
      /\ \A t \in Threads : pos[t] \in Nat
  BY Basics DEF RingInv, CounterInv
<1>3. served < Len(claim)
  <2>1. SUFFICES ASSUME served = Len(claim) PROVE FALSE
    BY <1>2
  <2>2. CASE served < Size
    BY <2>1, <2>2, <1>2, SizeAssumption DEF RingInv, CellInv
  <2>3. CASE Size <= served
    <3> DEFINE t == served - Size
    <3>1. t \in 0 .. served - 1 /\ t \in Nat /\ t + Size = served
      BY <2>3, <1>2, SizeAssumption
    <3>2. seq[Cell(t)] = t + Size + 1
      BY <3>1, CellWrap
    <3>3. seq[Cell(t)] = t + 1 \/ seq[Cell(t)] = t + Size
      BY <3>1, <2>1, <1>2 DEF RingInv, CellInv
    <3> HIDE DEF t
    <3> QED BY <3>1, <3>2, <3>3, SizeAssumption
  <2> QED BY <2>2, <2>3, <1>2, SizeAssumption
<1>4. data[Cell(pos[c])] = ItemOf(pos[c])
  BY <1>2, <1>3 DEF RingInv, CellInv
<1>5. /\ ~Taking(c) /\ Taking(c)' /\ Popping(c)'
      /\ \A d \in Consumers : d # c => /\ Taking(d)' <=> Taking(d)
                                       /\ Popping(d)' <=> Popping(d)
  BY <1>1 DEF Taking, Popping
<1>6. \A p \in Producers : /\ Writing(p)' <=> Writing(p)
                           /\ Pushing(p)' <=> Pushing(p)
                           /\ Item(p)' = Item(p)
  BY <1>1 DEF Writing, Pushing, Item
<1>7. CounterInv'
  <2>1. served' <= Len(claim) /\ Len(claim) <= served' + Size
    BY <1>2, <1>3, SizeAssumption
  <2>2. ~mode.sp => tail = Len(claim) /\ \A p \in Producers : pc'[p] # "advance"
    BY <1>1 DEF RingInv, CounterInv
  <2>3. ~mode.sc => head' = served' /\ \A d \in Consumers : pc'[d] # "advance"
    BY <1>1 DEF RingInv, CounterInv
  <2> QED BY <2>1, <2>2, <2>3 DEF CounterInv
<1>8. SingleProducerInv'
  BY <1>1, <1>6 DEF RingInv, SingleProducerInv
<1>9. SingleConsumerInv'
  BY <1>1, <1>2, <1>5 DEF RingInv, SingleConsumerInv, Popping
<1>10. CellInv'
  <2>1. ASSUME NEW t \in served' .. Len(claim) - 1
        PROVE  t \in served .. Len(claim) - 1
    BY <1>2
  <2>2. ASSUME NEW t \in 0 .. served' - 1, Len(claim) <= t + Size
        PROVE  \/ seq[Cell(t)] = t + 1 /\ \E d \in Consumers : Taking(d)' /\ pos[d] = t
               \/ seq[Cell(t)] = t + Size
    <3>1. CASE t = served
      BY <3>1, <1>5
    <3>2. CASE t # served
      <4>1. t \in 0 .. served - 1
        BY <3>2, <1>2
      <4> QED BY <4>1, <2>2, <1>5 DEF RingInv, CellInv
    <3> QED BY <3>1, <3>2
  <2> QED BY <2>1, <2>2, <1>6 DEF RingInv, CellInv, ItemOf, Cell
<1>11. WriterInv'
  <2>1. ASSUME NEW p \in Producers, Writing(p)
        PROVE  served' <= pos[p]
    <3>1. served <= pos[p] /\ seq[Cell(pos[p])] = pos[p]
      BY <2>1 DEF RingInv, WriterInv
    <3>2. pos[p] \in Nat
      BY <1>2 DEF Threads
    <3>3. pos[p] # served
      BY <3>1, <3>2, <1>2
    <3> QED BY <3>1, <3>2, <3>3, <1>2
  <2> QED
    BY <2>1, <1>1, <1>6 DEF RingInv, WriterInv, ItemOf, Cell
<1>12. TakerInv'
  <2>1. ASSUME NEW d \in Consumers, Taking(d)'
        PROVE  /\ pos[d] < served' /\ Len(claim) <= pos[d] + Size
               /\ seq[Cell(pos[d])] = pos[d] + 1
               /\ pc'[d] = "read" => data[Cell(pos[d])] = ItemOf(pos[d])
               /\ pc'[d] = "release" => got[d] = ItemOf(pos[d])
    <3>1. CASE d = c
      BY <3>1, <1>1, <1>2, <1>4
    <3>2. CASE d # c
      <4>1. pos[d] \in Nat
        BY <1>2 DEF Threads
      <4> QED BY <2>1, <3>2, <4>1, <1>1, <1>2, <1>5 DEF RingInv, TakerInv
    <3> QED BY <3>1, <3>2
  <2>2. ASSUME NEW d \in Consumers, NEW e \in Consumers,
               Taking(d)', Taking(e)', pos[d] = pos[e]
        PROVE  d = e
    <3>1. \A f \in Consumers : Taking(f) => pos[f] < served
      BY DEF RingInv, TakerInv
    <3> QED BY <2>2, <3>1, <1>2, <1>5 DEF RingInv, TakerInv
  <2> QED BY <2>1, <2>2 DEF TakerInv, ItemOf, Cell
<1>13. SnapshotInv'
  <2>1. \A d \in Consumers : pos[d] \in Nat /\ pos[d] <= served
    BY <1>2 DEF RingInv, SnapshotInv, Threads
  <2> QED BY <2>1, <1>1, <1>2 DEF RingInv, SnapshotInv, Cell
<1> QED BY <1>7, <1>8, <1>9, <1>10, <1>11, <1>12, <1>13 DEF RingInv

LEMMA ReadStep ==
  ASSUME RingInv, TypeOK', NEW c \in Consumers, PopRead(c)
  PROVE  RingInv'
<1>1. /\ pc[c] = "read" /\ pc'[c] = "release"
      /\ \A d \in Consumers : d # c => pc'[d] = pc[d]
      /\ \A p \in Producers : pc'[p] = pc[p]
  BY GotoOnly, ThreadsAssumption DEF RingInv, Threads, PopRead
<1>2. /\ got'[c] = data[Cell(pos[c])]
      /\ \A d \in Consumers : d # c => got'[d] = got[d]
      /\ UNCHANGED <<mode, tail, head, seq, data, pos, calls, claim, served>>
  BY DEF PopRead, RingInv, TypeOK
<1>3. data[Cell(pos[c])] = ItemOf(pos[c])
  BY <1>1 DEF RingInv, TakerInv, Taking
<1>4. \A d \in Consumers : /\ Taking(d)' <=> Taking(d)
                           /\ Popping(d)' <=> Popping(d)
  BY <1>1 DEF Taking, Popping
<1>5. \A p \in Producers : /\ Writing(p)' <=> Writing(p)
                           /\ Pushing(p)' <=> Pushing(p)
                           /\ Item(p)' = Item(p)
  BY <1>1, <1>2 DEF Writing, Pushing, Item
<1>6. CounterInv'
  BY <1>1, <1>2 DEF RingInv, CounterInv
<1>7. SingleProducerInv'
  BY <1>1, <1>2, <1>5 DEF RingInv, SingleProducerInv
<1>8. SingleConsumerInv'
  BY <1>1, <1>2, <1>4 DEF RingInv, SingleConsumerInv
<1>9. CellInv'
  BY <1>2, <1>4, <1>5 DEF RingInv, CellInv, ItemOf, Cell
<1>10. WriterInv'
  BY <1>1, <1>2, <1>5 DEF RingInv, WriterInv, ItemOf, Cell
<1>11. TakerInv'
  BY <1>1, <1>2, <1>3, <1>4 DEF RingInv, TakerInv, ItemOf, Cell
<1>12. SnapshotInv'
  BY <1>1, <1>2 DEF RingInv, SnapshotInv, Cell
<1> QED BY <1>6, <1>7, <1>8, <1>9, <1>10, <1>11, <1>12 DEF RingInv

LEMMA ReleaseStep ==
  ASSUME RingInv, TypeOK', Size # 1, NEW c \in Consumers, PopRelease(c)
  PROVE  RingInv'
<1>1. /\ pc[c] = "release"
      /\ pc'[c] = IF mode.sc THEN "advance" ELSE "idle"
      /\ \A d \in Consumers : d # c => pc'[d] = pc[d]
      /\ \A p \in Producers : pc'[p] = pc[p]
  BY GotoOnly, ThreadsAssumption DEF RingInv, Threads, PopRelease
<1>2. /\ seq'[Cell(pos[c])] = pos[c] + Size
      /\ \A i \in Cells : i # Cell(pos[c]) => seq'[i] = seq[i]
      /\ UNCHANGED <<mode, tail, head, data, pos, calls, got, claim, served>>
  BY CellType DEF PopRelease, RingInv, TypeOK, Threads
<1>3. /\ Len(claim) \in Nat /\ served \in Nat
      /\ served <= Len(claim) /\ Len(claim) <= served + Size
      /\ \A t \in Threads : pos[t] \in Nat
  BY Basics DEF RingInv, CounterInv
<1>4. /\ Taking(c) /\ pos[c] < served /\ Len(claim) <= pos[c] + Size
      /\ seq[Cell(pos[c])] = pos[c] + 1
  BY <1>1 DEF RingInv, TakerInv, Taking
<1>5. /\ ~Taking(c)'
      /\ \A d \in Consumers : d # c => /\ Taking(d)' <=> Taking(d)
                                       /\ Popping(d)' <=> Popping(d)
  BY <1>1 DEF Taking, Popping
<1>6. \A p \in Producers : /\ Writing(p)' <=> Writing(p)
                           /\ Pushing(p)' <=> Pushing(p)
                           /\ Item(p)' = Item(p)
  BY <1>1, <1>2 DEF Writing, Pushing, Item
<1>7. pos[c] \in Nat
  BY <1>3 DEF Threads
\* No other ticket of the window uses this cell.
<1>8. ASSUME NEW t \in Nat, t # pos[c], t < pos[c] + Size, Len(claim) <= t + Size
      PROVE  seq'[Cell(t)] = seq[Cell(t)]
  <2>1. Cell(t) \in Cells
    BY CellType
  <2>2. Cell(t) # Cell(pos[c])
    BY <2>1, <1>7, <1>8, <1>3, <1>4, CellDistinct, SizeAssumption
  <2> QED BY <2>1, <2>2, <1>2
<1>9. CounterInv'
  BY <1>1, <1>2 DEF RingInv, CounterInv
<1>10. SingleProducerInv'
  BY <1>1, <1>2, <1>6 DEF RingInv, SingleProducerInv
<1>11. SingleConsumerInv'
  <2>1. mode.sc => Popping(c) /\ Popping(c)'
    BY <1>1 DEF Popping
  <2> QED BY <1>1, <1>2, <1>5, <2>1 DEF RingInv, SingleConsumerInv
<1>12. CellInv'
  <2>1. ASSUME NEW t \in Len(claim) .. Size - 1
        PROVE  seq'[Cell(t)] = t
    <3>1. t \in Nat /\ t # pos[c] /\ t < pos[c] + Size /\ Len(claim) <= t + Size
      BY <1>3, <1>4, <1>7, SizeAssumption
    <3> QED BY <3>1, <1>8 DEF RingInv, CellInv
  <2>2. ASSUME NEW t \in served .. Len(claim) - 1
        PROVE  \/ seq'[Cell(t)] = t /\ \E q \in Producers : Writing(q)' /\ pos[q] = t
               \/ seq'[Cell(t)] = t + 1 /\ data[Cell(t)] = ItemOf(t)
    <3>1. t \in Nat /\ t # pos[c] /\ t < pos[c] + Size /\ Len(claim) <= t + Size
      BY <1>3, <1>4, <1>7, SizeAssumption
    <3>2. seq'[Cell(t)] = seq[Cell(t)]
      BY <3>1, <1>8
    <3> QED BY <3>2, <1>6 DEF RingInv, CellInv
  <2>3. ASSUME NEW t \in 0 .. served - 1, Len(claim) <= t + Size
        PROVE  \/ seq'[Cell(t)] = t + 1 /\ \E d \in Consumers : Taking(d)' /\ pos[d] = t
               \/ seq'[Cell(t)] = t + Size
    <3>1. CASE t = pos[c]
      BY <3>1, <1>2
    <3>2. CASE t # pos[c]
      <4>1. t \in Nat /\ t < pos[c] + Size
        BY <1>3, <1>4, <1>7, SizeAssumption
      <4>2. seq'[Cell(t)] = seq[Cell(t)]
        BY <4>1, <3>2, <2>3, <1>8
      <4> QED BY <4>2, <3>2, <2>3, <1>5 DEF RingInv, CellInv
    <3> QED BY <3>1, <3>2
  <2> QED BY <2>1, <2>2, <2>3, <1>2 DEF CellInv, ItemOf, Cell
<1>13. WriterInv'
  <2>1. ASSUME NEW q \in Producers, Writing(q)
        PROVE  seq'[Cell(pos[q])] = seq[Cell(pos[q])]
    <3>1. served <= pos[q] /\ pos[q] < Len(claim)
      BY <2>1 DEF RingInv, WriterInv
    <3>2. /\ pos[q] \in Nat /\ pos[q] < pos[c] + Size /\ pos[q] # pos[c]
          /\ Len(claim) <= pos[q] + Size
      BY <3>1, <1>3, <1>4, <1>7, SizeAssumption DEF Threads
    <3> QED BY <3>2, <1>8
  <2> QED
    BY <2>1, <1>1, <1>2, <1>6 DEF RingInv, WriterInv, ItemOf, Cell
<1>14. TakerInv'
  <2>1. ASSUME NEW d \in Consumers, d # c, Taking(d)
        PROVE  seq'[Cell(pos[d])] = seq[Cell(pos[d])]
    <3>1. pos[d] < served /\ Len(claim) <= pos[d] + Size /\ pos[d] # pos[c]
      BY <2>1, <1>4 DEF RingInv, TakerInv
    <3>2. pos[d] \in Nat /\ pos[d] < pos[c] + Size
      BY <3>1, <1>3, <1>4, <1>7, SizeAssumption DEF Threads
    <3> QED BY <3>1, <3>2, <1>8
  <2> QED
    BY <2>1, <1>1, <1>2, <1>5 DEF RingInv, TakerInv, ItemOf, Cell
<1>15. SnapshotInv'
  <2>1. ASSUME NEW q \in Producers, pc'[q] = "cas", pos[q] = Len(claim)
        PROVE  seq'[Cell(pos[q])] = pos[q]
    <3>1. pc[q] = "cas" /\ seq[Cell(pos[q])] = pos[q]
      BY <2>1, <1>1 DEF RingInv, SnapshotInv
    <3>2. pos[q] # pos[c] + Size
      <4>1. pos[c] + Size # pos[c] + 1
        BY <1>7, TwoCells
      <4> QED BY <3>1, <4>1, <1>4, <1>7, CellWrap
    <3>3. /\ pos[q] \in Nat /\ pos[q] # pos[c] /\ pos[q] < pos[c] + Size
          /\ Len(claim) <= pos[q] + Size
      BY <2>1, <3>2, <1>3, <1>4, <1>7, SizeAssumption
    <3> QED BY <3>1, <3>3, <1>8
  <2>2. ASSUME NEW d \in Consumers, pc'[d] = "cas", pos[d] = served
        PROVE  seq'[Cell(pos[d])] = pos[d] + 1
    <3>1. pc[d] = "cas" /\ seq[Cell(pos[d])] = pos[d] + 1
      BY <2>2, <1>1 DEF RingInv, SnapshotInv
    <3>2. pos[d] # pos[c] + Size
      <4>1. pos[c] + Size + 1 # pos[c] + 1
        BY <1>7, SizeAssumption
      <4> QED BY <3>1, <4>1, <1>4, <1>7, CellWrap
    <3>3. /\ pos[d] \in Nat /\ pos[d] # pos[c] /\ pos[d] < pos[c] + Size
          /\ Len(claim) <= pos[d] + Size
      BY <2>2, <3>2, <1>3, <1>4, <1>7, SizeAssumption
    <3> QED BY <3>1, <3>3, <1>8
  <2>3. /\ \A q \in Producers : pos[q] <= Len(claim)
        /\ \A d \in Consumers : pos[d] <= served
    BY DEF RingInv, SnapshotInv
  <2> QED BY <2>1, <2>2, <2>3, <1>2 DEF SnapshotInv, Cell
<1> QED BY <1>9, <1>10, <1>11, <1>12, <1>13, <1>14, <1>15 DEF RingInv

LEMMA PopAdvanceStep ==
  ASSUME RingInv, TypeOK', NEW c \in Consumers, PopAdvance(c)
  PROVE  RingInv'
<1>1. /\ pc[c] = "advance" /\ pc'[c] = "idle"
      /\ \A d \in Consumers : d # c => pc'[d] = pc[d]
      /\ \A p \in Producers : pc'[p] = pc[p]
  BY GotoOnly, ThreadsAssumption DEF RingInv, Threads, PopAdvance
<1>2. /\ head' = pos[c] + 1
      /\ UNCHANGED <<mode, tail, seq, data, pos, calls, got, claim, served>>
  BY DEF PopAdvance
<1>3. \A p \in Producers : /\ Writing(p)' <=> Writing(p)
                           /\ Pushing(p)' <=> Pushing(p)
                           /\ Item(p)' = Item(p)
  BY <1>1, <1>2 DEF Writing, Pushing, Item
<1>4. \A d \in Consumers : /\ Taking(d)' <=> Taking(d)
                           /\ d # c => (Popping(d)' <=> Popping(d))
                           /\ Taking(d) => pc'[d] = pc[d]
  BY <1>1 DEF Taking, Popping
<1>5. mode.sc
  BY <1>1 DEF RingInv, CounterInv
<1>6. /\ served = head + 1 /\ pos[c] = head
      /\ \A d \in Consumers : d # c => pc'[d] = "idle"
  BY <1>1, <1>5 DEF RingInv, SingleConsumerInv, Popping
<1>7. CounterInv'
  BY <1>1, <1>2, <1>5 DEF RingInv, CounterInv
<1>8. SingleProducerInv'
  BY <1>1, <1>2, <1>3 DEF RingInv, SingleProducerInv
<1>9. SingleConsumerInv'
  BY <1>1, <1>2, <1>6 DEF SingleConsumerInv, Popping
<1>10. CellInv'
  BY <1>2, <1>3, <1>4 DEF RingInv, CellInv, ItemOf, Cell
<1>11. WriterInv'
  BY <1>1, <1>2, <1>3 DEF RingInv, WriterInv, ItemOf, Cell
<1>12. TakerInv'
  BY <1>2, <1>4 DEF RingInv, TakerInv, ItemOf, Cell
<1>13. SnapshotInv'
  BY <1>1, <1>2 DEF RingInv, SnapshotInv, Cell
<1> QED BY <1>7, <1>8, <1>9, <1>10, <1>11, <1>12, <1>13 DEF RingInv

-----------------------------------------------------------------------------
(***************************************************************************)
(* RingInv is inductive                                                    *)
(***************************************************************************)

LEMMA RingInvInit == Init => RingInv
<1> SUFFICES ASSUME Init PROVE RingInv
  OBVIOUS
<1>1. TypeOK
  BY TypeInit
<1>2. Len(claim) = 0 /\ served = 0 /\ \A t \in Threads : pc[t] = "idle" /\ pos[t] = 0
  BY DEF Init
<1>3. /\ \A p \in Producers : pc[p] = "idle" /\ pos[p] = 0
      /\ \A c \in Consumers : pc[c] = "idle" /\ pos[c] = 0
  BY <1>2 DEF Threads
<1>4. \A t \in 0 .. Size - 1 : Cell(t) = t /\ seq[t] = t
  BY CellSmall DEF Init, Cells
<1>5. CounterInv
  BY <1>2, <1>3, SizeAssumption DEF CounterInv, Init
<1>6. SingleProducerInv /\ SingleConsumerInv
  BY <1>2, <1>3 DEF SingleProducerInv, SingleConsumerInv, Pushing, Popping, Init
<1>7. CellInv
  BY <1>2, <1>4 DEF CellInv
<1>8. WriterInv /\ TakerInv
  BY <1>3 DEF WriterInv, TakerInv, Writing, Taking
<1>9. SnapshotInv
  BY <1>2, <1>3 DEF SnapshotInv
<1> QED BY <1>1, <1>5, <1>6, <1>7, <1>8, <1>9 DEF RingInv

LEMMA RingInvPush ==
  ASSUME RingInv, TypeOK', Size # 1, NEW p \in Producers, Push(p)
  PROVE  RingInv'
<1>0. /\ tail \in Nat /\ pos[p] \in Nat /\ Len(claim) \in Nat
      /\ pos[p] <= Len(claim)
  BY Basics DEF RingInv, SnapshotInv, Threads
<1>1. /\ ~mode.sp => tail = Len(claim)
      /\ ~mode.sp => pc[p] # "advance"
      /\ mode.sp => /\ pc[p] \notin {"cas", "reload"}
                    /\ pc[p] # "idle" => pos[p] = tail
  BY DEF RingInv, CounterInv, SingleProducerInv
<1>2. tail <= Len(claim)
  BY <1>0, <1>1 DEF RingInv, SingleProducerInv
<1>3. mode.sp /\ pc[p] # "idle" => \A q \in Producers : q = p \/ pc[q] = "idle"
  BY DEF RingInv, SingleProducerInv
<1>4. mode.sp /\ pc[p] = "check" => tail = Len(claim)
  BY <1>3 DEF RingInv, SingleProducerInv, Pushing
<1>5. pos = [pos EXCEPT ![p] = pos[p]]
  BY DEF RingInv, TypeOK
<1>6. CASE PushLoadTail(p)
  <2>1. ~Pushing(p)
    BY <1>6 DEF PushLoadTail, Pushing
  <2>2. mode.sp => \A q \in Producers : q = p \/ pc[q] = "idle"
    BY <1>1, <1>6 DEF PushLoadTail, MayPush
  <2> QED BY <1>0, <1>2, <1>6, <2>1, <2>2, LocalPush DEF PushLoadTail
<1>7. CASE PushSeesFree(p)
  <2>1. CASE mode.sp
    BY <1>1, <1>3, <1>4, <1>7, <2>1, ClaimStep DEF PushSeesFree
  <2>2. CASE ~mode.sp
    <3>1. ~Pushing(p)
      BY <1>7 DEF PushSeesFree, Pushing
    <3> QED BY <1>0, <1>5, <1>7, <2>2, <3>1, LocalPush DEF PushSeesFree
  <2> QED BY <2>1, <2>2
<1>8. CASE PushSeesFull(p)
  <2>1. ~Pushing(p)
    BY <1>8 DEF PushSeesFull, Pushing
  <2>2. mode.sp => \A q \in Producers : q = p \/ pc[q] = "idle"
    BY <1>3, <1>8 DEF PushSeesFull
  <2> QED BY <1>0, <1>5, <1>8, <2>1, <2>2, LocalPush DEF PushSeesFull
<1>9. CASE PushSeesStale(p)
  <2>1. ~Pushing(p)
    BY <1>9 DEF PushSeesStale, Pushing
  <2> QED BY <1>0, <1>5, <1>9, <2>1, LocalPush DEF PushSeesStale
<1>10. CASE PushClaim(p)
  <2>1. ~mode.sp /\ pos[p] = Len(claim) /\ seq[Cell(pos[p])] = pos[p]
    BY <1>1, <1>10 DEF PushClaim, RingInv, SnapshotInv
  <2> QED BY <1>10, <2>1, ClaimStep DEF PushClaim
<1>11. CASE PushCasFails(p)
  <2>1. ~mode.sp /\ ~Pushing(p)
    BY <1>1, <1>11 DEF PushCasFails, Pushing
  <2> QED BY <1>0, <1>2, <1>11, <2>1, LocalPush DEF PushCasFails
<1>12. CASE PushWrite(p)
  BY <1>12, WriteStep
<1>13. CASE PushPublish(p)
  BY <1>13, PublishStep
<1>14. CASE PushAdvance(p)
  BY <1>14, PushAdvanceStep
<1> QED
  BY <1>6, <1>7, <1>8, <1>9, <1>10, <1>11, <1>12, <1>13, <1>14 DEF Push

LEMMA RingInvPop ==
  ASSUME RingInv, TypeOK', Size # 1, NEW c \in Consumers, Pop(c)
  PROVE  RingInv'
<1>0. /\ head \in Nat /\ served \in Nat /\ pos[c] \in Nat /\ pos[c] <= served
  BY Basics DEF RingInv, SnapshotInv, Threads
<1>1. /\ ~mode.sc => head = served
      /\ mode.sc => /\ pc[c] \notin {"cas", "reload"}
                    /\ pc[c] # "idle" => pos[c] = head
  BY DEF RingInv, CounterInv, SingleConsumerInv
<1>2. head <= served
  BY <1>0, <1>1 DEF RingInv, SingleConsumerInv
<1>3. mode.sc /\ pc[c] # "idle" => \A d \in Consumers : d = c \/ pc[d] = "idle"
  BY DEF RingInv, SingleConsumerInv
<1>4. mode.sc /\ pc[c] = "check" => head = served
  BY <1>3 DEF RingInv, SingleConsumerInv, Popping
<1>5. pos = [pos EXCEPT ![c] = pos[c]]
  BY DEF RingInv, TypeOK
<1>6. CASE PopLoadHead(c)
  <2>1. ~Popping(c)
    BY <1>6 DEF PopLoadHead, Popping
  <2>2. mode.sc => \A d \in Consumers : d = c \/ pc[d] = "idle"
    BY <1>1, <1>6 DEF PopLoadHead, MayPop
  <2> QED BY <1>0, <1>2, <1>6, <2>1, <2>2, LocalPop DEF PopLoadHead
<1>7. CASE PopSeesItem(c)
  <2>1. CASE mode.sc
    BY <1>1, <1>3, <1>4, <1>7, <2>1, ServeStep DEF PopSeesItem
  <2>2. CASE ~mode.sc
    <3>1. ~Popping(c)
      BY <1>7 DEF PopSeesItem, Popping
    <3> QED BY <1>0, <1>5, <1>7, <2>2, <3>1, LocalPop DEF PopSeesItem
  <2> QED BY <2>1, <2>2
<1>8. CASE PopSeesEmpty(c)
  <2>1. ~Popping(c)
    BY <1>8 DEF PopSeesEmpty, Popping
  <2>2. mode.sc => \A d \in Consumers : d = c \/ pc[d] = "idle"
    BY <1>3, <1>8 DEF PopSeesEmpty
  <2>3. \A d \in Consumers : d # c => got'[d] = got[d]
    BY <1>8 DEF PopSeesEmpty, RingInv, TypeOK
  <2> QED BY <1>0, <1>5, <1>8, <2>1, <2>2, <2>3, LocalPop DEF PopSeesEmpty
<1>9. CASE PopSeesStale(c)
  <2>1. ~Popping(c)
    BY <1>9 DEF PopSeesStale, Popping
  <2> QED BY <1>0, <1>5, <1>9, <2>1, LocalPop DEF PopSeesStale
<1>10. CASE PopClaim(c)
  <2>1. ~mode.sc /\ pos[c] = served /\ seq[Cell(pos[c])] = pos[c] + 1
    BY <1>1, <1>10 DEF PopClaim, RingInv, SnapshotInv
  <2> QED BY <1>10, <2>1, ServeStep DEF PopClaim
<1>11. CASE PopCasFails(c)
  <2>1. ~mode.sc /\ ~Popping(c)
    BY <1>1, <1>11 DEF PopCasFails, Popping
  <2> QED BY <1>0, <1>2, <1>11, <2>1, LocalPop DEF PopCasFails
<1>12. CASE PopRead(c)
  BY <1>12, ReadStep
<1>13. CASE PopRelease(c)
  BY <1>13, ReleaseStep
<1>14. CASE PopAdvance(c)
  BY <1>14, PopAdvanceStep
<1> QED
  BY <1>6, <1>7, <1>8, <1>9, <1>10, <1>11, <1>12, <1>13, <1>14 DEF Pop

LEMMA RingInvStep ==
  ASSUME Size # 1, RingInv, [Next]_vars
  PROVE  RingInv'
<1>0. TypeOK'
  BY TypeStep DEF RingInv
<1>1. CASE Next
  BY <1>0, <1>1, RingInvPush, RingInvPop DEF Next
<1>2. CASE UNCHANGED vars
  <2> USE <1>2 DEF vars, RingInv, Writing, Taking, Pushing, Popping
  <2>1. CounterInv'
    BY DEF CounterInv
  <2>2. SingleProducerInv' /\ SingleConsumerInv'
    BY DEF SingleProducerInv, SingleConsumerInv
  <2>3. CellInv'
    BY DEF CellInv, ItemOf, Cell
  <2>4. WriterInv'
    BY DEF WriterInv, ItemOf, Item, Cell
  <2>5. TakerInv'
    BY DEF TakerInv, ItemOf, Cell
  <2>6. SnapshotInv'
    BY DEF SnapshotInv, Cell
  <2> QED BY <1>0, <2>1, <2>2, <2>3, <2>4, <2>5, <2>6
<1> QED BY <1>1, <1>2

\* RingInv holds in every reachable state, for any threads, size and order.
THEOREM RingInvariant == ASSUME Size # 1 PROVE Spec => []RingInv
<1>1. RingInv /\ [Next]_vars => RingInv'
  BY RingInvStep
<1> QED BY RingInvInit, <1>1, PTL DEF Spec

-----------------------------------------------------------------------------
(***************************************************************************)
(* Tickets only grow                                                       *)
(***************************************************************************)

LEMMA StaleStep ==
  ASSUME Size # 1, RingInv, StaleInv, Next, TypeOK'
  PROVE  StaleInv'
<1>1. /\ Len(claim) \in Nat /\ served \in Nat
      /\ \A i \in Cells : seq[i] \in Nat /\ seq'[i] \in Nat
      /\ \A t \in Threads : pos[t] \in Nat
  BY Basics DEF RingInv, TypeOK
<1>2. \A t \in 0 .. Len(claim) : Cell(t) \in Cells
  BY <1>1, CellType
<1>3. served <= Len(claim)
  BY DEF RingInv, CounterInv
<1>4. SUFFICES
        /\ \A i \in Cells : seq[i] <= seq'[i]
        /\ \/ claim' = claim
           \/ Len(claim') = Len(claim) + 1 /\ Len(claim) <= seq[Cell(Len(claim))]
        /\ \/ served' = served
           \/ served' = served + 1 /\ served < seq[Cell(served)]
  <2> SUFFICES ASSUME
        /\ \A i \in Cells : seq[i] <= seq'[i]
        /\ \/ claim' = claim
           \/ Len(claim') = Len(claim) + 1 /\ Len(claim) <= seq[Cell(Len(claim))]
        /\ \/ served' = served
           \/ served' = served + 1 /\ served < seq[Cell(served)]
               PROVE StaleInv'
    OBVIOUS
  <2>1. ASSUME NEW t \in 0 .. Len(claim') - 1 PROVE t <= seq'[Cell(t)]
    <3>1. t \in 0 .. Len(claim) /\ t <= seq[Cell(t)]
      BY <1>1 DEF StaleInv
    <3> QED BY <3>1, <1>1, <1>2
  <2>2. ASSUME NEW t \in 0 .. served' - 1 PROVE t < seq'[Cell(t)]
    <3>1. t \in 0 .. Len(claim) /\ t < seq[Cell(t)]
      BY <1>1, <1>3 DEF StaleInv
    <3> QED BY <3>1, <1>1, <1>2
  <2> QED BY <2>1, <2>2 DEF StaleInv, Cell
<1>5. ASSUME NEW p \in Producers, Push(p)
      PROVE  /\ \A i \in Cells : seq[i] <= seq'[i]
             /\ \/ claim' = claim
                \/ Len(claim') = Len(claim) + 1 /\ Len(claim) <= seq[Cell(Len(claim))]
             /\ served' = served
  <2>1. served' = served
    BY <1>5 DEF Push, PushLoadTail, PushSeesFree, PushSeesFull, PushSeesStale,
       PushClaim, PushCasFails, PushWrite, PushPublish, PushAdvance
  <2>2. \A i \in Cells : seq[i] <= seq'[i]
    <3>1. CASE PushPublish(p)
      <4>1. seq[Cell(pos[p])] = pos[p] /\ pos[p] \in Nat
        BY <3>1, <1>1 DEF PushPublish, RingInv, WriterInv, Writing, Threads
      <4>2. seq' = [seq EXCEPT ![Cell(pos[p])] = pos[p] + 1] /\ DOMAIN seq = Cells
        BY <3>1 DEF PushPublish, RingInv, TypeOK
      <4> QED BY <4>1, <4>2, <1>1
    <3>2. CASE ~PushPublish(p)
      <4>1. seq' = seq
        BY <1>5, <3>2 DEF Push, PushLoadTail, PushSeesFree, PushSeesFull,
           PushSeesStale, PushClaim, PushCasFails, PushWrite, PushAdvance
      <4> QED BY <4>1, <1>1
    <3> QED BY <3>1, <3>2
  <2>3. \/ claim' = claim
        \/ Len(claim') = Len(claim) + 1 /\ Len(claim) <= seq[Cell(Len(claim))]
    <3>1. ASSUME claim' = Append(claim, Item(p)), pos[p] = Len(claim),
                 seq[Cell(pos[p])] = pos[p]
          PROVE  Len(claim') = Len(claim) + 1 /\ Len(claim) <= seq[Cell(Len(claim))]
      <4>1. claim \in Seq(Items) /\ Item(p) \in Items
        BY DEF RingInv, TypeOK, Items, Item
      <4> QED BY <3>1, <4>1, <1>1
    <3>2. CASE PushSeesFree(p) /\ mode.sp
      <4>1. pos[p] = Len(claim)
        BY <3>2 DEF PushSeesFree, RingInv, SingleProducerInv, Pushing
      <4> QED BY <3>1, <3>2, <4>1 DEF PushSeesFree
    <3>3. CASE PushClaim(p)
      <4>1. pos[p] = Len(claim) /\ seq[Cell(pos[p])] = pos[p]
        BY <3>3 DEF PushClaim, RingInv, CounterInv, SingleProducerInv, SnapshotInv
      <4> QED BY <3>1, <3>3, <4>1 DEF PushClaim
    <3>4. CASE ~PushClaim(p) /\ ~(PushSeesFree(p) /\ mode.sp)
      BY <1>5, <3>4 DEF Push, PushLoadTail, PushSeesFree, PushSeesFull,
         PushSeesStale, PushCasFails, PushWrite, PushPublish, PushAdvance
    <3> QED BY <3>2, <3>3, <3>4
  <2> QED BY <2>1, <2>2, <2>3
<1>6. ASSUME NEW c \in Consumers, Pop(c)
      PROVE  /\ \A i \in Cells : seq[i] <= seq'[i]
             /\ claim' = claim
             /\ \/ served' = served
                \/ served' = served + 1 /\ served < seq[Cell(served)]
  <2>1. claim' = claim
    BY <1>6 DEF Pop, PopLoadHead, PopSeesItem, PopSeesEmpty, PopSeesStale,
       PopClaim, PopCasFails, PopRead, PopRelease, PopAdvance
  <2>2. \A i \in Cells : seq[i] <= seq'[i]
    <3>1. CASE PopRelease(c)
      <4>1. seq[Cell(pos[c])] = pos[c] + 1 /\ pos[c] \in Nat
        BY <3>1, <1>1 DEF PopRelease, RingInv, TakerInv, Taking, Threads
      <4>2. seq' = [seq EXCEPT ![Cell(pos[c])] = pos[c] + Size] /\ DOMAIN seq = Cells
        BY <3>1 DEF PopRelease, RingInv, TypeOK
      <4> QED BY <4>1, <4>2, <1>1, SizeAssumption
    <3>2. CASE ~PopRelease(c)
      <4>1. seq' = seq
        BY <1>6, <3>2 DEF Pop, PopLoadHead, PopSeesItem, PopSeesEmpty,
           PopSeesStale, PopClaim, PopCasFails, PopRead, PopAdvance
      <4> QED BY <4>1, <1>1
    <3> QED BY <3>1, <3>2
  <2>3. \/ served' = served
        \/ served' = served + 1 /\ served < seq[Cell(served)]
    <3>1. CASE PopSeesItem(c) /\ mode.sc
      <4>1. pos[c] = served /\ seq[Cell(pos[c])] = pos[c] + 1
        BY <3>1 DEF PopSeesItem, RingInv, SingleConsumerInv, Popping
      <4> QED BY <3>1, <4>1, <1>1 DEF PopSeesItem
    <3>2. CASE PopClaim(c)
      <4>1. pos[c] = served /\ seq[Cell(pos[c])] = pos[c] + 1
        BY <3>2 DEF PopClaim, RingInv, CounterInv, SingleConsumerInv, SnapshotInv
      <4> QED BY <3>2, <4>1, <1>1 DEF PopClaim
    <3>3. CASE ~PopClaim(c) /\ ~(PopSeesItem(c) /\ mode.sc)
      BY <1>6, <3>3 DEF Pop, PopLoadHead, PopSeesItem, PopSeesEmpty,
         PopSeesStale, PopCasFails, PopRead, PopRelease, PopAdvance
    <3> QED BY <3>1, <3>2, <3>3
  <2> QED BY <2>1, <2>2, <2>3
<1> QED BY <1>5, <1>6 DEF Next

LEMMA StaleInvariant == ASSUME Size # 1 PROVE Spec => []StaleInv
<1>1. Init => StaleInv
  BY DEF Init, StaleInv
<1>2. TypeOK /\ RingInv /\ StaleInv /\ [Next]_vars /\ TypeOK' => StaleInv'
  <2> SUFFICES ASSUME RingInv, StaleInv, [Next]_vars, TypeOK' PROVE StaleInv'
    OBVIOUS
  <2>1. CASE UNCHANGED vars
    BY <2>1 DEF vars, StaleInv, Cell
  <2> QED BY <2>1, StaleStep
<1> QED BY <1>1, <1>2, TypeCorrect, RingInvariant, PTL DEF Spec

-----------------------------------------------------------------------------
(***************************************************************************)
(* The theorems.  A ring of one cell (size_order = 0) is excluded: there   *)
(* the sequence number of a full cell is that of a cell free for the next  *)
(* ticket, and CapacityBound fails.                                        *)
(***************************************************************************)

\* Never more than Size items are in the ring.
THEOREM Capacity == ASSUME Size # 1 PROVE Spec => []CapacityBound
<1>1. RingInv => CapacityBound
  BY DEF RingInv, CounterInv, CapacityBound
<1> QED BY RingInvariant, <1>1, PTL

\* Two tickets of the current window never share a cell, so no two threads
\* access the data of one cell at once.
THEOREM NoSharedCell == ASSUME Size # 1 PROVE Spec => []ExclusiveCell
<1>1. ASSUME RingInv PROVE ExclusiveCell
  <2>1. /\ Len(claim) \in Nat /\ served \in Nat /\ Len(claim) <= served + Size
        /\ \A t \in Threads : pos[t] \in Nat
    BY <1>1, Basics DEF RingInv, CounterInv
  <2>2. ASSUME NEW p \in Producers, NEW q \in Producers,
               Writing(p), Writing(q), Cell(pos[p]) = Cell(pos[q])
        PROVE  p = q
    <3>1. /\ seq[Cell(pos[p])] = pos[p] /\ seq[Cell(pos[q])] = pos[q]
          /\ pos[p] = pos[q] => p = q
      BY <1>1, <2>2 DEF RingInv, WriterInv
    <3> QED BY <2>2, <3>1
  <2>3. ASSUME NEW c \in Consumers, NEW d \in Consumers,
               Taking(c), Taking(d), Cell(pos[c]) = Cell(pos[d])
        PROVE  c = d
    <3>1. /\ seq[Cell(pos[c])] = pos[c] + 1 /\ seq[Cell(pos[d])] = pos[d] + 1
          /\ pos[c] = pos[d] => c = d
      BY <1>1, <2>3 DEF RingInv, TakerInv
    <3>2. pos[c] \in Nat /\ pos[d] \in Nat
      BY <2>1 DEF Threads
    <3> QED BY <2>3, <3>1, <3>2
  <2>4. ASSUME NEW p \in Producers, NEW c \in Consumers, Writing(p), Taking(c)
        PROVE  Cell(pos[p]) # Cell(pos[c])
    <3>1. /\ served <= pos[p] /\ pos[p] < Len(claim)
          /\ pos[c] < served /\ Len(claim) <= pos[c] + Size
      BY <1>1, <2>4 DEF RingInv, WriterInv, TakerInv
    <3>2. pos[p] \in Nat /\ pos[c] \in Nat
      BY <2>1 DEF Threads
    <3>3. pos[c] < pos[p] /\ pos[p] < pos[c] + Size
      BY <2>1, <3>1, <3>2, SizeAssumption
    <3> QED BY <3>2, <3>3, CellDistinct
  <2> QED BY <2>2, <2>3, <2>4 DEF ExclusiveCell
<1> QED BY RingInvariant, <1>1, PTL

\* Every consumer reads the item of its own ticket.
THEOREM Delivery == ASSUME Size # 1 PROVE Spec => []TicketDelivery
<1>1. ASSUME RingInv PROVE TicketDelivery
  <2>1. ASSUME NEW c \in Consumers, pc[c] = "release"
        PROVE  pos[c] < Len(claim) /\ got[c] = ItemOf(pos[c])
    <3>1. pos[c] < served /\ got[c] = ItemOf(pos[c])
      BY <1>1, <2>1 DEF RingInv, TakerInv, Taking
    <3>2. /\ pos[c] \in Nat /\ served \in Nat /\ Len(claim) \in Nat
          /\ served <= Len(claim)
      BY <1>1, Basics DEF RingInv, CounterInv, Threads
    <3> QED BY <3>1, <3>2
  <2> QED BY <2>1 DEF TicketDelivery
<1> QED BY RingInvariant, <1>1, PTL

\* When nobody is inside a call the ring holds exactly the items accepted
\* and not yet popped, all of them published.
THEOREM Quiescence == ASSUME Size # 1 PROVE Spec => []QuiescentComplete
<1>1. ASSUME RingInv PROVE QuiescentComplete
  <2>1. SUFFICES ASSUME \A t \in Threads : pc[t] = "idle"
                 PROVE  /\ tail = Len(claim) /\ head = served
                        /\ \A t \in served .. Len(claim) - 1 :
                             seq[Cell(t)] = t + 1 /\ data[Cell(t)] = ItemOf(t)
    BY DEF QuiescentComplete
  <2>2. /\ \A p \in Producers : ~Writing(p) /\ ~Pushing(p)
        /\ \A c \in Consumers : ~Popping(c)
    BY <2>1 DEF Threads, Writing, Pushing, Popping
  <2>3. tail = Len(claim) /\ head = served
    BY <1>1, <2>2 DEF RingInv, CounterInv, SingleProducerInv, SingleConsumerInv
  <2> QED BY <1>1, <2>2, <2>3 DEF RingInv, CellInv
<1> QED BY RingInvariant, <1>1, PTL

\* pop returns None: the ring is empty, or its oldest item is still being written.
LEMMA EmptyStep ==
  ASSUME RingInv, StaleInv, NEW c \in Consumers, PopSeesEmpty(c)
  PROVE  \/ served = Len(claim)
         \/ \E p \in Producers : Writing(p) /\ pos[p] = served
<1>1. /\ pos[c] \in Nat /\ served \in Nat /\ Len(claim) \in Nat
      /\ pos[c] <= served /\ served <= Len(claim)
      /\ seq[Cell(pos[c])] \in Nat
  BY Basics, CellType DEF RingInv, CounterInv, SnapshotInv, Threads
<1>2. pos[c] = served
  <2>1. CASE mode.sc
    BY <2>1 DEF PopSeesEmpty, RingInv, SingleConsumerInv, Popping
  <2>2. CASE ~mode.sc
    <3>1. seq[Cell(pos[c])] <= pos[c]
      BY <2>2, <1>1 DEF PopSeesEmpty
    <3> QED BY <1>1, <3>1 DEF StaleInv
  <2> QED BY <2>1, <2>2
<1>3. seq[Cell(served)] # served + 1
  BY <1>1, <1>2 DEF PopSeesEmpty
<1> QED BY <1>1, <1>3 DEF RingInv, CellInv

\* A pop that returns None found the ring empty, or its oldest item between
\* claim and publication.
THEOREM EmptyJustified == ASSUME Size # 1 PROVE Spec => EmptyIsJustified
<1>1. RingInv /\ StaleInv =>
        [\A c \in Consumers :
           PopSeesEmpty(c) =>
             \/ served = Len(claim)
             \/ \E p \in Producers : Writing(p) /\ pos[p] = served]_vars
  BY EmptyStep
<1> QED BY <1>1, RingInvariant, StaleInvariant, PTL DEF EmptyIsJustified

\* A push that returns Err found Size items, or a consumer inside the cell.
THEOREM FullJustified == ASSUME Size # 1 PROVE Spec => FullIsJustified
<1>1. ASSUME RingInv, StaleInv, NEW p \in Producers, PushSeesFull(p)
      PROVE  \/ Len(claim) = served + Size
             \/ \E c \in Consumers : Taking(c) /\ pos[c] + Size = Len(claim)
  <2>1. /\ pos[p] \in Nat /\ served \in Nat /\ Len(claim) \in Nat
        /\ pos[p] <= Len(claim) /\ served <= Len(claim)
        /\ Len(claim) <= served + Size
        /\ seq[Cell(pos[p])] \in Nat
    BY <1>1, Basics, CellType DEF RingInv, CounterInv, SnapshotInv, Threads
  <2>2. pos[p] = Len(claim)
    <3>1. CASE mode.sp
      BY <1>1, <3>1 DEF PushSeesFull, RingInv, SingleProducerInv, Pushing
    <3>2. CASE ~mode.sp
      <4>1. seq[Cell(pos[p])] < pos[p]
        BY <1>1, <3>2, <2>1 DEF PushSeesFull
      <4> QED BY <1>1, <2>1, <4>1 DEF StaleInv
    <3> QED BY <3>1, <3>2
  <2>3. seq[Cell(Len(claim))] # Len(claim)
    BY <1>1, <2>1, <2>2 DEF PushSeesFull
  <2>4. Size <= Len(claim)
    BY <1>1, <2>1, <2>3, SizeAssumption DEF RingInv, CellInv
  <2> DEFINE t == Len(claim) - Size
  <2>5. t \in Nat /\ t + Size = Len(claim)
    BY <2>1, <2>4, SizeAssumption
  <2>6. seq[Cell(t)] # t + Size
    BY <2>3, <2>5, CellWrap
  <2> HIDE DEF t
  <2>7. CASE t < served
    <3>1. t \in 0 .. served - 1 /\ Len(claim) <= t + Size
      BY <2>1, <2>5, <2>7
    <3>2. \E c \in Consumers : Taking(c) /\ pos[c] = t
      BY <1>1, <2>6, <3>1 DEF RingInv, CellInv
    <3> QED BY <3>2, <2>5
  <2>8. CASE served <= t
    <3>1. Len(claim) = served + Size
      BY <2>1, <2>5, <2>8, SizeAssumption
    <3> QED BY <3>1
  <2> QED BY <2>1, <2>5, <2>7, <2>8
<1>2. RingInv /\ StaleInv =>
        [\A p \in Producers :
           PushSeesFull(p) =>
             \/ Len(claim) = served + Size
             \/ \E c \in Consumers : Taking(c) /\ pos[c] + Size = Len(claim)]_vars
  BY <1>1
<1> QED BY <1>2, RingInvariant, StaleInvariant, PTL DEF FullIsJustified

-----------------------------------------------------------------------------
(* The ring buffer implements the bounded queue, for any sets of threads,  *)
(* any number of cells but one, and any number of calls: every step of a   *)
(* thread is a step of the queue or changes nothing of it.                 *)

\* The queue of the items c, of which h were handed out, by the numbers s of the
\* cells.
Place(c, s, h, i) == [item |-> c[h + i], ready |-> s[Cell(h + i - 1)] = h + i]
Queue(c, s, h) == [i \in 1 .. Len(c) - h |-> Place(c, s, h, i)]
Places == [item : Items, ready : BOOLEAN]

\* A place becomes ready.
Ready(q, i) == [q EXCEPT ![i].ready = TRUE]

\* Making a place ready changes nothing else of it.
LEMMA SetReady ==
  ASSUME NEW p \in Places
  PROVE  [p EXCEPT !.ready = TRUE] = [item |-> p.item, ready |-> TRUE]
<1> DEFINE r == [p EXCEPT !.ready = TRUE]
<1>1. r \in Places /\ r.item = p.item /\ r.ready = TRUE
  BY DEF Places
<1>2. \A x \in Places : x = [item |-> x.item, ready |-> x.ready]
  BY DEF Places
<1> HIDE DEF r
<1>3. r = [item |-> p.item, ready |-> TRUE]
  BY <1>1, <1>2
<1> QED BY <1>3 DEF r

\* The queue and its places have the types and the length one expects.
LEMMA QueueFacts ==
  ASSUME NEW c \in Seq(Items), NEW s \in [Cells -> Nat], NEW h \in 0 .. Len(c)
  PROVE  /\ Queue(c, s, h) \in Seq(Places)
         /\ Len(Queue(c, s, h)) = Len(c) - h /\ Len(c) - h \in Nat
         /\ \A i \in 1 .. Len(c) - h : Queue(c, s, h)[i] = Place(c, s, h, i)
<1>1. Len(c) \in Nat /\ h \in Nat /\ Len(c) - h \in Nat
  OBVIOUS
<1>2. \A i \in 1 .. Len(c) - h : Place(c, s, h, i) \in Places
  <2> SUFFICES ASSUME NEW i \in 1 .. Len(c) - h PROVE Place(c, s, h, i) \in Places
    OBVIOUS
  <2>1. c[h + i] \in Items
    BY <1>1
  <2> QED BY <2>1 DEF Place, Places
<1>3. Queue(c, s, h) \in [1 .. Len(c) - h -> Places]
  BY <1>2 DEF Queue
<1> QED BY <1>1, <1>3 DEF Queue

\* A ticket is taken: its item is last, and not ready.
LEMMA QueueClaim ==
  ASSUME NEW c \in Seq(Items), NEW s \in [Cells -> Nat], NEW h \in 0 .. Len(c),
         NEW x \in Items, s[Cell(Len(c))] = Len(c)
  PROVE  Queue(Append(c, x), s, h) = Append(Queue(c, s, h), [item |-> x, ready |-> FALSE])
<1> DEFINE d == Append(c, x)
           p == [item |-> x, ready |-> FALSE]
           q == Queue(c, s, h)
<1>1. d \in Seq(Items) /\ Len(d) = Len(c) + 1 /\ h \in 0 .. Len(d)
      /\ \A i \in 1 .. Len(c) : d[i] = c[i]
      /\ d[Len(c) + 1] = x
  OBVIOUS
<1>2. p \in Places
  BY DEF Places
<1>3. q \in Seq(Places) /\ Len(q) = Len(c) - h
      /\ \A i \in 1 .. Len(c) - h : q[i] = Place(c, s, h, i)
  BY QueueFacts
<1>4. Queue(d, s, h) \in Seq(Places) /\ Len(Queue(d, s, h)) = Len(c) + 1 - h
      /\ \A i \in 1 .. Len(c) + 1 - h : Queue(d, s, h)[i] = Place(d, s, h, i)
  <2> HIDE DEF d
  <2> QED BY SMTT(60), <1>1, QueueFacts
<1>5. ASSUME NEW i \in 1 .. Len(c) - h PROVE Place(d, s, h, i) = Place(c, s, h, i)
  BY <1>1 DEF Place
<1>6. Place(d, s, h, Len(c) + 1 - h) = p
  <2>1. h + (Len(c) + 1 - h) = Len(c) + 1 /\ h + (Len(c) + 1 - h) - 1 = Len(c)
    OBVIOUS
  <2>2. s[Cell(Len(c))] # Len(c) + 1
    BY <1>1
  <2>3. d[h + (Len(c) + 1 - h)] = x
    BY <1>1, <2>1
  <2> HIDE DEF d
  <2> QED BY ZenonT(60), SMTT(60), <2>1, <2>2, <2>3 DEF Place
<1> HIDE DEF d, p, q
<1>7. Append(q, p) \in Seq(Places) /\ Len(Append(q, p)) = Len(c) + 1 - h
      /\ \A i \in 1 .. Len(c) - h : Append(q, p)[i] = q[i]
      /\ Append(q, p)[Len(c) + 1 - h] = p
  BY <1>1, <1>2, <1>3, AppendProperties
<1>8. ASSUME NEW i \in 1 .. Len(c) + 1 - h PROVE Queue(d, s, h)[i] = Append(q, p)[i]
  <2>1. CASE i = Len(c) + 1 - h
    BY SMTT(60), <1>4, <1>6, <1>7, <2>1
  <2>2. CASE i \in 1 .. Len(c) - h
    BY <1>3, <1>4, <1>5, <1>7, <2>2
  <2>3. i = Len(c) + 1 - h \/ i \in 1 .. Len(c) - h
    OBVIOUS
  <2> QED BY <2>1, <2>2, <2>3
<1>9. Queue(d, s, h) = Append(q, p)
  <2> DEFINE a == Append(q, p)
             b == Queue(d, s, h)
  <2>1. a \in Seq(Places) /\ b \in Seq(Places) /\ Len(b) = Len(a)
        /\ \A i \in 1 .. Len(b) : b[i] = a[i]
    BY <1>4, <1>7, <1>8
  <2> HIDE DEF a, b
  <2>2. b = a
    BY <2>1, SeqEqual
  <2> QED BY <2>2 DEF a, b
<1> QED BY <1>9 DEF d, p, q

\* A ticket is handed out: the queue loses its first place.
LEMMA QueueServe ==
  ASSUME NEW c \in Seq(Items), NEW s \in [Cells -> Nat], NEW h \in Nat, h < Len(c)
  PROVE  /\ Queue(c, s, h) # <<>>
         /\ Head(Queue(c, s, h)) = [item |-> c[h + 1], ready |-> s[Cell(h)] = h + 1]
         /\ Queue(c, s, h + 1) = Tail(Queue(c, s, h))
<1> DEFINE q == Queue(c, s, h)
           r == Queue(c, s, h + 1)
<1>1. Len(c) \in Nat /\ h \in 0 .. Len(c) /\ h + 1 \in 0 .. Len(c)
  OBVIOUS
<1>2. q \in Seq(Places) /\ Len(q) = Len(c) - h /\ Len(q) # 0
      /\ \A i \in 1 .. Len(c) - h : q[i] = Place(c, s, h, i)
  BY <1>1, QueueFacts
<1>3. r \in Seq(Places) /\ Len(r) = Len(c) - (h + 1)
      /\ \A i \in 1 .. Len(c) - (h + 1) : r[i] = Place(c, s, h + 1, i)
  BY <1>1, QueueFacts
<1>4. ASSUME NEW i \in 1 .. Len(c) - (h + 1) PROVE Place(c, s, h + 1, i) = Place(c, s, h, i + 1)
  <2>1. h + 1 + i = h + (i + 1) /\ h + 1 + i - 1 = h + (i + 1) - 1
    OBVIOUS
  <2> QED BY <2>1 DEF Place
<1>5. Place(c, s, h, 1) = [item |-> c[h + 1], ready |-> s[Cell(h)] = h + 1]
  <2>1. h + 1 - 1 = h
    OBVIOUS
  <2> QED BY <2>1 DEF Place
<1> HIDE DEF q, r
<1>6. q # <<>> /\ Head(q) = q[1]
  BY <1>2
<1>7. Tail(q) \in Seq(Places) /\ Len(Tail(q)) = Len(q) - 1
      /\ \A i \in 1 .. Len(Tail(q)) : Tail(q)[i] = q[i + 1]
  BY <1>2, <1>6, HeadTailProperties
<1>8. ASSUME NEW i \in 1 .. Len(r) PROVE r[i] = Tail(q)[i]
  <2>1. i \in 1 .. Len(Tail(q)) /\ i + 1 \in 1 .. Len(c) - h
    BY <1>1, <1>2, <1>3, <1>7
  <2> QED BY <1>2, <1>3, <1>4, <1>7, <2>1
<1>9. r = Tail(q)
  <2>1. Len(r) = Len(Tail(q))
    BY <1>1, <1>2, <1>3, <1>7
  <2> QED BY <1>3, <1>7, <1>8, <2>1, SeqEqual
<1> QED BY <1>1, <1>2, <1>5, <1>6, <1>9 DEF q, r

\* A producer publishes ticket t: its place is ready, the others are as they were.
LEMMA QueuePublish ==
  ASSUME NEW c \in Seq(Items), NEW s \in [Cells -> Nat], NEW h \in 0 .. Len(c),
         Len(c) <= h + Size, NEW t \in h .. Len(c) - 1, s[Cell(t)] = t,
         NEW i \in Int, i = t - h + 1, NEW u, u = [s EXCEPT ![Cell(t)] = t + 1]
  PROVE  /\ i \in DOMAIN Queue(c, s, h)
         /\ ~Queue(c, s, h)[i].ready
         /\ Queue(c, u, h) = Ready(Queue(c, s, h), i)
<1> DEFINE q == Queue(c, s, h)
           r == Queue(c, u, h)
           e == [q EXCEPT ![i].ready = TRUE]
<1>1. Len(c) \in Nat /\ h \in Nat /\ t \in Nat /\ i \in 1 .. Len(c) - h
  OBVIOUS
<1>2. u \in [Cells -> Nat] /\ u[Cell(t)] = t + 1 /\ \A k \in Cells : k # Cell(t) => u[k] = s[k]
  <2>1. Cell(t) \in Cells /\ t + 1 \in Nat
    BY <1>1, CellType
  <2> QED BY <2>1
<1>3. q \in Seq(Places) /\ Len(q) = Len(c) - h
      /\ \A j \in 1 .. Len(c) - h : q[j] = Place(c, s, h, j)
  BY QueueFacts
<1>4. r \in Seq(Places) /\ Len(r) = Len(c) - h
      /\ \A j \in 1 .. Len(c) - h : r[j] = Place(c, u, h, j)
  <2> QED BY ZenonT(60), SMTT(60), <1>2, QueueFacts
<1>5. ASSUME NEW j \in 1 .. Len(c) - h, j # i PROVE Place(c, u, h, j) = Place(c, s, h, j)
  <2> DEFINE v == h + j - 1
  <2>1. v \in Nat /\ v # t /\ v < t + Size /\ t < v + Size
    BY <1>1, <1>5, SizeAssumption
  <2>2. Cell(v) # Cell(t) /\ Cell(v) \in Cells
    BY <1>1, <2>1, CellDistinct, CellType
  <2>3. u[Cell(v)] = s[Cell(v)]
    BY <1>2, <2>2
  <2> QED BY <2>3 DEF Place
<1>6. h + i - 1 = t /\ h + i = t + 1
  BY <1>1
<1>7. Place(c, s, h, i) = [item |-> c[t + 1], ready |-> FALSE]
  <2>1. (s[Cell(t)] = t + 1) = FALSE
    BY <1>1
  <2> QED BY <1>6, <2>1 DEF Place
<1>8. Place(c, u, h, i) = [item |-> c[t + 1], ready |-> TRUE]
  <2>1. (u[Cell(t)] = t + 1) = TRUE
    BY <1>2
  <2> QED BY <1>6, <2>1 DEF Place
<1> HIDE DEF q, r
<1>9. DOMAIN q = 1 .. Len(c) - h /\ q[i].ready = FALSE /\ [q[i] EXCEPT !.ready = TRUE] = r[i]
  <2>1. DOMAIN q = 1 .. Len(c) - h
    BY <1>3
  <2>2. q[i] = [item |-> c[t + 1], ready |-> FALSE] /\ r[i] = [item |-> c[t + 1], ready |-> TRUE]
    BY <1>1, <1>3, <1>4, <1>7, <1>8
  <2>3. q[i].ready = FALSE
    BY <2>2
  <2>4. [q[i] EXCEPT !.ready = TRUE] = r[i]
    <3>1. q[i] \in Places /\ q[i].item = c[t + 1]
      BY <1>1, <1>3, <2>2
    <3> QED BY <2>2, <3>1, SetReady
  <2> QED BY <2>1, <2>3, <2>4
<1>10. e = [q EXCEPT ![i] = r[i]]
  BY <1>9
<1>11. e \in Seq(Places) /\ Len(e) = Len(q)
       /\ \A j \in 1 .. Len(q) : e[j] = IF j = i THEN r[i] ELSE q[j]
  <2>1. r[i] \in Places
    BY <1>1, <1>4
  <2> HIDE DEF e
  <2> QED BY <1>1, <1>3, <1>10, <2>1, ExceptSeq
<1>12. \A j \in 1 .. Len(r) : r[j] = e[j]
  BY ZenonT(60), SMTT(60), <1>3, <1>4, <1>5, <1>11
<1>13. r = e
  <2> HIDE DEF e
  <2> QED BY ZenonT(60), SMTT(60), <1>3, <1>4, <1>11, <1>12, SeqEqual
<1> QED BY <1>1, <1>9, <1>13 DEF q, r, Ready

\* A consumer gives back the cell of ticket t: no place changes.
LEMMA QueueRelease ==
  ASSUME NEW c \in Seq(Items), NEW s \in [Cells -> Nat], NEW h \in 0 .. Len(c),
         NEW t \in Nat, t < h, Len(c) <= t + Size
  PROVE  Queue(c, [s EXCEPT ![Cell(t)] = t + Size], h) = Queue(c, s, h)
<1> DEFINE u == [s EXCEPT ![Cell(t)] = t + Size]
<1>1. Len(c) \in Nat /\ h \in Nat
  OBVIOUS
<1>2. ASSUME NEW j \in 1 .. Len(c) - h PROVE Place(c, u, h, j) = Place(c, s, h, j)
  <2> DEFINE v == h + j - 1
  <2>1. v \in Nat /\ t < v /\ v < t + Size
    BY <1>1, SizeAssumption
  <2>2. Cell(v) # Cell(t) /\ Cell(v) \in Cells
    BY <2>1, CellDistinct, CellType
  <2>3. u[Cell(v)] = s[Cell(v)]
    BY <2>2
  <2> QED BY <2>3 DEF Place
<1> HIDE DEF u
<1>3. Queue(c, u, h) = Queue(c, s, h)
  BY <1>2 DEF Queue
<1> QED BY <1>3 DEF u
-----------------------------------------------------------------------------
\* What the queue is made of, in the state of the ring.
Leaving == {c \in Consumers : Taking(c)}
Result(c) == IF pc[c] = "read" THEN ItemOf(pos[c]) ELSE got[c]

\* A producer inside a push has not yet made all its calls.
CallsInv ==
  \A p \in Producers :
    /\ calls[p] <= MaxCalls
    /\ pc[p] \in {"reload", "check", "cas", "write", "publish"} => calls[p] < MaxCalls

\* The queue counts with the same Cardinality as this module.
LEMMA SameCount == \A S : Fifo!Cardinality(S) = Cardinality(S)
  BY DEF Fifo!Cardinality, Cardinality

\* The queue of the ring is that of its items, cells and tickets, before and after a step.
LEMMA Mapped ==
  /\ Waiting = Queue(claim, seq, served) /\ Waiting' = Queue(claim', seq', served')
  /\ Fifo!fifoVars = <<Waiting, Leaving, [c \in Consumers |-> Result(c)]>>
  /\ Fifo!fifoVars' = <<Waiting', Leaving', [c \in Consumers |-> Result(c)']>>
  BY DEF Waiting, Queue, Place, Fifo!fifoVars, Leaving, Result

\* What the invariant says of the types.
LEMMA RingTypes ==
  ASSUME RingInv
  PROVE  /\ claim \in Seq(Items) /\ seq \in [Cells -> Nat] /\ served \in 0 .. Len(claim)
         /\ served \in Nat /\ Len(claim) \in Nat /\ Len(claim) <= served + Size
         /\ \A t \in Threads : pos[t] \in Nat
  BY DEF RingInv, TypeOK, CounterInv

\* Where the next cell is free, places and consumers that leave do not fill the ring.
LEMMA Room ==
  ASSUME RingInv, Size # 1, seq[Cell(Len(claim))] = Len(claim)
  PROVE  Len(claim) - served + Cardinality(Leaving) < Size
<1> DEFINE lo == Len(claim) - Size + 1
           hi == served - 1
           f == [c \in Leaving |-> pos[c]]
<1>1. /\ served \in Nat /\ Len(claim) \in Nat /\ served <= Len(claim)
      /\ Len(claim) < served + Size /\ Size \in Nat /\ lo \in Int /\ hi \in Int
  BY RingTypes, ClaimRoom, SizeAssumption
<1>2. ASSUME NEW c \in Leaving PROVE pos[c] \in lo .. hi
  <2>1. c \in Consumers /\ Taking(c) /\ pos[c] \in Nat
    BY RingTypes DEF Leaving, Threads
  <2>2. pos[c] < served /\ Len(claim) <= pos[c] + Size /\ seq[Cell(pos[c])] = pos[c] + 1
    BY <2>1 DEF RingInv, TakerInv
  <2>3. Len(claim) # pos[c] + Size
    <3> SUFFICES ASSUME Len(claim) = pos[c] + Size PROVE FALSE
      OBVIOUS
    <3>1. Cell(Len(claim)) = Cell(pos[c])
      BY <2>1, CellWrap
    <3> QED BY <1>1, <2>1, <2>2, <3>1
  <2> QED BY SMTT(60), <1>1, <2>1, <2>2, <2>3
<1>3. \A c, d \in Leaving : pos[c] = pos[d] => c = d
  BY DEF Leaving, RingInv, TakerInv
<1>4. f \in Injection(Leaving, lo .. hi)
  BY <1>2, <1>3 DEF Injection, IsInjective
<1>5. IsFiniteSet(lo .. hi) /\ Cardinality(lo .. hi) = IF lo > hi THEN 0 ELSE hi - lo + 1
  BY <1>1, FS_Interval
<1>6. IsFiniteSet(Leaving) /\ Cardinality(Leaving) <= Cardinality(lo .. hi)
  <2> HIDE DEF f, lo, hi
  <2> QED BY <1>4, <1>5, FS_Injection
<1>7. Cardinality(Leaving) \in Nat
  BY <1>6, FS_CardinalityType
<1> QED BY <1>1, <1>5, <1>6, <1>7

-----------------------------------------------------------------------------
\* A step that changes neither the items nor who is inside a cell.
LEMMA Quiet ==
  ASSUME UNCHANGED <<claim, seq, served>>,
         \A c \in Consumers : (Taking(c)' <=> Taking(c)) /\ Result(c)' = Result(c)
  PROVE  UNCHANGED Fifo!fifoVars
<1>1. Waiting' = Waiting
  BY Mapped
<1>2. Leaving' = Leaving
  BY DEF Leaving
<1>3. [c \in Consumers |-> Result(c)'] = [c \in Consumers |-> Result(c)]
  OBVIOUS
<1> QED BY <1>1, <1>2, <1>3, Mapped

\* The consumers do not notice a step of a producer.
LEMMA PushSideStep ==
  ASSUME RingInv, NEW p \in Producers, Push(p)
  PROVE  \A c \in Consumers : pc'[c] = pc[c] /\ pos'[c] = pos[c] /\ got'[c] = got[c]
<1>1. \A c \in Consumers : c # p
  BY ThreadsAssumption
<1>2. pc \in [Threads -> PushLabels \cup PopLabels] /\ pos \in [Threads -> Nat]
  BY DEF RingInv, TypeOK
<1> QED
  BY <1>1, <1>2 DEF Push, PushLoadTail, PushSeesFree, PushSeesFull, PushSeesStale, PushClaim,
     PushCasFails, PushWrite, PushPublish, PushAdvance, Goto, Threads

\* A producer wins a ticket.
LEMMA Enqueues ==
  ASSUME RingInv, CallsInv, Size # 1, NEW p \in Producers, Push(p),
         pc[p] \in {"check", "cas"}, seq[Cell(Len(claim))] = Len(claim),
         claim' = Append(claim, Item(p)), UNCHANGED <<seq, served>>
  PROVE  \E x \in Producers \X (0 .. MaxCalls) : Fifo!Enqueue(x)
<1>1. Item(p) \in Producers \X (0 .. MaxCalls) /\ Item(p) \in Items
  BY CallsAssumption DEF RingInv, TypeOK, CallsInv, Item, Items
<1>2. Waiting' = Append(Waiting, [item |-> Item(p), ready |-> FALSE])
  BY <1>1, Mapped, RingTypes, QueueClaim
<1>3. Len(Waiting) + Cardinality(Leaving) < Size
  BY RingTypes, Mapped, QueueFacts, Room
<1>4. \A c \in Consumers : (Taking(c)' <=> Taking(c)) /\ Result(c)' = Result(c)
  <2> SUFFICES ASSUME NEW c \in Consumers
               PROVE  (Taking(c)' <=> Taking(c)) /\ Result(c)' = Result(c)
    OBVIOUS
  <2>1. pc'[c] = pc[c] /\ pos'[c] = pos[c] /\ got'[c] = got[c]
    BY PushSideStep
  <2>2. ASSUME pc[c] = "read" PROVE claim'[pos[c] + 1] = claim[pos[c] + 1]
    <3>1. pos[c] \in Nat /\ pos[c] < served
      BY <2>2, RingTypes DEF RingInv, TakerInv, Taking, Threads
    <3>2. claim \in Seq(Items) /\ pos[c] + 1 \in 1 .. Len(claim)
      BY <3>1, RingTypes
    <3> QED BY <1>1, <3>2, AppendProperties
  <2> QED BY <2>1, <2>2 DEF Taking, Result, ItemOf
<1>5. Leaving' = Leaving
  BY <1>4 DEF Leaving
<1>6. [c \in Consumers |-> Result(c)'] = [c \in Consumers |-> Result(c)]
  BY <1>4
<1>7. Fifo!Enqueue(Item(p))
  BY <1>2, <1>3, <1>5, <1>6, SameCount DEF Fifo!Enqueue, Leaving, Result
<1> QED BY <1>1, <1>7

\* A producer publishes its item.
LEMMA Completes ==
  ASSUME RingInv, NEW p \in Producers, PushPublish(p)
  PROVE  \E i \in DOMAIN Waiting : Fifo!Complete(i)
<1> DEFINE t == pos[p]
           i == t - served + 1
<1>1. /\ t \in served .. Len(claim) - 1 /\ seq[Cell(t)] = t
      /\ claim \in Seq(Items) /\ seq \in [Cells -> Nat] /\ served \in 0 .. Len(claim)
      /\ Len(claim) <= served + Size
      /\ seq' = [seq EXCEPT ![Cell(t)] = t + 1] /\ UNCHANGED <<claim, served>>
  BY RingTypes DEF PushPublish, RingInv, WriterInv, Writing, Threads
<1> HIDE DEF t
<1>2. /\ i \in DOMAIN Waiting /\ ~Waiting[i].ready
      /\ Waiting' = Ready(Waiting, i)
  <2>1. i \in Int /\ i = t - served + 1
    BY <1>1
  <2> HIDE DEF i
  <2> DEFINE q == Queue(claim, seq, served)
  <2>2. /\ i \in DOMAIN q /\ ~q[i].ready
        /\ Queue(claim, seq', served) = Ready(q, i)
    <3>1. i \in DOMAIN q
      BY <1>1, <2>1, QueuePublish
    <3>2. ~q[i].ready
      BY <1>1, <2>1, QueuePublish
    <3>3. Queue(claim, seq', served) = Ready(q, i)
      BY ZenonT(60), SMTT(60), <1>1, <2>1, QueuePublish
    <3> QED BY <3>1, <3>2, <3>3
  <2>3. Waiting = q /\ Waiting' = Queue(claim, seq', served)
    BY <1>1, Mapped
  <2> QED BY <2>2, <2>3
<1>3. \A c \in Consumers : (Taking(c)' <=> Taking(c)) /\ Result(c)' = Result(c)
  BY <1>1, PushSideStep DEF Push, Taking, Result, ItemOf
<1>4. Leaving' = Leaving
  BY <1>3 DEF Leaving
<1>5. [c \in Consumers |-> Result(c)'] = [c \in Consumers |-> Result(c)]
  BY <1>3
<1> HIDE DEF i
<1>6. Fifo!Complete(i)
  BY <1>2, <1>4, <1>5 DEF Fifo!Complete, Leaving, Result, Ready
<1> QED BY <1>2, <1>6

\* Every step of a producer is a step of the queue or none.
LEMMA PushRefines ==
  ASSUME RingInv, CallsInv, Size # 1, NEW p \in Producers, Push(p)
  PROVE  [Fifo!FifoNext]_(Fifo!fifoVars)
<1>1. CASE /\ claim' = Append(claim, Item(p)) /\ UNCHANGED <<seq, served>>
           /\ pc[p] \in {"check", "cas"} /\ seq[Cell(Len(claim))] = Len(claim)
  BY <1>1, Enqueues DEF Fifo!FifoNext
<1>2. CASE PushPublish(p)
  BY <1>2, Completes DEF Fifo!FifoNext
<1>3. CASE UNCHANGED <<claim, seq, served>>
  <2>1. \A c \in Consumers : (Taking(c)' <=> Taking(c)) /\ Result(c)' = Result(c)
    BY <1>3, PushSideStep DEF Taking, Result, ItemOf
  <2> QED BY <1>3, <2>1, Quiet
<1>4. CASE PushSeesFree(p) /\ mode.sp
  <2>1. pc[p] = "check" /\ pos[p] = Len(claim) /\ seq[Cell(pos[p])] = pos[p]
    BY <1>4 DEF PushSeesFree, RingInv, SingleProducerInv, Pushing
  <2> QED BY <1>1, <1>4, <2>1 DEF PushSeesFree
<1>5. CASE PushClaim(p)
  <2>1. pc[p] = "cas" /\ pos[p] = Len(claim) /\ seq[Cell(pos[p])] = pos[p]
    BY <1>5 DEF PushClaim, RingInv, CounterInv, SingleProducerInv, SnapshotInv
  <2> QED BY <1>1, <1>5, <2>1 DEF PushClaim
<1>6. CASE ~PushClaim(p) /\ ~PushPublish(p) /\ ~(PushSeesFree(p) /\ mode.sp)
  BY <1>3, <1>6 DEF Push, PushLoadTail, PushSeesFree, PushSeesFull, PushSeesStale,
     PushCasFails, PushWrite, PushAdvance
<1> QED BY <1>2, <1>4, <1>5, <1>6

-----------------------------------------------------------------------------
\* The other consumers do not notice a step of a consumer.
LEMMA PopSideStep ==
  ASSUME RingInv, NEW c \in Consumers, Pop(c), NEW d \in Consumers, d # c
  PROVE  pc'[d] = pc[d] /\ pos'[d] = pos[d] /\ got'[d] = got[d]
<1>1. /\ pc \in [Threads -> PushLabels \cup PopLabels] /\ pos \in [Threads -> Nat]
      /\ got \in [Consumers -> Items \cup {None}]
  BY DEF RingInv, TypeOK
<1> QED
  BY <1>1 DEF Pop, PopLoadHead, PopSeesItem, PopSeesEmpty, PopSeesStale, PopClaim, PopCasFails,
     PopRead, PopRelease, PopAdvance, Goto, Threads

\* A consumer wins a ticket.
\* A cell that holds the item of the next ticket: the ticket was taken by a producer.
LEMMA ServeRoom ==
  ASSUME RingInv, Size # 1, seq[Cell(served)] = served + 1
  PROVE  served < Len(claim)
<1> SUFFICES ASSUME served = Len(claim) PROVE FALSE
  BY RingTypes
<1>1. CASE served < Size
  <2>1. served \in Len(claim) .. Size - 1
    BY <1>1, RingTypes, SizeAssumption
  <2>2. seq[Cell(served)] = served
    BY <2>1 DEF RingInv, CellInv
  <2> QED BY <2>2, RingTypes
<1>2. CASE Size <= served
  <2> DEFINE t == served - Size
  <2>1. t \in 0 .. served - 1 /\ t \in Nat /\ t + Size = served /\ Size \in Nat
    BY <1>2, RingTypes, SizeAssumption
  <2>2. Cell(served) = Cell(t)
    BY <2>1, CellWrap
  <2> HIDE DEF t
  <2>3. seq[Cell(t)] = t + 1 \/ seq[Cell(t)] = t + Size
    BY <2>1, RingTypes DEF RingInv, CellInv
  <2> QED BY <2>1, <2>2, <2>3
<1> QED BY <1>1, <1>2, RingTypes, SizeAssumption

LEMMA Dequeues ==
  ASSUME RingInv, Size # 1, NEW c \in Consumers, Pop(c),
         pc[c] \in {"check", "cas"}, pc'[c] = "read", pos'[c] = served,
         seq[Cell(served)] = served + 1, served' = served + 1, UNCHANGED <<claim, seq>>
  PROVE  Fifo!Dequeue(c)
<1>1. served < Len(claim)
  BY ServeRoom, RingTypes
<1>2. /\ Waiting # <<>> /\ Head(Waiting) = [item |-> claim[served + 1], ready |-> TRUE]
      /\ Waiting' = Tail(Waiting)
  <2>1. /\ Waiting # <<>> /\ Waiting' = Tail(Waiting)
        /\ Head(Waiting) = [item |-> claim[served + 1], ready |-> seq[Cell(served)] = served + 1]
    BY <1>1, RingTypes, Mapped, QueueServe
  <2> QED BY <2>1
<1>3. c \notin Leaving /\ Leaving' = Leaving \cup {c}
  BY PopSideStep DEF Leaving, Taking
<1>4. [d \in Consumers |-> Result(d)']
      = [[d \in Consumers |-> Result(d)] EXCEPT ![c] = claim[served + 1]]
  <2>1. Result(c)' = claim[served + 1]
    BY DEF Result, ItemOf
  <2>2. \A d \in Consumers : d # c => Result(d)' = Result(d)
    BY PopSideStep DEF Result, ItemOf
  <2> QED BY <2>1, <2>2
<1>5. Head(Waiting).item = claim[served + 1] /\ Head(Waiting).ready
  BY <1>2
<1> QED BY <1>2, <1>3, <1>4, <1>5 DEF Fifo!Dequeue, Leaving, Result

\* A consumer gives its cell back.
LEMMA Leaves ==
  ASSUME RingInv, NEW c \in Consumers, PopRelease(c)
  PROVE  Fifo!Leave(c)
<1> DEFINE t == pos[c]
<1>1. /\ t \in Nat /\ t < served /\ Len(claim) <= t + Size
      /\ claim \in Seq(Items) /\ seq \in [Cells -> Nat] /\ served \in 0 .. Len(claim)
      /\ seq' = [seq EXCEPT ![Cell(t)] = t + Size] /\ UNCHANGED <<claim, served>>
  BY RingTypes DEF PopRelease, RingInv, TakerInv, Taking, Threads
<1>2. pc[c] = "release" /\ pc'[c] \in {"advance", "idle"} /\ got'[c] = got[c]
  BY DEF PopRelease, Goto, RingInv, TypeOK, Threads
<1> HIDE DEF t
<1>3. Waiting' = Waiting
  BY <1>1, Mapped, QueueRelease
<1>4. c \in Leaving /\ Leaving' = Leaving \ {c}
  BY <1>2, PopSideStep DEF Leaving, Taking, Pop
<1>5. [d \in Consumers |-> Result(d)'] = [d \in Consumers |-> Result(d)]
  <2>1. \A d \in Consumers : Result(d)' = Result(d)
    BY <1>1, <1>2, PopSideStep DEF Result, ItemOf, Pop
  <2> QED BY <2>1
<1> QED BY <1>3, <1>4, <1>5 DEF Fifo!Leave, Leaving, Result

\* A consumer finds nothing.
LEMMA FindsNone ==
  ASSUME RingInv, StaleInv, NEW c \in Consumers, PopSeesEmpty(c)
  PROVE  Fifo!FindNone(c)
<1>1. pc[c] = "check" /\ pc'[c] = "idle" /\ got'[c] = None /\ UNCHANGED <<claim, seq, served>>
  BY DEF PopSeesEmpty, Goto, RingInv, TypeOK, Threads
<1>2. Waiting # <<>> => ~Head(Waiting).ready
  <2> SUFFICES ASSUME Waiting # <<>> PROVE ~Head(Waiting).ready
    OBVIOUS
  <2>1. served < Len(claim)
    BY RingTypes, Mapped, QueueFacts
  <2>2. seq[Cell(served)] # served + 1
    BY <2>1, EmptyStep, RingTypes DEF RingInv, WriterInv
  <2>3. Head(Waiting) = [item |-> claim[served + 1], ready |-> seq[Cell(served)] = served + 1]
    BY <2>1, RingTypes, Mapped, QueueServe
  <2>4. Head(Waiting).ready = (seq[Cell(served)] = served + 1)
    BY <2>3
  <2> QED BY <2>2, <2>4
<1>3. c \notin Leaving /\ Leaving' = Leaving
  BY <1>1, PopSideStep DEF Leaving, Taking, Pop
<1>4. [d \in Consumers |-> Result(d)'] = [[d \in Consumers |-> Result(d)] EXCEPT ![c] = None]
  <2>1. Result(c)' = None
    BY <1>1 DEF Result
  <2>2. \A d \in Consumers : d # c => Result(d)' = Result(d)
    BY <1>1, PopSideStep DEF Result, ItemOf, Pop
  <2> QED BY <2>1, <2>2
<1>5. Waiting' = Waiting
  BY <1>1, Mapped
<1> QED BY <1>2, <1>3, <1>4, <1>5 DEF Fifo!FindNone, Leaving, Result

\* Every step of a consumer is a step of the queue or none.
LEMMA PopRefines ==
  ASSUME RingInv, StaleInv, Size # 1, NEW c \in Consumers, Pop(c)
  PROVE  [Fifo!FifoNext]_(Fifo!fifoVars)
<1>1. CASE PopRelease(c)
  BY <1>1, Leaves DEF Fifo!FifoNext
<1>2. CASE PopSeesEmpty(c)
  BY <1>2, FindsNone DEF Fifo!FifoNext
<1>3. CASE PopSeesItem(c) /\ mode.sc
  <2>1. pc[c] = "check" /\ pos[c] = served /\ seq[Cell(served)] = served + 1
    BY <1>3 DEF PopSeesItem, RingInv, SingleConsumerInv, Popping
  <2>2. pc'[c] = "read" /\ pos'[c] = served /\ served' = served + 1 /\ UNCHANGED <<claim, seq>>
    BY <1>3, <2>1 DEF PopSeesItem, Goto, RingInv, TypeOK, Threads
  <2> QED BY <2>1, <2>2, Dequeues DEF Fifo!FifoNext
<1>4. CASE PopClaim(c)
  <2>1. pc[c] = "cas" /\ pos[c] = served /\ seq[Cell(served)] = served + 1
    BY <1>4 DEF PopClaim, RingInv, CounterInv, SingleConsumerInv, SnapshotInv
  <2>2. pc'[c] = "read" /\ pos'[c] = served /\ served' = served + 1 /\ UNCHANGED <<claim, seq>>
    BY <1>4, <2>1 DEF PopClaim, Goto, RingInv, TypeOK, Threads
  <2> QED BY <2>1, <2>2, Dequeues DEF Fifo!FifoNext
<1>5. CASE PopRead(c)
  <2>1. /\ pc[c] = "read" /\ pc'[c] = "release" /\ got'[c] = ItemOf(pos[c])
        /\ UNCHANGED <<claim, seq, served>>
    BY <1>5 DEF PopRead, Goto, RingInv, TypeOK, TakerInv, Taking, Threads
  <2>2. \A d \in Consumers : (Taking(d)' <=> Taking(d)) /\ Result(d)' = Result(d)
    BY <2>1, PopSideStep DEF Taking, Result, ItemOf
  <2> QED BY <2>1, <2>2, Quiet
<1>6. CASE \/ PopLoadHead(c) \/ PopSeesStale(c) \/ PopCasFails(c) \/ PopAdvance(c)
           \/ PopSeesItem(c) /\ ~mode.sc
  <2>1. /\ pc[c] \in {"idle", "reload", "check", "cas", "advance"}
        /\ pc'[c] \in {"idle", "reload", "check", "cas"}
        /\ UNCHANGED <<claim, seq, served, got>>
    BY <1>6 DEF PopLoadHead, PopSeesStale, PopCasFails, PopAdvance, PopSeesItem, Goto, RingInv,
       TypeOK, Threads
  <2>2. \A d \in Consumers : (Taking(d)' <=> Taking(d)) /\ Result(d)' = Result(d)
    BY <2>1, PopSideStep DEF Taking, Result, ItemOf
  <2> QED BY <2>1, <2>2, Quiet
<1> QED BY <1>1, <1>2, <1>3, <1>4, <1>5, <1>6 DEF Pop

-----------------------------------------------------------------------------
\* No producer pushes more than MaxCalls items.
LEMMA CallsInvariant == Spec => []CallsInv
<1>1. Init => CallsInv
  <2> SUFFICES ASSUME Init, NEW p \in Producers PROVE calls[p] <= MaxCalls /\ pc[p] = "idle"
    BY DEF CallsInv
  <2> QED BY CallsAssumption DEF Init, Threads
<1>2. TypeOK /\ CallsInv /\ [Next]_vars => CallsInv'
  <2> SUFFICES ASSUME TypeOK, CallsInv, [Next]_vars PROVE CallsInv'
    OBVIOUS
  <2>1. ASSUME NEW p \in Producers, Push(p) PROVE CallsInv'
    <3>0. /\ calls \in [Producers -> Nat] /\ p \in Threads /\ \A q \in Producers : q \in Threads
          /\ \A l : Goto(p, l) => pc'[p] = l /\ \A q \in Threads : q # p => pc'[q] = pc[q]
      BY DEF TypeOK, Goto, Threads
    <3>1. CASE PushLoadTail(p)
      BY <3>0, <3>1 DEF PushLoadTail, MayPush, CallsInv
    <3>2. CASE PushPublish(p)
      <4>1. /\ \A q \in Producers : q # p => calls'[q] = calls[q] /\ pc'[q] = pc[q]
            /\ calls'[p] = calls[p] + 1 /\ pc'[p] \in {"advance", "idle"} /\ calls[p] < MaxCalls
        BY <3>0, <3>2 DEF PushPublish, CallsInv
      <4>2. calls[p] + 1 <= MaxCalls
        BY <3>0, <4>1, CallsAssumption
      <4> QED BY <3>0, <4>1, <4>2 DEF CallsInv
    <3>3. CASE ~PushLoadTail(p) /\ ~PushPublish(p)
      <4>1. /\ \A q \in Producers : q # p => pc'[q] = pc[q]
            /\ pc'[p] \in {"reload", "check", "cas", "write", "publish"}
                 => pc[p] \in {"reload", "check", "cas", "write", "publish"}
            /\ calls' = calls
        BY <2>1, <3>0, <3>3 DEF Push, PushSeesFree, PushSeesFull, PushSeesStale, PushClaim,
           PushCasFails, PushWrite, PushAdvance
      <4> QED BY <4>1 DEF CallsInv
    <3> QED BY <3>1, <3>2, <3>3
  <2>2. ASSUME NEW c \in Consumers, Pop(c) PROVE CallsInv'
    <3>1. \A p \in Producers : p # c
      BY ThreadsAssumption
    <3> QED BY <2>2, <3>1 DEF Pop, PopLoadHead, PopSeesItem, PopSeesEmpty, PopSeesStale, PopClaim,
         PopCasFails, PopRead, PopRelease, PopAdvance, Goto, TypeOK, CallsInv, Threads
  <2>3. CASE UNCHANGED vars
    BY <2>3 DEF vars, CallsInv
  <2> QED BY <2>1, <2>2, <2>3 DEF Next
<1> QED BY <1>1, <1>2, TypeCorrect, PTL DEF Spec

\* The empty ring is the empty queue.
LEMMA InitRefines == Init => Fifo!FifoInit
<1> SUFFICES ASSUME Init PROVE Fifo!FifoInit
  OBVIOUS
<1>1. Waiting = <<>>
  BY DEF Init, Waiting
<1>2. Leaving = {}
  BY DEF Init, Leaving, Taking, Threads
<1>3. [c \in Consumers |-> Result(c)] = [c \in Consumers |-> None]
  BY DEF Init, Result, Threads
<1> QED BY <1>1, <1>2, <1>3 DEF Fifo!FifoInit, Leaving, Result

\* push and pop, by any number of threads, through any of the entry points, are the
\* operations of a bounded first-in first-out queue: each step is one step of the
\* queue, or none (ImplementsFifo).
THEOREM Refinement == ASSUME Size # 1 PROVE Spec => ImplementsFifo
<1>1. RingInv /\ StaleInv /\ CallsInv /\ [Next]_vars => [Fifo!FifoNext]_(Fifo!fifoVars)
  <2> SUFFICES ASSUME RingInv, StaleInv, CallsInv, [Next]_vars
               PROVE  [Fifo!FifoNext]_(Fifo!fifoVars)
    OBVIOUS
  <2>1. CASE UNCHANGED vars
    <3>1. \A c \in Consumers : (Taking(c)' <=> Taking(c)) /\ Result(c)' = Result(c)
      BY <2>1 DEF vars, Taking, Result, ItemOf
    <3> QED BY <2>1, <3>1, Quiet DEF vars
  <2> QED BY <2>1, PushRefines, PopRefines DEF Next
<1> QED BY <1>1, InitRefines, RingInvariant, StaleInvariant, CallsInvariant, PTL
        DEF Spec, ImplementsFifo, Fifo!FifoSpec

-----------------------------------------------------------------------------
(* The spin lock.                                                          *)

LEMMA LockInitInv == LockInit => LockInv
<1> SUFFICES ASSUME LockInit PROVE LockInv
  OBVIOUS
<1>1. LockTypeOK
  BY LockAssumption DEF LockInit, LockTypeOK, LockLabels
<1>2. Holders = {}
  BY DEF LockInit, Holders, HasGuard
<1> QED BY <1>1, <1>2 DEF LockInit, LockInv, NoLostUpdate

\* A thread that enters or leaves a call without a guard disturbs nobody.
LEMMA CallStep ==
  ASSUME LockInv, NEW t \in LockUsers, Lock(t) \/ TryLock(t)
  PROVE  LockInv'
<1> USE DEF LockInv
<1>0. /\ at[t] = "idle" /\ left[t] > 0
      /\ retry' = [retry EXCEPT ![t] = 0] /\ tries' = [tries EXCEPT ![t] = 0]
      /\ left' = [left EXCEPT ![t] = @ - 1]
      /\ UNCHANGED <<locked, value, copy, updates>>
  BY DEF Lock, TryLock, Calls
<1>1. PICK l \in {"lock", "try_lock"} : at' = [at EXCEPT ![t] = l]
  BY DEF Lock, TryLock, Calls, MovesTo
<1>2. /\ retry_cnt' \in [LockUsers -> 0 .. UsizeMax]
      /\ \A u \in LockUsers : u # t => retry_cnt'[u] = retry_cnt[u]
      /\ at'[t] = "try_lock" => retry_cnt'[t] \in Retries
  BY LockAssumption, <1>0 DEF Lock, TryLock, Calls, MovesTo, LockTypeOK
<1>3. LockTypeOK'
  <2>1. left' \in [LockUsers -> 0 .. MaxLocks]
    BY <1>0, LockAssumption DEF LockTypeOK
  <2>2. at' \in [LockUsers -> LockLabels]
    BY <1>1 DEF LockTypeOK, LockLabels
  <2>3. retry' \in [LockUsers -> 0 .. UsizeMax] /\ tries' \in [LockUsers -> Nat]
    BY <1>0, LockAssumption DEF LockTypeOK
  <2> QED BY <1>0, <1>2, <2>1, <2>2, <2>3 DEF LockTypeOK
<1>4. Holders' = Holders
  BY <1>0, <1>1 DEF Holders, HasGuard, LockTypeOK
<1>5. \A u \in LockUsers : at'[u] = "try_lock" =>
        retry'[u] <= retry_cnt'[u] /\ tries'[u] = retry'[u] /\ retry_cnt'[u] \in Retries
  <2> TAKE u \in LockUsers
  <2>1. CASE u = t
    <3>1. retry'[u] = 0 /\ tries'[u] = 0
      BY <2>1, <1>0 DEF LockTypeOK
    <3>2. retry_cnt'[u] \in 0 .. UsizeMax
      BY <1>2
    <3> QED BY <2>1, <3>1, <3>2, <1>2
  <2>2. CASE u # t
    <3>1. /\ at'[u] = at[u] /\ retry'[u] = retry[u] /\ tries'[u] = tries[u]
          /\ retry_cnt'[u] = retry_cnt[u]
      BY <2>2, <1>0, <1>1, <1>2 DEF LockTypeOK
    <3>2. at[u] = "try_lock" =>
            retry[u] <= retry_cnt[u] /\ tries[u] = retry[u] /\ retry_cnt[u] \in Retries
      OBVIOUS
    <3> QED BY <3>1, <3>2
  <2> QED BY <2>1, <2>2
<1>6. \A u \in LockUsers : at'[u] = "read" => copy'[u] = value'
  BY <1>0, <1>1 DEF LockTypeOK
<1> QED BY <1>0, <1>3, <1>4, <1>5, <1>6 DEF NoLostUpdate

LEMMA AcquireStep ==
  ASSUME LockInv, NEW t \in LockUsers, Acquire(t)
  PROVE  LockInv'
<1> USE DEF LockInv
<1>0. /\ at' = [at EXCEPT ![t] = "acquired"] /\ locked = 0 /\ locked' = 1
      /\ tries' = [tries EXCEPT ![t] = @ + 1]
      /\ UNCHANGED <<value, retry, retry_cnt, copy, left, updates>>
  BY DEF Acquire, MovesTo
<1>1. LockTypeOK'
  BY <1>0 DEF LockTypeOK, LockLabels, HasGuard
<1>2. Holders' = {t}
  BY <1>0 DEF Holders, HasGuard, LockTypeOK
<1> QED BY <1>0, <1>1, <1>2 DEF NoLostUpdate, LockTypeOK

LEMMA TryFailsStep ==
  ASSUME LockInv, NEW t \in LockUsers, TryFails(t)
  PROVE  LockInv'
<1> USE DEF LockInv
<1>0. /\ at[t] = "try_lock"
      /\ at' = [at EXCEPT ![t] = IF retry[t] + 1 <= retry_cnt[t] THEN "try_lock" ELSE "idle"]
      /\ tries' = [tries EXCEPT ![t] = @ + 1]
      /\ retry' = [retry EXCEPT ![t] = @ + 1]
      /\ UNCHANGED <<locked, value, retry_cnt, copy, left, updates>>
  BY DEF TryFails, MovesTo
<1>1. retry[t] + 1 \in 0 .. UsizeMax
  BY <1>0, LockAssumption DEF LockTypeOK
<1>2. LockTypeOK'
  BY <1>0, <1>1 DEF LockTypeOK, LockLabels
<1>3. Holders' = Holders
  BY <1>0 DEF Holders, HasGuard, LockTypeOK
<1>4. \A u \in LockUsers : at'[u] = "try_lock" =>
        retry'[u] <= retry_cnt'[u] /\ tries'[u] = retry'[u] /\ retry_cnt'[u] \in Retries
  BY <1>0 DEF LockTypeOK
<1>5. \A u \in LockUsers : at'[u] = "read" => copy'[u] = value'
  BY <1>0 DEF LockTypeOK
<1> QED BY <1>0, <1>2, <1>3, <1>4, <1>5 DEF NoLostUpdate

\* A step of the thread that has the guard: nobody else has read the value.
LEMMA GuardStep ==
  ASSUME LockInv, NEW t \in LockUsers, Read(t) \/ Write(t) \/ Drop(t)
  PROVE  LockInv'
<1> USE DEF LockInv
<1>0. t \in Holders /\ \A u \in LockUsers : u # t => u \notin Holders
  BY DEF Read, Write, Drop, Holders, HasGuard
<1>1. \A u \in LockUsers : u # t => at[u] # "read"
  BY <1>0 DEF Holders, HasGuard
<1>2. LockTypeOK'
  BY DEF Read, Write, Drop, MovesTo, LockTypeOK, LockLabels, HasGuard
<1>3. /\ tries' = tries /\ retry' = retry /\ retry_cnt' = retry_cnt
      /\ \A u \in LockUsers : u # t => at'[u] = at[u] /\ copy'[u] = copy[u]
      /\ at'[t] \in {"idle", "read", "written"}
  BY DEF Read, Write, Drop, MovesTo, LockTypeOK
<1>4. \A u \in LockUsers : at'[u] = "try_lock" =>
        retry'[u] <= retry_cnt'[u] /\ tries'[u] = retry'[u] /\ retry_cnt'[u] \in Retries
  BY <1>3
<1>5. \A u \in LockUsers : at'[u] = "read" => copy'[u] = value'
  <2>1. \A u \in LockUsers : u # t => at'[u] # "read"
    BY <1>1, <1>3
  <2>2. at'[t] = "read" => copy'[t] = value'
    BY DEF Read, Write, Drop, MovesTo, LockTypeOK
  <2> QED BY <2>1, <2>2
<1>6. Holders' = IF at'[t] = "idle" THEN {} ELSE {t}
  BY <1>0, <1>3 DEF Holders, HasGuard
<1>7. locked' = 1 <=> at'[t] # "idle"
  BY <1>0, <1>3 DEF Read, Write, Drop, MovesTo, LockTypeOK
<1>8. NoLostUpdate'
  BY DEF Read, Write, Drop, NoLostUpdate, LockTypeOK
<1> QED BY <1>2, <1>4, <1>5, <1>6, <1>7, <1>8

\* The invariant is inductive.
LEMMA LockStep ==
  ASSUME LockInv, [LockNext]_lock_vars
  PROVE  LockInv'
<1>1. CASE LockNext
  BY <1>1, CallStep, AcquireStep, TryFailsStep, GuardStep DEF LockNext, Step
<1>2. CASE UNCHANGED lock_vars
  BY <1>2 DEF lock_vars, LockInv, LockTypeOK, Holders, NoLostUpdate
<1> QED BY <1>1, <1>2

\* LockInv holds in every reachable state.
THEOREM LockInvariant == LockSpec => []LockInv
<1>1. LockInv /\ [LockNext]_lock_vars => LockInv'
  BY LockStep
<1> QED BY LockInitInv, <1>1, PTL DEF LockSpec

\* At most one guard is alive, and the word says so.
THEOREM Exclusion == LockSpec => []MutualExclusion
<1>1. LockInv => MutualExclusion
  BY DEF LockInv, MutualExclusion
<1> QED BY LockInvariant, <1>1, PTL

\* No addition made through a guard is lost.
THEOREM Updates == LockSpec => []NoLostUpdate
<1>1. LockInv => NoLostUpdate
  BY DEF LockInv
<1> QED BY LockInvariant, <1>1, PTL

\* try_lock makes retry_cnt + 1 attempts, unless one succeeds.
THEOREM Attempts == LockSpec => TryBound
<1> DEFINE Ends == \A t \in LockUsers : at[t] = "try_lock" /\ at'[t] # "try_lock" =>
                     IF at'[t] = "idle" THEN tries'[t] = retry_cnt[t] + 1
                                        ELSE tries'[t] <= retry_cnt[t] + 1
<1>1. ASSUME LockInv, LockNext PROVE Ends
  <2> SUFFICES ASSUME NEW t \in LockUsers, at[t] = "try_lock", at'[t] # "try_lock"
               PROVE  IF at'[t] = "idle" THEN tries'[t] = retry_cnt[t] + 1
                                         ELSE tries'[t] <= retry_cnt[t] + 1
    OBVIOUS
  <2>1. /\ at \in [LockUsers -> LockLabels] /\ tries \in [LockUsers -> Nat]
        /\ retry \in [LockUsers -> 0 .. UsizeMax] /\ retry_cnt \in [LockUsers -> 0 .. UsizeMax]
        /\ retry[t] <= retry_cnt[t] /\ tries[t] = retry[t]
        /\ UsizeMax \in Nat
    BY <1>1, LockAssumption DEF LockInv, LockTypeOK
  <2>2. Acquire(t) \/ TryFails(t)
    BY <1>1, <2>1 DEF LockNext, Step, Lock, TryLock, Calls, Acquire, TryFails, Read, Write, Drop,
                      MovesTo, HasGuard
  <2>3. CASE Acquire(t)
    BY <2>1, <2>3 DEF Acquire, MovesTo
  <2>4. CASE TryFails(t)
    BY <2>1, <2>4 DEF TryFails, MovesTo
  <2> QED BY <2>2, <2>3, <2>4
<1>2. LockInv /\ [LockNext]_lock_vars => [Ends]_lock_vars
  BY <1>1
<1> QED BY <1>2, LockInvariant, PTL DEF LockSpec, TryBound
=============================================================================
