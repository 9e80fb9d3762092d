-------------------------- MODULE EpochReclaimProofs --------------------------
(***************************************************************************)
(* Proofs about the epochs of the lock-free skip list, for any number of   *)
(* threads and nodes: no node that a thread can reach is freed as long as  *)
(* no pin is overtaken, the garbage lists are exact, and one thread at a   *)
(* time advances the epoch.                                                *)
(***************************************************************************)
EXTENDS EpochReclaim, FiniteSetTheorems, TLAPS

\* From the last store of a pin to its end.
Pinned(t) == pc[t] \in {"in", "put", "count", "unpin"}

Scanning(t) == pc[t] \in {"scan", "scan_epoch"}
Advancing(t) == Scanning(t) \/ pc[t] \in {"clear", "free", "finish"}

\* What a thread has at each place: its slot says what it believes while it is
\* pinned, it can reach nothing while it is not, and has nodes in its hands only
\* between taking them and handing them on.
PlaceInv ==
  \A t \in Threads :
    /\ Pinned(t) \/ pc[t] \in {"reload", "republish", "repin"} => active[t]
    /\ Pinned(t) => slot[t] = gepoch[t]
    /\ ~Pinned(t) => reach[t] = {}
    /\ pc[t] \notin {"put", "free"} => node[t] = {}

\* One thread advances; the flag and the epoch say so.
AdvanceInv ==
  /\ \A t, u \in Threads : Advancing(t) /\ Advancing(u) => t = u
  /\ pending <=> \E t \in Threads : Advancing(t)
  /\ \A t \in Threads : Advancing(t) => epoch = ByOff(gepoch[t], 1)
  /\ \A u, v \in looking : u = v
  /\ looking # {} => \E t \in Threads : pc[t] = "scan_epoch"

\* Places of a node are exclusive, and an unlinked node has one.
InGarbage(n) == \E e \in Epochs : n \in garbage[e]
InHands(n) == \E t \in Threads : n \in node[t]

GarbageInv ==
  \A n \in Nodes :
    /\ state[n] = "unlinked" <=> InGarbage(n) \/ InHands(n)
    /\ ~(InGarbage(n) /\ InHands(n))
    /\ \A e, f \in Epochs : n \in garbage[e] /\ n \in garbage[f] => e = f
    /\ \A t, u \in Threads : n \in node[t] /\ n \in node[u] => t = u

\* A pin is in the epoch, or it is in the one before and the thread that advances
\* has still to look at it.
PinInv ==
  ~overtaken =>
    \A t \in Threads : Pinned(t) =>
      \/ gepoch[t] = epoch
      \/ /\ epoch = ByOff(gepoch[t], 1)
         /\ t \in unseen \cup looking
         /\ \E u \in Threads : Scanning(u)

\* A node that a thread can reach is not being freed, nor is it in the list that
\* comes next unless the thread holds up the epoch.
ReachInv ==
  ~overtaken =>
    \A t \in Threads : \A n \in reach[t] :
      /\ state[n] # "free"
      /\ \A u \in Threads : pc[u] = "free" => n \notin node[u]
      /\ gepoch[t] = epoch => n \notin garbage[ByOff(epoch, 1)]

IInv == TypeOK /\ PlaceInv /\ AdvanceInv /\ GarbageInv /\ PinInv /\ ReachInv
-----------------------------------------------------------------------------
\* Counting epochs modulo three.
LEMMA ByOffFacts ==
  \A e \in Epochs :
    /\ ByOff(e, 1) \in Epochs /\ ByOff(e, 2) \in Epochs
    /\ ByOff(e, 1) # e /\ ByOff(e, 2) # e /\ ByOff(e, 1) # ByOff(e, 2)
    /\ ByOff(ByOff(e, 1), 1) = ByOff(e, 2)
    /\ \A f \in Epochs : ByOff(e, 1) = ByOff(f, 1) => e = f
<1> SUFFICES ASSUME NEW e \in {0, 1, 2}
             PROVE  /\ ByOff(e, 1) \in Epochs /\ ByOff(e, 2) \in Epochs
                    /\ ByOff(e, 1) # e /\ ByOff(e, 2) # e /\ ByOff(e, 1) # ByOff(e, 2)
                    /\ ByOff(ByOff(e, 1), 1) = ByOff(e, 2)
                    /\ \A f \in {0, 1, 2} : ByOff(e, 1) = ByOff(f, 1) => e = f
  BY DEF Epochs
<1> QED BY DEF ByOff, Epochs

LEMMA ZeroIsEpoch == 0 \in Epochs
  BY DEF Epochs

\* Each step keeps the types.
LEMMA TypeStep ==
  ASSUME TypeOK, NEW t \in Threads, Pin(t) \/ Call(t) \/ Adv(t)
  PROVE  TypeOK'
<1>1. CASE PinLoad(t)
  BY <1>1 DEF PinLoad, Load, Goto, Set, shared, TypeOK, Labels
<1>2. CASE Publish(t)
  BY <1>2 DEF Publish, Goto, Set, shared, TypeOK, Labels
<1>3. CASE Activate(t)
  BY <1>3 DEF Activate, Goto, Set, shared, TypeOK, Labels
<1>4. CASE Reload(t)
  BY <1>4 DEF Reload, Load, Goto, Set, shared, TypeOK, Labels
<1>5. CASE Republish(t)
  BY <1>5 DEF Republish, Goto, Set, shared, TypeOK, Labels
<1>6. CASE RepinLoad(t)
  BY <1>6 DEF RepinLoad, Load, Goto, Set, shared, TypeOK, Labels
<1>7. CASE Walk(t)
  BY <1>7 DEF Walk, Set, shared, TypeOK, Labels
<1>8. CASE Insert(t)
  BY <1>8 DEF Insert, Set, local, TypeOK, Labels
<1>9. CASE Unlink(t)
  BY <1>9 DEF Unlink, Goto, Set, TypeOK, Labels
<1>10. CASE Put(t)
  BY <1>10 DEF Put, Goto, Set, TypeOK, Labels
<1>11. CASE Count(t)
  BY <1>11 DEF Count, Goto, local, TypeOK, Labels
<1>12. CASE Unpin(t)
  <2>1. active' \in [Threads -> BOOLEAN] /\ reach' \in [Threads -> SUBSET Nodes]
    BY <1>12 DEF Unpin, Set, TypeOK
  <2>2. gepoch' \in [Threads -> Epochs] /\ pc' \in [Threads -> Labels]
    BY <1>12, ZeroIsEpoch DEF Unpin, Return, Goto, Set, TypeOK, Labels
  <2> QED BY <1>12, <2>1, <2>2 DEF Unpin, shared, TypeOK
<1>13. CASE Advance(t)
  <2>1. CASE Return(t) /\ UNCHANGED <<epoch, pending, unseen>>
    BY <1>13, <2>1, ZeroIsEpoch DEF Advance, Return, Goto, Set, TypeOK, Labels
  <2>2. CASE /\ epoch' = ByOff(epoch, 1) /\ pending' = TRUE /\ unseen' = Threads
             /\ Goto(t, "scan") /\ UNCHANGED gepoch
    BY <1>13, <2>2, ByOffFacts DEF Advance, Goto, TypeOK, Labels
  <2> QED BY <1>13, <2>1, <2>2 DEF Advance
<1>14. CASE ScanActive(t)
  BY <1>14 DEF ScanActive, Goto, shared, TypeOK, Labels
<1>15. CASE ScanEpoch(t)
  BY <1>15 DEF ScanEpoch, Goto, shared, TypeOK, Labels
<1>16. CASE Clear(t)
  BY <1>16, ByOffFacts DEF Clear, Goto, Set, TypeOK, Labels
<1>17. CASE FreeNodes(t)
  <2>1. Cardinality(node[t]) \in Int
    BY EpochAssumption, FS_Subset, FS_CardinalityType DEF TypeOK
  <2> QED BY <1>17, <2>1 DEF FreeNodes, Goto, Set, shared, local, TypeOK, Labels
<1>18. CASE Finish(t)
  BY <1>18, ByOffFacts, ZeroIsEpoch DEF Finish, Goto, Set, Return, shared, local, TypeOK, Labels
<1> QED BY <1>1, <1>2, <1>3, <1>4, <1>5, <1>6, <1>7, <1>8, <1>9,
          <1>10, <1>11, <1>12, <1>13, <1>14, <1>15, <1>16, <1>17, <1>18 DEF Pin, Call, Adv

\* Each step keeps what a thread has at each place.
LEMMA PlaceStep ==
  ASSUME TypeOK, PlaceInv, NEW t \in Threads, Pin(t) \/ Call(t) \/ Adv(t)
  PROVE  PlaceInv'
<1>1. CASE PinLoad(t)
  BY <1>1 DEF PinLoad, Load, Goto, Set, shared, TypeOK, PlaceInv, Pinned
<1>2. CASE Publish(t)
  BY <1>2 DEF Publish, Goto, Set, shared, TypeOK, PlaceInv, Pinned
<1>3. CASE Activate(t)
  BY <1>3 DEF Activate, Goto, Set, shared, TypeOK, PlaceInv, Pinned
<1>4. CASE Reload(t)
  BY <1>4 DEF Reload, Load, Goto, Set, shared, TypeOK, PlaceInv, Pinned
<1>5. CASE Republish(t)
  BY <1>5 DEF Republish, Goto, Set, shared, TypeOK, PlaceInv, Pinned
<1>6. CASE RepinLoad(t)
  BY <1>6 DEF RepinLoad, Load, Goto, Set, shared, TypeOK, PlaceInv, Pinned
<1>7. CASE Walk(t)
  BY <1>7 DEF Walk, Set, shared, TypeOK, PlaceInv, Pinned
<1>8. CASE Insert(t)
  BY <1>8 DEF Insert, Set, local, TypeOK, PlaceInv, Pinned
<1>9. CASE Unlink(t)
  BY <1>9 DEF Unlink, Goto, Set, TypeOK, PlaceInv, Pinned
<1>10. CASE Put(t)
  BY <1>10 DEF Put, Goto, Set, TypeOK, PlaceInv, Pinned
<1>11. CASE Count(t)
  BY <1>11 DEF Count, Goto, local, TypeOK, PlaceInv, Pinned
<1>12. CASE Unpin(t)
  BY <1>12 DEF Unpin, Return, Goto, Set, shared, TypeOK, PlaceInv, Pinned
<1>13. CASE Advance(t)
  BY <1>13 DEF Advance, Return, Goto, Set, TypeOK, PlaceInv, Pinned
<1>14. CASE ScanActive(t)
  BY <1>14 DEF ScanActive, Goto, shared, TypeOK, PlaceInv, Pinned
<1>15. CASE ScanEpoch(t)
  BY <1>15 DEF ScanEpoch, Goto, shared, TypeOK, PlaceInv, Pinned
<1>16. CASE Clear(t)
  BY <1>16 DEF Clear, Goto, Set, TypeOK, PlaceInv, Pinned
<1>17. CASE FreeNodes(t)
  BY <1>17 DEF FreeNodes, Goto, Set, TypeOK, PlaceInv, Pinned
<1>18. CASE Finish(t)
  BY <1>18 DEF Finish, Return, Goto, Set, TypeOK, PlaceInv, Pinned
<1> QED BY <1>1, <1>2, <1>3, <1>4, <1>5, <1>6, <1>7, <1>8, <1>9,
          <1>10, <1>11, <1>12, <1>13, <1>14, <1>15, <1>16, <1>17, <1>18 DEF Pin, Call, Adv

\* Each step keeps one thread advancing.
LEMMA AdvanceStep ==
  ASSUME TypeOK, AdvanceInv, NEW t \in Threads, Pin(t) \/ Call(t) \/ Adv(t)
  PROVE  AdvanceInv'
<1>1. CASE PinLoad(t)
  BY <1>1 DEF PinLoad, Load, Goto, Set, shared, TypeOK, AdvanceInv, Advancing, Scanning
<1>2. CASE Publish(t)
  BY <1>2 DEF Publish, Goto, Set, shared, TypeOK, AdvanceInv, Advancing, Scanning
<1>3. CASE Activate(t)
  BY <1>3 DEF Activate, Goto, Set, shared, TypeOK, AdvanceInv, Advancing, Scanning
<1>4. CASE Reload(t)
  BY <1>4 DEF Reload, Load, Goto, Set, shared, TypeOK, AdvanceInv, Advancing, Scanning
<1>5. CASE Republish(t)
  BY <1>5 DEF Republish, Goto, Set, shared, TypeOK, AdvanceInv, Advancing, Scanning
<1>6. CASE RepinLoad(t)
  BY <1>6 DEF RepinLoad, Load, Goto, Set, shared, TypeOK, AdvanceInv, Advancing, Scanning
<1>7. CASE Walk(t)
  BY <1>7 DEF Walk, Set, shared, TypeOK, AdvanceInv, Advancing, Scanning
<1>8. CASE Insert(t)
  BY <1>8 DEF Insert, Set, local, TypeOK, AdvanceInv, Advancing, Scanning
<1>9. CASE Unlink(t)
  BY <1>9 DEF Unlink, Goto, Set, TypeOK, AdvanceInv, Advancing, Scanning
<1>10. CASE Put(t)
  BY <1>10 DEF Put, Goto, Set, TypeOK, AdvanceInv, Advancing, Scanning
<1>11. CASE Count(t)
  BY <1>11 DEF Count, Goto, local, TypeOK, AdvanceInv, Advancing, Scanning
<1>12. CASE Unpin(t)
  BY <1>12 DEF Unpin, Return, Goto, Set, shared, TypeOK, AdvanceInv, Advancing, Scanning
<1>13. CASE Advance(t)
  BY <1>13, ByOffFacts DEF Advance, Return, Goto, Set, TypeOK, AdvanceInv, Advancing, Scanning
<1>14. CASE ScanActive(t)
  BY <1>14 DEF ScanActive, Goto, shared, TypeOK, AdvanceInv, Advancing, Scanning
<1>15. CASE ScanEpoch(t)
  BY <1>15 DEF ScanEpoch, Goto, shared, TypeOK, AdvanceInv, Advancing, Scanning
<1>16. CASE Clear(t)
  BY <1>16 DEF Clear, Goto, Set, TypeOK, AdvanceInv, Advancing, Scanning
<1>17. CASE FreeNodes(t)
  BY <1>17 DEF FreeNodes, Goto, Set, TypeOK, AdvanceInv, Advancing, Scanning
<1>18. CASE Finish(t)
  BY <1>18, ByOffFacts DEF Finish, Return, Goto, Set, TypeOK, AdvanceInv, Advancing, Scanning
<1> QED BY <1>1, <1>2, <1>3, <1>4, <1>5, <1>6, <1>7, <1>8, <1>9,
          <1>10, <1>11, <1>12, <1>13, <1>14, <1>15, <1>16, <1>17, <1>18 DEF Pin, Call, Adv

\* Each step keeps the places of nodes: in particular a removal finds its node in none,
\* and a list is emptied into the hands of one thread.
LEMMA GarbageStep ==
  ASSUME TypeOK, PlaceInv, AdvanceInv, GarbageInv, NEW t \in Threads, Pin(t) \/ Call(t) \/ Adv(t)
  PROVE  GarbageInv'
<1>1. CASE PinLoad(t)
  BY <1>1 DEF PinLoad, Load, Goto, Set, shared, TypeOK, PlaceInv, GarbageInv, InGarbage, InHands
<1>2. CASE Publish(t)
  BY <1>2 DEF Publish, Goto, Set, shared, TypeOK, PlaceInv, GarbageInv, InGarbage, InHands
<1>3. CASE Activate(t)
  BY <1>3 DEF Activate, Goto, Set, shared, TypeOK, PlaceInv, GarbageInv, InGarbage, InHands
<1>4. CASE Reload(t)
  BY <1>4 DEF Reload, Load, Goto, Set, shared, TypeOK, PlaceInv, GarbageInv, InGarbage, InHands
<1>5. CASE Republish(t)
  BY <1>5 DEF Republish, Goto, Set, shared, TypeOK, PlaceInv, GarbageInv, InGarbage, InHands
<1>6. CASE RepinLoad(t)
  BY <1>6 DEF RepinLoad, Load, Goto, Set, shared, TypeOK, PlaceInv, GarbageInv, InGarbage,
       InHands
<1>7. CASE Walk(t)
  BY <1>7 DEF Walk, Set, shared, TypeOK, PlaceInv, GarbageInv, InGarbage, InHands
<1>8. CASE Insert(t)
  BY <1>8 DEF Insert, Set, local, TypeOK, PlaceInv, GarbageInv, InGarbage, InHands
<1>9. CASE Unlink(t)
  <2>1. PICK m \in reach[t] : /\ state[m] = "linked"
                              /\ state' = [state EXCEPT ![m] = "unlinked"]
                              /\ node' = [node EXCEPT ![t] = {m}]
    BY <1>9 DEF Unlink, Set
  <2>2. garbage' = garbage /\ node[t] = {} /\ m \in Nodes
    BY <1>9 DEF Unlink, PlaceInv, TypeOK
  <2>3. InGarbage(m) = FALSE /\ InHands(m) = FALSE
    BY <2>1, <2>2 DEF GarbageInv
  <2>4. ASSUME NEW n \in Nodes, n # m
        PROVE  /\ state'[n] = state[n] /\ InGarbage(n)' = InGarbage(n)
               /\ \A u \in Threads : n \in node'[u] <=> n \in node[u]
    BY <2>1, <2>2, <2>4 DEF TypeOK, InGarbage
  <2>5. state'[m] = "unlinked" /\ \A u \in Threads : m \in node'[u] <=> u = t
    BY <2>1, <2>2, <2>3 DEF TypeOK, InHands
  <2> QED BY <2>2, <2>3, <2>4, <2>5 DEF GarbageInv, InGarbage, InHands
<1>10. CASE Put(t)
  BY <1>10 DEF Put, Goto, Set, TypeOK, PlaceInv, GarbageInv, InGarbage, InHands
<1>11. CASE Count(t)
  BY <1>11 DEF Count, Goto, local, TypeOK, PlaceInv, GarbageInv, InGarbage, InHands
<1>12. CASE Unpin(t)
  BY <1>12 DEF Unpin, Return, Goto, Set, shared, TypeOK, PlaceInv, GarbageInv, InGarbage,
       InHands
<1>13. CASE Advance(t)
  BY <1>13 DEF Advance, Return, Goto, Set, TypeOK, PlaceInv, GarbageInv, InGarbage, InHands
<1>14. CASE ScanActive(t)
  BY <1>14 DEF ScanActive, Goto, shared, TypeOK, PlaceInv, GarbageInv, InGarbage, InHands
<1>15. CASE ScanEpoch(t)
  BY <1>15 DEF ScanEpoch, Goto, shared, TypeOK, PlaceInv, GarbageInv, InGarbage, InHands
<1>16. CASE Clear(t)
  BY SMTT(60), <1>16, ByOffFacts DEF Clear, Goto, Set, TypeOK, PlaceInv, GarbageInv, InGarbage, InHands
<1>17. CASE FreeNodes(t)
  BY <1>17 DEF FreeNodes, Goto, Set, TypeOK, PlaceInv, GarbageInv, InGarbage, InHands
<1>18. CASE Finish(t)
  BY <1>18 DEF Finish, Return, Goto, Set, TypeOK, PlaceInv, GarbageInv, InGarbage, InHands
<1> QED BY <1>1, <1>2, <1>3, <1>4, <1>5, <1>6, <1>7, <1>8, <1>9,
          <1>10, <1>11, <1>12, <1>13, <1>14, <1>15, <1>16, <1>17, <1>18 DEF Pin, Call, Adv

\* Each step keeps pins in the epoch or in sight of the thread that advances: when the
\* scan ends, none is left behind.
LEMMA PinStep ==
  ASSUME TypeOK, PlaceInv, AdvanceInv, PinInv, NEW t \in Threads, Pin(t) \/ Call(t) \/ Adv(t)
  PROVE  PinInv'
<1>1. CASE PinLoad(t)
  BY <1>1 DEF PinLoad, Load, Goto, Set, shared, TypeOK, PlaceInv, AdvanceInv, PinInv, Pinned,
       Advancing, Scanning
<1>2. CASE Publish(t)
  BY <1>2 DEF Publish, Goto, Set, shared, TypeOK, PlaceInv, AdvanceInv, PinInv, Pinned,
       Advancing, Scanning
<1>3. CASE Activate(t)
  BY <1>3 DEF Activate, Goto, Set, shared, TypeOK, PlaceInv, AdvanceInv, PinInv, Pinned,
       Advancing, Scanning
<1>4. CASE Reload(t)
  BY <1>4 DEF Reload, Load, Goto, Set, shared, TypeOK, PlaceInv, AdvanceInv, PinInv, Pinned,
       Advancing, Scanning
<1>5. CASE Republish(t)
  <2> SUFFICES ASSUME ~overtaken', NEW u \in Threads, Pinned(u)'
               PROVE  \/ gepoch'[u] = epoch'
                      \/ /\ epoch' = ByOff(gepoch'[u], 1)
                         /\ u \in unseen' \cup looking'
                         /\ \E v \in Threads : Scanning(v)'
    BY DEF PinInv
  <2>1. /\ ~overtaken /\ gepoch[t] = epoch
        /\ UNCHANGED <<epoch, gepoch, unseen, looking>>
        /\ pc' = [pc EXCEPT ![t] = "in"] /\ pc[t] \in {"republish", "repin"}
    BY <1>5 DEF Republish, shared, Goto
  <2>2. CASE u = t
    BY <2>1, <2>2
  <2>3. CASE u # t
    <3>1. Pinned(u) /\ \A v \in Threads : Scanning(v) => Scanning(v)'
      BY <2>1, <2>3 DEF Pinned, Scanning, TypeOK
    <3> QED BY <2>1, <3>1 DEF PinInv
  <2> QED BY <2>2, <2>3
<1>6. CASE RepinLoad(t)
  BY <1>6 DEF RepinLoad, Load, Goto, Set, shared, TypeOK, PlaceInv, AdvanceInv, PinInv, Pinned,
       Advancing, Scanning
<1>7. CASE Walk(t)
  BY <1>7 DEF Walk, Set, shared, TypeOK, PlaceInv, AdvanceInv, PinInv, Pinned, Advancing,
       Scanning
<1>8. CASE Insert(t)
  BY <1>8 DEF Insert, Set, local, TypeOK, PlaceInv, AdvanceInv, PinInv, Pinned, Advancing,
       Scanning
<1>9. CASE Unlink(t)
  BY <1>9 DEF Unlink, Goto, Set, TypeOK, PlaceInv, AdvanceInv, PinInv, Pinned, Advancing,
       Scanning
<1>10. CASE Put(t)
  BY <1>10 DEF Put, Goto, Set, TypeOK, PlaceInv, AdvanceInv, PinInv, Pinned, Advancing, Scanning
<1>11. CASE Count(t)
  BY <1>11 DEF Count, Goto, local, TypeOK, PlaceInv, AdvanceInv, PinInv, Pinned, Advancing,
       Scanning
<1>12. CASE Unpin(t)
  BY <1>12 DEF Unpin, Return, Goto, Set, shared, TypeOK, PlaceInv, AdvanceInv, PinInv, Pinned,
       Advancing, Scanning
<1>13. CASE Advance(t)
  <2>1. CASE Return(t) /\ UNCHANGED <<epoch, pending, unseen>>
    BY <1>13, <2>1 DEF Advance, Goto, Set, Return, TypeOK, PinInv, Pinned, Scanning
  <2>2. CASE /\ epoch = gepoch[t] /\ ~pending
             /\ epoch' = ByOff(epoch, 1) /\ unseen' = Threads
             /\ Goto(t, "scan") /\ UNCHANGED gepoch
    <3>1. \A u \in Threads : ~Scanning(u)
      BY <2>2 DEF AdvanceInv, Advancing
    <3>2. Scanning(t)' /\ pc' = [pc EXCEPT ![t] = "scan"]
      BY <2>2 DEF Scanning, Goto, TypeOK
    <3>3. \A u \in Threads : Pinned(u)' => Pinned(u)
      BY <3>2 DEF Pinned, TypeOK
    <3>4. UNCHANGED overtaken
      BY <1>13 DEF Advance
    <3> QED BY <2>2, <3>1, <3>2, <3>3, <3>4 DEF PinInv
  <2> QED BY <1>13, <2>1, <2>2 DEF Advance
<1>14. CASE ScanActive(t)
  BY <1>14 DEF ScanActive, Goto, shared, TypeOK, PlaceInv, AdvanceInv, PinInv, Pinned,
       Advancing, Scanning
<1>15. CASE ScanEpoch(t)
  BY <1>15, ByOffFacts DEF ScanEpoch, Goto, shared, TypeOK, PlaceInv, AdvanceInv, PinInv,
       Pinned, Advancing, Scanning
<1>16. CASE Clear(t)
  BY <1>16 DEF Clear, Goto, Set, TypeOK, PlaceInv, AdvanceInv, PinInv, Pinned, Advancing,
       Scanning
<1>17. CASE FreeNodes(t)
  BY <1>17 DEF FreeNodes, Goto, Set, TypeOK, PlaceInv, AdvanceInv, PinInv, Pinned, Advancing,
       Scanning
<1>18. CASE Finish(t)
  BY <1>18, ByOffFacts DEF Finish, Return, Goto, Set, TypeOK, PlaceInv, AdvanceInv, PinInv,
       Pinned, Advancing, Scanning
<1> QED BY <1>1, <1>2, <1>3, <1>4, <1>5, <1>6, <1>7, <1>8, <1>9,
          <1>10, <1>11, <1>12, <1>13, <1>14, <1>15, <1>16, <1>17, <1>18 DEF Pin, Call, Adv

\* Each step keeps reachable nodes from being freed: the list that is cleared is the
\* one after the epoch, and by PinInv no pin is behind.
LEMMA ReachStep ==
  ASSUME IInv, TypeOK', PinInv', NEW t \in Threads, Pin(t) \/ Call(t) \/ Adv(t)
  PROVE  ReachInv'
<1>1. CASE PinLoad(t)
  BY <1>1 DEF PinLoad, Load, Goto, Set, shared, IInv, TypeOK, PlaceInv, AdvanceInv, GarbageInv,
       InGarbage, InHands, PinInv, ReachInv, Pinned, Advancing, Scanning
<1>2. CASE Publish(t)
  BY <1>2 DEF Publish, Goto, Set, shared, IInv, TypeOK, PlaceInv, AdvanceInv, GarbageInv,
       InGarbage, InHands, PinInv, ReachInv, Pinned, Advancing, Scanning
<1>3. CASE Activate(t)
  BY <1>3 DEF Activate, Goto, Set, shared, IInv, TypeOK, PlaceInv, AdvanceInv, GarbageInv,
       InGarbage, InHands, PinInv, ReachInv, Pinned, Advancing, Scanning
<1>4. CASE Reload(t)
  BY <1>4 DEF Reload, Load, Goto, Set, shared, IInv, TypeOK, PlaceInv, AdvanceInv, GarbageInv,
       InGarbage, InHands, PinInv, ReachInv, Pinned, Advancing, Scanning
<1>5. CASE Republish(t)
  BY <1>5 DEF Republish, Goto, Set, shared, IInv, TypeOK, PlaceInv, AdvanceInv, GarbageInv,
       InGarbage, InHands, PinInv, ReachInv, Pinned, Advancing, Scanning
<1>6. CASE RepinLoad(t)
  BY <1>6 DEF RepinLoad, Load, Goto, Set, shared, IInv, TypeOK, PlaceInv, AdvanceInv,
       GarbageInv, InGarbage, InHands, PinInv, ReachInv, Pinned, Advancing, Scanning
<1>7. CASE Walk(t)
  BY <1>7, ByOffFacts DEF Walk, Set, shared, IInv, TypeOK, PlaceInv, AdvanceInv, GarbageInv,
       InGarbage, InHands, PinInv, ReachInv, Pinned, Advancing, Scanning
<1>8. CASE Insert(t)
  BY <1>8 DEF Insert, Set, local, IInv, TypeOK, PlaceInv, AdvanceInv, GarbageInv, InGarbage,
       InHands, PinInv, ReachInv, Pinned, Advancing, Scanning
<1>9. CASE Unlink(t)
  BY <1>9 DEF Unlink, Goto, Set, IInv, TypeOK, PlaceInv, AdvanceInv, GarbageInv, InGarbage,
       InHands, PinInv, ReachInv, Pinned, Advancing, Scanning
<1>10. CASE Put(t)
  <2> SUFFICES ASSUME ~overtaken', NEW u \in Threads, NEW n \in reach'[u]
               PROVE  /\ state'[n] # "free"
                      /\ \A v \in Threads : pc'[v] = "free" => n \notin node'[v]
                      /\ gepoch'[u] = epoch' => n \notin garbage'[ByOff(epoch', 1)]
    BY DEF ReachInv
  <2>1. /\ garbage' = [garbage EXCEPT ![gepoch[t]] = garbage[gepoch[t]] \cup node[t]]
        /\ node' = [node EXCEPT ![t] = {}] /\ pc' = [pc EXCEPT ![t] = "count"] /\ pc[t] = "put"
        /\ UNCHANGED <<overtaken, reach, state, gepoch, epoch>>
    BY <1>10 DEF Put, Goto, Set
  <2>2. n \in reach[u] /\ ~overtaken
    BY <2>1
  <2>3. gepoch[t] # ByOff(epoch, 1)
    BY <2>1, <2>2, ByOffFacts DEF IInv, TypeOK, PinInv, Pinned
  <2>4. garbage'[ByOff(epoch, 1)] = garbage[ByOff(epoch, 1)]
    BY <2>1, <2>3, ByOffFacts DEF IInv, TypeOK
  <2> QED BY <2>1, <2>2, <2>4 DEF IInv, TypeOK, ReachInv
<1>11. CASE Count(t)
  BY <1>11 DEF Count, Goto, local, IInv, TypeOK, PlaceInv, AdvanceInv, GarbageInv, InGarbage,
       InHands, PinInv, ReachInv, Pinned, Advancing, Scanning
<1>12. CASE Unpin(t)
  BY <1>12 DEF Unpin, Return, Goto, Set, shared, IInv, TypeOK, PlaceInv, AdvanceInv,
       GarbageInv, InGarbage, InHands, PinInv, ReachInv, Pinned, Advancing, Scanning
<1>13. CASE Advance(t)
  BY <1>13, ByOffFacts DEF Advance, Return, Goto, Set, IInv, TypeOK, PlaceInv, AdvanceInv,
       GarbageInv, InGarbage, InHands, PinInv, ReachInv, Pinned, Advancing, Scanning
<1>14. CASE ScanActive(t)
  BY <1>14 DEF ScanActive, Goto, shared, IInv, TypeOK, PlaceInv, AdvanceInv, GarbageInv,
       InGarbage, InHands, PinInv, ReachInv, Pinned, Advancing, Scanning
<1>15. CASE ScanEpoch(t)
  BY <1>15 DEF ScanEpoch, Goto, shared, IInv, TypeOK, PlaceInv, AdvanceInv, GarbageInv,
       InGarbage, InHands, PinInv, ReachInv, Pinned, Advancing, Scanning
<1>16. CASE Clear(t)
  <2> SUFFICES ASSUME ~overtaken', NEW u \in Threads, NEW n \in reach'[u]
               PROVE  /\ state'[n] # "free"
                      /\ \A v \in Threads : pc'[v] = "free" => n \notin node'[v]
                      /\ gepoch'[u] = epoch' => n \notin garbage'[ByOff(epoch', 1)]
    BY DEF ReachInv
  <2>1. /\ node' = [node EXCEPT ![t] = garbage[ByOff(gepoch[t], 2)]]
        /\ garbage' = [garbage EXCEPT ![ByOff(gepoch[t], 2)] = {}]
        /\ pc' = [pc EXCEPT ![t] = "free"] /\ pc[t] = "clear"
        /\ UNCHANGED <<overtaken, reach, state, gepoch, epoch>>
    BY <1>16 DEF Clear, Goto, Set
  <2>2. n \in reach[u] /\ ~overtaken /\ Pinned(u)
    BY <2>1 DEF IInv, PlaceInv
  \* The scan is over, so nobody is pinned in the epoch before.
  <2>3. gepoch[u] = epoch
    BY <2>1, <2>2 DEF IInv, PinInv, AdvanceInv, Advancing, Scanning
  <2>4. ByOff(gepoch[t], 2) = ByOff(epoch, 1)
    BY <2>1, ByOffFacts DEF IInv, TypeOK, AdvanceInv, Advancing
  <2>5. n \notin garbage[ByOff(gepoch[t], 2)]
    BY <2>2, <2>3, <2>4 DEF IInv, ReachInv
  <2> QED BY <2>1, <2>2, <2>5 DEF IInv, TypeOK, ReachInv
<1>17. CASE FreeNodes(t)
  BY <1>17 DEF FreeNodes, Goto, Set, IInv, TypeOK, PlaceInv, AdvanceInv, GarbageInv, InGarbage,
       InHands, PinInv, ReachInv, Pinned, Advancing, Scanning
<1>18. CASE Finish(t)
  BY SMTT(60), <1>18, ByOffFacts DEF Finish, Return, Goto, Set, IInv, TypeOK, PlaceInv, AdvanceInv,
       GarbageInv, InGarbage, InHands, PinInv, ReachInv, Pinned, Advancing, Scanning
<1> QED BY <1>1, <1>2, <1>3, <1>4, <1>5, <1>6, <1>7, <1>8, <1>9,
          <1>10, <1>11, <1>12, <1>13, <1>14, <1>15, <1>16, <1>17, <1>18 DEF Pin, Call, Adv

-----------------------------------------------------------------------------
\* The invariant holds in the beginning, and every step keeps it.
LEMMA InitInv == Init => IInv
<1> SUFFICES ASSUME Init PROVE IInv
  OBVIOUS
<1>1. TypeOK
  <2>1. \A e \in Epochs : [t \in Threads |-> e] \in [Threads -> Epochs]
    OBVIOUS
  <2>2. epoch \in Epochs /\ slot \in [Threads -> Epochs] /\ gepoch \in [Threads -> Epochs]
    BY <2>1, ZeroIsEpoch DEF Init
  <2>3. /\ garbage \in [Epochs -> SUBSET Nodes] /\ gb_cnt \in Int
        /\ state \in [Nodes -> {"linked", "unlinked", "free"}]
    BY DEF Init
  <2>4. /\ active \in [Threads -> BOOLEAN] /\ pc \in [Threads -> Labels]
        /\ reach \in [Threads -> SUBSET Nodes] /\ node \in [Threads -> SUBSET Nodes]
    BY DEF Init, Labels
  <2>5. /\ pending \in BOOLEAN /\ overtaken \in BOOLEAN
        /\ unseen \subseteq Threads /\ looking \in SUBSET Threads
    BY DEF Init
  <2> QED BY <2>2, <2>3, <2>4, <2>5 DEF TypeOK
<1>2. PlaceInv /\ PinInv /\ ReachInv
  <2>1. \A t \in Threads : pc[t] = "idle" /\ reach[t] = {} /\ node[t] = {}
    BY DEF Init
  <2> QED BY <2>1 DEF PlaceInv, PinInv, ReachInv, Pinned
<1>3. AdvanceInv
  BY DEF Init, AdvanceInv, Advancing, Scanning
<1>4. GarbageInv
  BY DEF Init, GarbageInv, InGarbage, InHands
<1> QED BY <1>1, <1>2, <1>3, <1>4 DEF IInv

LEMMA NextInv == IInv /\ [Next]_vars => IInv'
<1> SUFFICES ASSUME IInv, [Next]_vars PROVE IInv'
  OBVIOUS
<1>1. ASSUME NEW t \in Threads, Pin(t) \/ Call(t) \/ Adv(t)
      PROVE  IInv'
  <2>1. TypeOK' /\ PlaceInv' /\ AdvanceInv'
    BY <1>1, TypeStep, PlaceStep, AdvanceStep DEF IInv
  <2>2. GarbageInv' /\ PinInv'
    BY <1>1, GarbageStep, PinStep DEF IInv
  <2>3. ReachInv'
    BY <1>1, <2>1, <2>2, ReachStep
  <2> QED BY <2>1, <2>2, <2>3 DEF IInv
<1>2. CASE UNCHANGED vars
  <2>1. TypeOK' /\ PlaceInv' /\ AdvanceInv'
    BY <1>2 DEF IInv, vars, TypeOK, PlaceInv, AdvanceInv, Pinned, Advancing, Scanning
  <2>2. GarbageInv' /\ PinInv' /\ ReachInv'
    BY <1>2 DEF IInv, vars, GarbageInv, InGarbage, InHands, PinInv, ReachInv, Pinned, Scanning
  <2> QED BY <2>1, <2>2 DEF IInv
<1> QED BY <1>1, <1>2 DEF Next

\* The inductive invariant of epochs, pins, garbage and what threads can reach.
THEOREM Invariance == Spec => []IInv
<1>1. Init => IInv
  BY InitInv
<1>2. IInv /\ [Next]_vars => IInv'
  BY NextInv
<1> QED BY <1>1, <1>2, PTL DEF Spec

-----------------------------------------------------------------------------
\* A node that a thread found under its pin is not freed before the pin ends, if
\* no pin was overtaken by the epoch (LocalEpochPinner::new, adv_epoch).
THEOREM ReachableKept == Spec => []SafeUnlessOvertaken
<1>1. IInv => SafeUnlessOvertaken
  BY DEF IInv, ReachInv, SafeUnlessOvertaken, NoUseAfterFree
<1> QED BY <1>1, Invariance, PTL

\* One thread at a time advances the epoch, while the flag is set, and it has
\* announced the epoch after its own (adv_epoch).
THEOREM SingleAdvance == Spec => []OneAdvance
<1>1. IInv => OneAdvance
  <2> SUFFICES ASSUME IInv PROVE OneAdvance
    OBVIOUS
  <2> DEFINE advancing == {t \in Threads : pc[t] \in {"scan", "scan_epoch", "clear", "free", "finish"}}
  <2>1. \A t \in Threads : t \in advancing <=> Advancing(t)
    BY DEF Advancing, Scanning
  <2>2. AdvanceInv
    BY DEF IInv
  <2> QED BY <2>1, <2>2 DEF OneAdvance, AdvanceInv
<1> QED BY <1>1, Invariance, PTL

\* An unlinked node is in one garbage list or in the hands of one thread, and any
\* other in none: none is lost between the lists, and none is collected twice
\* (put_garbage, clear_garbage).
THEOREM GarbageExact == Spec => []GarbageOnce
<1>1. IInv => GarbageOnce
  <2> SUFFICES ASSUME IInv, NEW n \in Nodes
               PROVE  Cardinality({e \in Epochs : n \in garbage[e]})
                      + Cardinality({t \in Threads : n \in node[t]})
                      = IF state[n] = "unlinked" THEN 1 ELSE 0
    BY DEF GarbageOnce
  <2> DEFINE lists == {e \in Epochs : n \in garbage[e]}
             hands == {t \in Threads : n \in node[t]}
  <2>0. GarbageInv
    BY DEF IInv
  <2>1. CASE InGarbage(n)
    <3>1. hands = {} /\ state[n] = "unlinked"
      BY <2>0, <2>1 DEF GarbageInv, InHands
    <3>2. PICK e \in Epochs : lists = {e}
      BY <2>0, <2>1 DEF GarbageInv, InGarbage
    <3> HIDE DEF lists, hands
    <3>3. Cardinality(lists) = 1 /\ Cardinality(hands) = 0
      BY <3>1, <3>2, FS_Singleton, FS_EmptySet
    <3> QED BY <3>1, <3>3 DEF lists, hands
  <2>2. CASE InHands(n)
    <3>1. lists = {} /\ state[n] = "unlinked"
      BY <2>0, <2>2 DEF GarbageInv, InGarbage
    <3>2. PICK t \in Threads : hands = {t}
      BY <2>0, <2>2 DEF GarbageInv, InHands
    <3> HIDE DEF lists, hands
    <3>3. Cardinality(lists) = 0 /\ Cardinality(hands) = 1
      BY <3>1, <3>2, FS_Singleton, FS_EmptySet
    <3> QED BY <3>1, <3>3 DEF lists, hands
  <2>3. CASE ~InGarbage(n) /\ ~InHands(n)
    <3>1. lists = {} /\ hands = {} /\ state[n] # "unlinked"
      BY <2>0, <2>3 DEF GarbageInv, InGarbage, InHands
    <3> HIDE DEF lists, hands
    <3>2. Cardinality(lists) = 0 /\ Cardinality(hands) = 0
      BY <3>1, FS_EmptySet
    <3> QED BY <3>1, <3>2 DEF lists, hands
  <2> QED BY <2>1, <2>2, <2>3
<1> QED BY <1>1, Invariance, PTL
===============================================================================
