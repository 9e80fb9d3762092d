----------------------------- MODULE EpochReclaim -----------------------------
(***************************************************************************)
(* Epoch based reclamation of the lock-free skip list                      *)
(* (src/skiplist/map/lockfree.rs).  A call pins the epoch it reads in      *)
(* the slot of its thread (LocalEpoch) and walks the list.  A removal      *)
(* unlinks a node, puts it in the garbage list of its pinned epoch, unpins *)
(* and, when there is enough garbage, advances the epoch: it waits for the *)
(* threads pinned in the old one and frees the garbage of the one before.  *)
(* Every load and store of an atomic is a step.                            *)
(***************************************************************************)
EXTENDS Integers, FiniteSets

CONSTANTS
  Threads,
  Nodes,          \* memory for nodes; a freed one is allocated again
  Threshold       \* config.epoch_adv_thres, 256 or more in the code

ASSUME EpochAssumption == Threshold \in Nat /\ IsFiniteSet(Nodes)

Epochs == 0 .. 2

VARIABLES
  epoch,          \* the global epoch
  pending,        \* its flag EPOCH_ADV_PENDING
  active,         \* LocalEpoch.active
  slot,           \* LocalEpoch.epoch
  gepoch,         \* LocalEpoch.gepoch, private to the thread
  garbage,        \* for each epoch, the nodes in its list
  gb_cnt,         \* an atomic usize: below zero it has wrapped around
  state,          \* each node: linked, unlinked or free
  pc,
  reach,          \* nodes a thread may have a pointer to, while it is pinned
  node,           \* the nodes a thread removes, or frees
  unseen,         \* slots that the loop of adv_epoch has yet to look at
  looking,        \* the thread, found active, whose epoch it reads next
  overtaken       \* history: a pin was published after the epoch moved on

vars == <<epoch, pending, active, slot, gepoch, garbage, gb_cnt, state, pc, reach,
          node, unseen, looking, overtaken>>
shared == <<epoch, pending, garbage, gb_cnt, state>>
local == <<active, slot, gepoch, reach, node, unseen, looking>>

Labels == {"idle", "publish", "activate", "reload", "republish", "in", "repin",
           "put", "count", "unpin", "advance", "scan", "scan_epoch", "clear", "free",
           "finish"}

TypeOK ==
  /\ epoch \in Epochs /\ pending \in BOOLEAN
  /\ active \in [Threads -> BOOLEAN]
  /\ slot \in [Threads -> Epochs] /\ gepoch \in [Threads -> Epochs]
  /\ garbage \in [Epochs -> SUBSET Nodes]
  /\ gb_cnt \in Int
  /\ state \in [Nodes -> {"linked", "unlinked", "free"}]
  /\ pc \in [Threads -> Labels]
  /\ reach \in [Threads -> SUBSET Nodes]
  /\ node \in [Threads -> SUBSET Nodes]
  /\ unseen \subseteq Threads
  /\ looking \in SUBSET Threads
  /\ overtaken \in BOOLEAN

Init ==
  /\ epoch = 0 /\ pending = FALSE
  /\ active = [t \in Threads |-> FALSE]
  /\ slot = [t \in Threads |-> 0] /\ gepoch = [t \in Threads |-> 0]
  /\ garbage = [e \in Epochs |-> {}]
  /\ gb_cnt = 0
  /\ state = [n \in Nodes |-> "free"]
  /\ pc = [t \in Threads |-> "idle"]
  /\ reach = [t \in Threads |-> {}]
  /\ node = [t \in Threads |-> {}]
  /\ unseen = {}
  /\ looking = {}
  /\ overtaken = FALSE

Goto(t, l) == pc' = [pc EXCEPT ![t] = l]
Set(f, t, v) == [f EXCEPT ![t] = v]

\* A call returns.  The private copy of the epoch is not read again before it
\* is loaded again.
Return(t) == Goto(t, "idle") /\ gepoch' = Set(gepoch, t, 0)

\* epoch_by_off
ByOff(e, off) == (e + off) % 3
-----------------------------------------------------------------------------
(* Versions with a slip, for checking that the properties notice.          *)

\* A removal does not notice that another one came first.
Unlink_Twice(t) ==
  /\ pc[t] = "in"
  /\ \E n \in reach[t] :
       /\ state' = Set(state, n, "unlinked")
       /\ node' = Set(node, t, {n})
  /\ Goto(t, "put")
  /\ UNCHANGED <<epoch, pending, garbage, gb_cnt, active, slot, gepoch, reach, unseen, looking, overtaken>>

\* The epoch is compared without its flag.
Advance_IgnoresFlag(t) ==
  /\ pc[t] = "advance"
  /\ \/ Return(t) /\ UNCHANGED <<epoch, pending, unseen>>
     \/ /\ gb_cnt > Threshold
        /\ epoch = gepoch[t]
        /\ epoch' = ByOff(epoch, 1) /\ pending' = TRUE
        /\ unseen' = Threads
        /\ Goto(t, "scan")
        /\ UNCHANGED gepoch
  /\ UNCHANGED <<garbage, gb_cnt, state, active, slot, reach, node, looking, overtaken>>

\* adv_epoch frees the garbage of the epoch it leaves.
Clear_OldEpoch(t) ==
  /\ pc[t] = "clear"
  /\ node' = Set(node, t, garbage[gepoch[t]])
  /\ garbage' = Set(garbage, gepoch[t], {})
  /\ Goto(t, "free")
  /\ UNCHANGED <<epoch, pending, gb_cnt, state, active, slot, gepoch, reach, unseen, looking, overtaken>>

\* The advancing thread does not give up its own pin first.
Unpin_KeepsPin(t) ==
  /\ pc[t] \in {"in", "unpin"}
  /\ reach' = Set(reach, t, {})
  /\ active' = IF pc[t] = "in" THEN Set(active, t, FALSE) ELSE active
  /\ \/ pc[t] = "in" /\ Return(t)
     \/ pc[t] = "unpin" /\ Goto(t, "advance") /\ UNCHANGED gepoch
  /\ UNCHANGED <<shared, slot, node, unseen, looking, overtaken>>
-----------------------------------------------------------------------------
(* LocalEpochPinner                                                        *)

Load(t) == gepoch' = Set(gepoch, t, epoch)

\* new: load, store, activate, load, store.
PinLoad(t) ==
  /\ pc[t] = "idle"
  /\ Load(t) /\ Goto(t, "publish")
  /\ UNCHANGED <<shared, active, slot, reach, node, unseen, looking, overtaken>>

Publish(t) ==
  /\ pc[t] = "publish"
  /\ slot' = Set(slot, t, gepoch[t])
  /\ Goto(t, "activate")
  /\ UNCHANGED <<shared, active, gepoch, reach, node, unseen, looking, overtaken>>

Activate(t) ==
  /\ pc[t] = "activate"
  /\ active' = Set(active, t, TRUE)
  /\ Goto(t, "reload")
  /\ UNCHANGED <<shared, slot, gepoch, reach, node, unseen, looking, overtaken>>

Reload(t) ==
  /\ pc[t] = "reload"
  /\ Load(t) /\ Goto(t, "republish")
  /\ UNCHANGED <<shared, active, slot, reach, node, unseen, looking, overtaken>>

\* The last store of new, or the store of repin.
Republish(t) ==
  /\ pc[t] \in {"republish", "repin"}
  /\ slot' = Set(slot, t, gepoch[t])
  /\ overtaken' = (overtaken \/ gepoch[t] # epoch)
  /\ Goto(t, "in")
  /\ UNCHANGED <<shared, active, gepoch, reach, node, unseen, looking>>

\* repin, called by link_nodes before it searches again from the heads.
RepinLoad(t) ==
  /\ pc[t] = "in"
  /\ Load(t) /\ Goto(t, "repin")
  /\ reach' = Set(reach, t, {})
  /\ UNCHANGED <<shared, active, slot, node, unseen, looking, overtaken>>

\* The pin is dropped: the call ends, or a removal goes on to adv_epoch.
Unpin(t) ==
  /\ pc[t] \in {"in", "unpin"}
  /\ reach' = Set(reach, t, {})
  /\ active' = Set(active, t, FALSE)
  /\ \/ pc[t] = "in" /\ Return(t)
     \/ pc[t] = "unpin" /\ Goto(t, "advance") /\ UNCHANGED gepoch
  /\ UNCHANGED <<shared, slot, node, unseen, looking, overtaken>>
-----------------------------------------------------------------------------
(* Calls on the list                                                       *)

\* A search reads pointers to linked nodes.
Walk(t) ==
  /\ pc[t] = "in"
  /\ \E n \in Nodes \ reach[t] : state[n] = "linked" /\ reach' = Set(reach, t, reach[t] \cup {n})
  /\ UNCHANGED <<shared, active, slot, gepoch, pc, node, unseen, looking, overtaken>>

\* insert allocates and links a node.
Insert(t) ==
  /\ pc[t] = "in"
  /\ \E n \in Nodes :
       /\ state[n] = "free"
       /\ \A u \in Threads : n \notin node[u]
       /\ state' = Set(state, n, "linked")
  /\ UNCHANGED <<epoch, pending, garbage, gb_cnt, local, pc, overtaken>>

\* remove: its exchange of the flags makes it the only one, then it unlinks.
Unlink(t) ==
  /\ pc[t] = "in"
  /\ \E n \in reach[t] :
       /\ state[n] = "linked"
       /\ state' = Set(state, n, "unlinked")
       /\ node' = Set(node, t, {n})
  /\ Goto(t, "put")
  /\ UNCHANGED <<epoch, pending, garbage, gb_cnt, active, slot, gepoch, reach, unseen, looking, overtaken>>

\* put_garbage: a push on the list of the pinned epoch, then the counter.
Put(t) ==
  /\ pc[t] = "put"
  /\ garbage' = Set(garbage, gepoch[t], garbage[gepoch[t]] \cup node[t])
  /\ node' = Set(node, t, {})
  /\ Goto(t, "count")
  /\ UNCHANGED <<epoch, pending, gb_cnt, state, active, slot, gepoch, reach, unseen, looking, overtaken>>

Count(t) ==
  /\ pc[t] = "count"
  /\ gb_cnt' = gb_cnt + 1
  /\ Goto(t, "unpin")
  /\ UNCHANGED <<epoch, pending, garbage, state, local, overtaken>>
-----------------------------------------------------------------------------
(* adv_epoch                                                               *)

\* Too little garbage, another thread has advanced or is advancing, or the weak
\* exchange fails; else the new epoch is announced.
Advance(t) ==
  /\ pc[t] = "advance"
  /\ \/ Return(t) /\ UNCHANGED <<epoch, pending, unseen>>
     \/ /\ gb_cnt > Threshold \/ gb_cnt < 0
        /\ epoch = gepoch[t] /\ ~pending
        /\ epoch' = ByOff(epoch, 1) /\ pending' = TRUE
        /\ unseen' = Threads
        /\ Goto(t, "scan")
        /\ UNCHANGED gepoch
  /\ UNCHANGED <<garbage, gb_cnt, state, active, slot, reach, node, looking, overtaken>>

\* The next slot of the set, in any order.  If the thread is active its epoch is
\* read too, and if that is the old epoch the loop begins again.
ScanActive(t) ==
  /\ pc[t] = "scan"
  /\ \E u \in unseen :
       /\ unseen' = unseen \ {u}
       /\ \/ active[u] /\ looking' = {u} /\ Goto(t, "scan_epoch")
          \/ ~active[u] /\ Goto(t, IF unseen' = {} THEN "clear" ELSE "scan") /\ UNCHANGED looking
  /\ UNCHANGED <<shared, active, slot, gepoch, reach, node, overtaken>>

ScanEpoch(t) ==
  /\ pc[t] = "scan_epoch"
  /\ \E u \in looking :
       \/ /\ slot[u] = gepoch[t]
          /\ unseen' = Threads
          /\ Goto(t, "scan")
       \/ /\ slot[u] # gepoch[t]
          /\ Goto(t, IF unseen = {} THEN "clear" ELSE "scan")
          /\ UNCHANGED unseen
  /\ looking' = {}
  /\ UNCHANGED <<shared, active, slot, gepoch, reach, node, overtaken>>

\* clear_garbage takes the list of the epoch before the old one.
Clear(t) ==
  /\ pc[t] = "clear"
  /\ node' = Set(node, t, garbage[ByOff(gepoch[t], 2)])
  /\ garbage' = Set(garbage, ByOff(gepoch[t], 2), {})
  /\ Goto(t, "free")
  /\ UNCHANGED <<epoch, pending, gb_cnt, state, active, slot, gepoch, reach, unseen, looking, overtaken>>

\* It drops the map's reference to each node and then counts them all off.
FreeNodes(t) ==
  /\ pc[t] = "free"
  /\ state' = [n \in Nodes |-> IF n \in node[t] THEN "free" ELSE state[n]]
  /\ gb_cnt' = gb_cnt - Cardinality(node[t])
  /\ node' = Set(node, t, {})
  /\ Goto(t, "finish")
  /\ UNCHANGED <<epoch, pending, garbage, active, slot, gepoch, reach, unseen, looking, overtaken>>

Finish(t) ==
  /\ pc[t] = "finish"
  /\ epoch' = ByOff(gepoch[t], 1) /\ pending' = FALSE
  /\ Return(t)
  /\ UNCHANGED <<garbage, gb_cnt, state, active, slot, reach, node, unseen, looking, overtaken>>

Pin(t) == PinLoad(t) \/ Publish(t) \/ Activate(t) \/ Reload(t) \/ Republish(t) \/ RepinLoad(t)
Call(t) == Walk(t) \/ Insert(t) \/ Unlink(t) \/ Put(t) \/ Count(t) \/ Unpin(t)
Adv(t) == Advance(t) \/ ScanActive(t) \/ ScanEpoch(t) \/ Clear(t) \/ FreeNodes(t) \/ Finish(t)

Next == \E t \in Threads : Pin(t) \/ Call(t) \/ Adv(t)

Spec == Init /\ [][Next]_vars

\* A pin that has begun is finished, a call that found what it wanted ends, and
\* adv_epoch goes on.  A call that pins again and again need not end: it does not
\* hold up the epoch.
Fairness ==
  \A t \in Threads :
    WF_vars(\/ Publish(t) \/ Activate(t) \/ Reload(t) \/ Republish(t)
            \/ Put(t) \/ Count(t) \/ Unpin(t) \/ Adv(t))

FairSpec == Spec /\ Fairness
-----------------------------------------------------------------------------
\* No thread has a pointer to a node that was freed.
NoUseAfterFree == \A t \in Threads : \A n \in reach[t] : state[n] # "free"

\* This is so as long as no pin was overtaken: as long as each thread published
\* an epoch that was still the global one.
SafeUnlessOvertaken == ~overtaken => NoUseAfterFree

\* A node that was unlinked is in one list, or on its way into or out of one.
GarbageOnce ==
  LET places == [n \in Nodes |-> Cardinality({e \in Epochs : n \in garbage[e]})
                                 + Cardinality({t \in Threads : n \in node[t]})]
  IN  \A n \in Nodes : places[n] = IF state[n] = "unlinked" THEN 1 ELSE 0

\* gb_cnt counts the nodes in the lists and those being freed, but for the ones
\* whose removal is about to count them; no removal or collection is missed.
GarbageCount ==
  gb_cnt = Cardinality(UNION {garbage[e] : e \in Epochs})
           + Cardinality(UNION {node[t] : t \in {u \in Threads : pc[u] = "free"}})
           - Cardinality({t \in Threads : pc[t] = "count"})

\* One thread at a time advances the epoch, and the flag says whether one does.
OneAdvance ==
  LET advancing == {t \in Threads : pc[t] \in {"scan", "scan_epoch", "clear", "free", "finish"}}
  IN  /\ \A t, u \in advancing : t = u
      /\ pending <=> advancing # {}
      /\ \A t \in advancing : epoch = ByOff(gepoch[t], 1)

\* The thread that advances waits only for calls that end: it does not wait for
\* those that begin meanwhile.
AdvanceEnds == pending ~> ~pending
=============================================================================
