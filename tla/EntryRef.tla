------------------------------- MODULE EntryRef -------------------------------
(***************************************************************************)
(* One node of the lock-free skip list, and the word of flags and the      *)
(* reference count its users share (src/skiplist/map/lockfree.rs).         *)
(* Users take a shared or a mutable EntryRef and drop it, replace the      *)
(* value by insert, or remove the entry; the garbage collector, or the map *)
(* when it is dropped, gives up the reference the node is created with.    *)
(*                                                                         *)
(* The links are not modelled here: a node is found while it is linked.    *)
(* Nor are the epochs: a node is collected only when nobody who may have   *)
(* found it is still inside a call, which is what they promise.            *)
(***************************************************************************)
EXTENDS Integers, FiniteSets

CONSTANTS
  Getters,        \* users that call get, and drop the EntryRef they get
  Mutators,       \* users that call get_mut
  Updaters,       \* users that call insert with the key of the node
  Removers,       \* users that call remove
  Forgetters,     \* users that call remove_wo_kv
  Collector       \* the thread that clears the garbage, or drops the map

Actors == Getters \cup Mutators \cup Updaters \cup Removers \cup Forgetters \cup {Collector}

\* No actor is of two kinds.
ASSUME ActorsAssumption ==
  /\ IsFiniteSet(Actors)
  /\ Collector \notin Getters \cup Mutators \cup Updaters \cup Removers \cup Forgetters
  /\ Getters \cap (Mutators \cup Updaters \cup Removers \cup Forgetters) = {}
  /\ Mutators \cap (Updaters \cup Removers \cup Forgetters) = {}
  /\ Updaters \cap (Removers \cup Forgetters) = {}
  /\ Removers \cap Forgetters = {}

VARIABLES
  flags,          \* the atomic word of flags, as a set
  refcnt,         \* the atomic reference count
  place,          \* where the map keeps the node
  kv,             \* what happened to the key and the value
  freed,          \* the memory of the node has been returned
  pc,             \* where each actor is
  seen            \* the flags an actor loaded last

vars == <<flags, refcnt, place, kv, freed, pc, seen>>

Flags == {"DELETED", "UPDATING_VALUE", "IN_USE", "IN_MUT_USE", "KV_TAKEN", "LINKING"}
InUse == {"IN_USE", "IN_MUT_USE"}

\* Inside a call on the map, where an epoch is pinned.
Pinned == {"get", "get_cas", "get_ref", "update", "update_cas", "swap", "unset",
           "remove", "remove_cas", "unlink", "take_kv", "garbage"}

\* With a reference not given back: in use, and inside EntryRef::drop.
Referring == {"held", "drop", "drop_refcnt", "drop_cas", "sub"}

Labels == {"idle", "free"} \cup Pinned \cup Referring

TypeOK ==
  /\ flags \subseteq Flags
  /\ refcnt \in 0 .. Cardinality(Actors)
  /\ place \in {"linked", "unlinked", "garbage", "given_up"}
  /\ kv \in {"here", "moved", "dropped", "dropped_twice"}
  /\ freed \in BOOLEAN
  /\ pc \in [Actors -> Labels]
  /\ seen \in [Actors -> SUBSET Flags]

\* Node::new, linked at level 0 by an insert that still links the other levels.
Init ==
  /\ flags = {"LINKING"}
  /\ refcnt = 1
  /\ place = "linked"
  /\ kv = "here"
  /\ freed = FALSE
  /\ pc = [a \in Actors |-> "idle"]
  /\ seen = [a \in Actors |-> {}]

Goto(a, l) == pc' = [pc EXCEPT ![a] = l]

\* Actor a loads the flags and goes where they send it.  What it loaded is kept
\* while it is needed: for an exchange, or until EntryRef::drop ends.
LoadAnd(a, l) ==
  /\ seen' = [seen EXCEPT ![a] = IF l \in {"idle", "get_ref"} THEN {} ELSE flags]
  /\ Goto(a, l)

Forget(a) == seen' = [seen EXCEPT ![a] = {}]

\* compare_exchange_weak of the flags an actor has seen: it stores new and the
\* actor goes to next, or it fails, spuriously or not, and the actor goes to
\* again, where it looks at the flags once more.
CasFlags(a, new, next, again) ==
  /\ \/ /\ flags = seen[a]
        /\ flags' = new
        /\ Goto(a, next)
        /\ IF next = "sub" THEN UNCHANGED seen ELSE Forget(a)
     \/ Goto(a, again) /\ Forget(a) /\ UNCHANGED flags
  /\ UNCHANGED <<refcnt, place, kv, freed>>

\* search or search_ext finds the node, under the protection of an epoch.
Find(a, l) ==
  /\ pc[a] = "idle"
  /\ place = "linked"
  /\ Goto(a, l)
  /\ UNCHANGED <<flags, refcnt, place, kv, freed, seen>>

\* The insert that made the node ends.
FinishLinking ==
  /\ "LINKING" \in flags
  /\ flags' = flags \ {"LINKING"}
  /\ UNCHANGED <<refcnt, place, kv, freed, pc, seen>>
-----------------------------------------------------------------------------
(* Versions with a slip, for checking that the properties notice.          *)

\* remove does not wait for the insert that still links the node.
RemoveLoad_IgnoresLinking(a) ==
  /\ pc[a] = "remove"
  /\ \/ "DELETED" \in flags /\ LoadAnd(a, "idle")
     \/ /\ "DELETED" \notin flags
        /\ a \in Removers /\ flags \cap InUse # {}
        /\ LoadAnd(a, "idle")
     \/ /\ "DELETED" \notin flags
        /\ a \in Forgetters \/ flags \cap InUse = {}
        /\ "UPDATING_VALUE" \notin flags
        /\ LoadAnd(a, "remove_cas")
  /\ UNCHANGED <<flags, refcnt, place, kv, freed>>

\* get_mut takes an entry whose value is being replaced.
GetLoad_IgnoresUpdate(a) ==
  /\ pc[a] = "get"
  /\ \/ /\ \/ "DELETED" \in flags
           \/ a \in Mutators /\ flags \cap InUse # {}
           \/ "IN_MUT_USE" \in flags
        /\ LoadAnd(a, "idle")
     \/ "DELETED" \notin flags /\ flags \cap InUse = {} /\ LoadAnd(a, "get_cas")
     \/ "DELETED" \notin flags /\ flags \cap InUse = {"IN_USE"} /\ a \in Getters
        /\ LoadAnd(a, "get_ref")
  /\ UNCHANGED <<flags, refcnt, place, kv, freed>>

\* A shared EntryRef is handed out without counting it.
GetRef_NotCounted(a) ==
  /\ pc[a] = "get_ref"
  /\ Goto(a, "held")
  /\ UNCHANGED <<flags, refcnt, place, kv, freed, seen>>

\* The last reference is taken for the one before it.
DropRef_OffByOne(a) ==
  /\ pc[a] = "sub"
  /\ refcnt' = refcnt - 1
  /\ \/ refcnt = 0 /\ Goto(a, "free") /\ UNCHANGED seen
     \/ refcnt # 0 /\ Goto(a, "idle") /\ Forget(a)
  /\ UNCHANGED <<flags, place, kv, freed>>
-----------------------------------------------------------------------------
(* get and get_mut                                                         *)

\* get_entry_ref.  While the value is being updated it loads the flags again.
GetLoad(a) ==
  /\ pc[a] = "get"
  /\ \/ "DELETED" \in flags /\ LoadAnd(a, "idle")               \* None
     \/ /\ flags \cap {"DELETED", "UPDATING_VALUE"} = {}
        /\ \/ flags \cap InUse = {} /\ LoadAnd(a, "get_cas")
           \/ flags \cap InUse # {} /\ a \in Mutators /\ LoadAnd(a, "idle")
           \/ "IN_MUT_USE" \in flags /\ a \in Getters /\ LoadAnd(a, "idle")
           \/ flags \cap InUse = {"IN_USE"} /\ a \in Getters /\ LoadAnd(a, "get_ref")
  /\ UNCHANGED <<flags, refcnt, place, kv, freed>>

GetCas(a) ==
  /\ pc[a] = "get_cas"
  /\ CasFlags(a, flags \cup {IF a \in Mutators THEN "IN_MUT_USE" ELSE "IN_USE"},
              "get_ref", "get")

\* EntryRef::from_ptr counts the reference, and the call returns it.
GetRef(a) ==
  /\ pc[a] = "get_ref"
  /\ refcnt' = refcnt + 1
  /\ Goto(a, "held")
  /\ UNCHANGED <<flags, place, kv, freed, seen>>

Get(a) ==
  \/ a \in Getters \cup Mutators /\ Find(a, "get")
  \/ GetLoad(a) \/ GetCas(a) \/ GetRef(a)
-----------------------------------------------------------------------------
(* EntryRef::drop, also run by the collector for the map's own reference   *)

DropLoad(a) ==
  /\ pc[a] \in {"held", "drop"}
  /\ \/ "DELETED" \in flags /\ LoadAnd(a, "sub")
     \/ "DELETED" \notin flags /\ a = Collector /\ LoadAnd(a, "sub")
     \/ "DELETED" \notin flags /\ a \in Getters /\ LoadAnd(a, "drop_refcnt")
     \/ /\ "DELETED" \notin flags /\ a \in Mutators
        /\ LoadAnd(a, IF "IN_MUT_USE" \in flags THEN "drop_cas" ELSE "sub")
  /\ UNCHANGED <<flags, refcnt, place, kv, freed>>

\* The last user of a shared entry clears IN_USE: it sees its own reference and
\* the map's.
DropRefcnt(a) ==
  /\ pc[a] = "drop_refcnt"
  /\ Goto(a, IF refcnt <= 2 /\ "IN_USE" \in seen[a] THEN "drop_cas" ELSE "sub")
  /\ UNCHANGED <<flags, refcnt, place, kv, freed, seen>>

DropCas(a) ==
  /\ pc[a] = "drop_cas"
  /\ CasFlags(a, flags \ {IF a \in Mutators THEN "IN_MUT_USE" ELSE "IN_USE"}, "sub", "drop")

DropRef(a) ==
  /\ pc[a] = "sub"
  /\ refcnt' = refcnt - 1
  /\ \/ refcnt = 1 /\ Goto(a, "free") /\ UNCHANGED seen
     \/ refcnt # 1 /\ Goto(a, "idle") /\ Forget(a)
  /\ UNCHANGED <<flags, place, kv, freed>>

\* The key and value go with the node, unless the flags loaded above say that
\* they were taken.
Free(a) ==
  /\ pc[a] = "free"
  /\ freed' = TRUE
  /\ kv' = IF "KV_TAKEN" \in seen[a] THEN kv
           ELSE IF kv = "here" THEN "dropped" ELSE "dropped_twice"
  /\ Goto(a, "idle")
  /\ Forget(a)
  /\ UNCHANGED <<flags, refcnt, place>>

Drop(a) == DropLoad(a) \/ DropRefcnt(a) \/ DropCas(a) \/ DropRef(a) \/ Free(a)
-----------------------------------------------------------------------------
(* insert finds the key                                                    *)

UpdateLoad(a) ==
  /\ pc[a] = "update"
  /\ \/ flags \cap ({"DELETED"} \cup InUse) # {} /\ LoadAnd(a, "idle")
     \/ flags \cap ({"DELETED", "UPDATING_VALUE"} \cup InUse) = {} /\ LoadAnd(a, "update_cas")
  /\ UNCHANGED <<flags, refcnt, place, kv, freed>>

UpdateCas(a) ==
  /\ pc[a] = "update_cas"
  /\ CasFlags(a, flags \cup {"UPDATING_VALUE"}, "swap", "update")

\* The values are swapped.
Swap(a) ==
  /\ pc[a] = "swap"
  /\ Goto(a, "unset")
  /\ UNCHANGED <<flags, refcnt, place, kv, freed, seen>>

\* set_unset_flags: its loop ends with one exchange that clears the flag.
Unset(a) ==
  /\ pc[a] = "unset"
  /\ flags' = flags \ {"UPDATING_VALUE"}
  /\ Goto(a, "idle")
  /\ UNCHANGED <<refcnt, place, kv, freed, seen>>

Update(a) ==
  \/ a \in Updaters /\ Find(a, "update")
  \/ UpdateLoad(a) \/ UpdateCas(a) \/ Swap(a) \/ Unset(a)
-----------------------------------------------------------------------------
(* remove and remove_wo_kv                                                 *)

RemoveLoad(a) ==
  /\ pc[a] = "remove"
  /\ \/ "DELETED" \in flags /\ LoadAnd(a, "idle")
     \/ /\ "DELETED" \notin flags
        /\ a \in Removers /\ flags \cap InUse # {}
        /\ LoadAnd(a, "idle")                                   \* ElementInUse
     \/ /\ "DELETED" \notin flags
        /\ a \in Forgetters \/ flags \cap InUse = {}
        /\ flags \cap {"UPDATING_VALUE", "LINKING"} = {}
        /\ LoadAnd(a, "remove_cas")
  /\ UNCHANGED <<flags, refcnt, place, kv, freed>>

RemoveCas(a) ==
  /\ pc[a] = "remove_cas"
  /\ CasFlags(a, flags \cup {"DELETED"} \cup (IF a \in Removers THEN {"KV_TAKEN"} ELSE {}),
              "unlink", "remove")

\* mark_next_ptr_delete and unlink_nodes.
Unlink(a) ==
  /\ pc[a] = "unlink"
  /\ place' = "unlinked"
  /\ Goto(a, IF a \in Removers THEN "take_kv" ELSE "garbage")
  /\ UNCHANGED <<flags, refcnt, kv, freed, seen>>

TakeKV(a) ==
  /\ pc[a] = "take_kv"
  /\ kv' = "moved"
  /\ Goto(a, "garbage")
  /\ UNCHANGED <<flags, refcnt, place, freed, seen>>

PutGarbage(a) ==
  /\ pc[a] = "garbage"
  /\ place' = "garbage"
  /\ Goto(a, "idle")
  /\ UNCHANGED <<flags, refcnt, kv, freed, seen>>

Remove(a) ==
  \/ a \in Removers \cup Forgetters /\ Find(a, "remove")
  \/ RemoveLoad(a) \/ RemoveCas(a) \/ Unlink(a) \/ TakeKV(a) \/ PutGarbage(a)
-----------------------------------------------------------------------------
\* clear_garbage once the epochs allow it, or the Drop of the map, which owns it
\* alone: either way nobody is inside a call.  EntryRefs may outlive both.
GiveUp ==
  /\ pc[Collector] = "idle"
  /\ \/ place = "garbage"
     \/ place = "linked" /\ "LINKING" \notin flags
  /\ \A a \in Actors : pc[a] \notin Pinned
  /\ place' = "given_up"
  /\ Goto(Collector, "drop")
  /\ UNCHANGED <<flags, refcnt, kv, freed, seen>>

Next ==
  \/ FinishLinking \/ GiveUp
  \/ \E a \in Actors : Get(a) \/ Drop(a) \/ Update(a) \/ Remove(a)

Spec == Init /\ [][Next]_vars
-----------------------------------------------------------------------------
At(labels) == {a \in Actors : pc[a] \in labels}

\* Those that change or move the value: the holder of a mutable reference, an
\* insert that swaps it, a remove that takes it.
Writers == (At({"held"}) \cap Mutators) \cup At({"swap", "take_kv"})

\* The memory is returned only when no call can touch the node, and nobody has
\* a reference to it, however long EntryRefs are kept past the removal of the
\* entry or past the map, and in whatever order they are dropped.
NoUseAfterFree == freed => At(Pinned \cup Referring \cup {"free"}) = {}

\* Once the map gave the node up and the last reference is dropped, the node is
\* freed: the decrements, in any order, single out one last actor.  The key and
\* the value go with it, if they were not taken before.
NoLeak ==
  place = "given_up" /\ At(Referring \cup {"free"}) = {} => freed /\ kv # "here"

\* "ownership of key and value can't be taken" of an entry in use (doc of remove,
\* src/skiplist/map/lockfree.rs:1190): what remove returned is not dropped once
\* more with the node.
DroppedOnce == kv # "dropped_twice"

\* Whatever users come and go, at most one of them writes the value.
SingleWriter == \A a, b \in Writers : a = b

\* One call removes the entry, and not before the insert that links it is done.
OneRemoval ==
  LET removing == At({"unlink", "take_kv", "garbage"})
  IN  /\ \A a, b \in removing : a = b
      /\ removing # {} => place \notin {"garbage", "given_up"} /\ "LINKING" \notin flags

\* While somebody has a mutable reference nobody has another, and a value that
\* was moved out is in nobody's hands: the documentation of get_mut and remove.
ExclusiveUse ==
  /\ \A a \in At({"held"}) \cap Mutators : At({"held"}) = {a}
  /\ kv = "moved" => At({"held"}) = {}
=============================================================================
