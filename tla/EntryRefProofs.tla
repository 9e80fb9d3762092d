---------------------------- MODULE EntryRefProofs ----------------------------
(***************************************************************************)
(* Proofs about a node of the lock-free skip list, for any finite sets of  *)
(* users of each kind: it is freed once, when nobody can use it any more,  *)
(* at most one user writes its value, and one call removes it.             *)
(***************************************************************************)
EXTENDS EntryRef, FiniteSetTheorems, TLAPS

\* The types of all but the count, whose bound follows from CountInv.
Types ==
  /\ flags \subseteq Flags
  /\ place \in {"linked", "unlinked", "garbage", "given_up"}
  /\ kv \in {"here", "moved", "dropped", "dropped_twice"}
  /\ freed \in BOOLEAN
  /\ pc \in [Actors -> Labels]
  /\ seen \in [Actors -> SUBSET Flags]

\* Whose reference is counted: the users', and the map's until it is given up,
\* which is then in the collector's hands.
Referenced(a) == pc[a] \in Referring \/ (a = Collector /\ place # "given_up")
Refs == {a \in Actors : Referenced(a)}

\* Between taking the mutable reference and giving up its flag.
HasMut(a) == a \in Mutators /\ pc[a] \in {"get_ref", "held", "drop", "drop_cas"}
Updating(a) == pc[a] \in {"swap", "unset"}
Removing(a) == pc[a] \in {"unlink", "take_kv", "garbage"}
Taking(a) == a \in Removers /\ pc[a] \in {"unlink", "take_kv"}

\* Who can be where, and what the flags were that an exchange expects.
PlaceInv ==
  \A a \in Actors :
    /\ pc[a] \in {"get", "get_cas", "get_ref", "held", "drop_cas"} => a \in Getters \cup Mutators
    /\ pc[a] = "drop_refcnt" => a \in Getters
    /\ pc[a] \in {"update", "update_cas", "swap", "unset"} => a \in Updaters
    /\ pc[a] \in {"remove", "remove_cas", "unlink", "garbage"} => a \in Removers \cup Forgetters
    /\ pc[a] = "take_kv" => a \in Removers
    /\ pc[a] \in {"get_cas", "update_cas"} =>
         seen[a] \cap ({"DELETED", "UPDATING_VALUE"} \cup InUse) = {}
    /\ pc[a] = "remove_cas" => seen[a] \cap {"DELETED", "UPDATING_VALUE", "LINKING"} = {}
    /\ pc[a] = "remove_cas" /\ a \in Removers => seen[a] \cap InUse = {}

\* The count is right, nobody is inside a call once the node is given up, and
\* when the count gets to zero one actor frees the node.
CountInv ==
  /\ refcnt = Cardinality(Refs)
  /\ place # "given_up" => pc[Collector] = "idle"
  /\ place = "given_up" => \A a \in Actors : pc[a] \notin Pinned
  /\ \A a \in Actors : pc[a] = "free" => Refs = {} /\ ~freed
  /\ \A a, b \in Actors : pc[a] = "free" /\ pc[b] = "free" => a = b
  /\ freed => Refs = {}
  /\ Refs = {} => freed \/ \E a \in Actors : pc[a] = "free"

\* The flags tell of those who may write, and keep them apart.
FlagInv ==
  /\ \A a, b \in Actors : HasMut(a) /\ HasMut(b) => a = b
  /\ \A a, b \in Actors : Updating(a) /\ Updating(b) => a = b
  /\ \A a \in Actors : HasMut(a) => "IN_MUT_USE" \in flags
  /\ \A a \in Actors : Updating(a) => "UPDATING_VALUE" \in flags
  /\ \A a, b \in Actors : ~(HasMut(a) /\ Updating(b))
  /\ \A a, b \in Actors : Taking(a) => ~HasMut(b) /\ ~Updating(b)

\* The flag of the deleted tells of the one who removes.
RemoveInv ==
  /\ \A a, b \in Actors : Removing(a) /\ Removing(b) => a = b
  /\ \A a \in Actors : Removing(a) =>
       "DELETED" \in flags /\ "LINKING" \notin flags /\ place \notin {"garbage", "given_up"}
  /\ place = "garbage" => "DELETED" \in flags

\* Where the flag says that key and value were taken, they were, or are about to be.
Taken == kv # "here" \/ \E a \in Actors : Taking(a)
TakenInv ==
  /\ "KV_TAKEN" \in flags => Taken
  /\ \A a \in Actors : "KV_TAKEN" \in seen[a] => Taken
  /\ freed => kv # "here"

IInv == Types /\ PlaceInv /\ CountInv /\ FlagInv /\ RemoveInv /\ TakenInv
-----------------------------------------------------------------------------
\* Each step of a user keeps the types.
LEMMA TypeStep ==
  ASSUME Types,
         NEW a \in Actors, Get(a) \/ Drop(a) \/ Update(a) \/ Remove(a)
  PROVE  Types'
<1>1. CASE a \in Getters \cup Mutators /\ Find(a, "get")
  BY <1>1 DEF Find, Goto, Types, Labels, Pinned, Referring, Flags
<1>2. CASE GetLoad(a)
  BY <1>2 DEF GetLoad, LoadAnd, Goto, Types, Labels, Pinned, Referring, Flags
<1>3. CASE GetCas(a)
  BY <1>3 DEF GetCas, CasFlags, Forget, Goto, Types, Labels, Pinned, Referring, Flags
<1>4. CASE GetRef(a)
  BY <1>4 DEF GetRef, Goto, Types, Labels, Pinned, Referring, Flags
<1>5. CASE DropLoad(a)
  BY <1>5 DEF DropLoad, LoadAnd, Goto, Types, Labels, Pinned, Referring, Flags
<1>6. CASE DropRefcnt(a)
  BY <1>6 DEF DropRefcnt, Goto, Types, Labels, Pinned, Referring, Flags
<1>7. CASE DropCas(a)
  BY <1>7 DEF DropCas, CasFlags, Forget, Goto, Types, Labels, Pinned, Referring, Flags
<1>8. CASE DropRef(a)
  BY <1>8 DEF DropRef, Forget, Goto, Types, Labels, Pinned, Referring, Flags
<1>9. CASE Free(a)
  BY <1>9 DEF Free, Forget, Goto, Types, Labels, Pinned, Referring, Flags
<1>10. CASE a \in Updaters /\ Find(a, "update")
  BY <1>10 DEF Find, Goto, Types, Labels, Pinned, Referring, Flags
<1>11. CASE UpdateLoad(a)
  BY <1>11 DEF UpdateLoad, LoadAnd, Goto, Types, Labels, Pinned, Referring, Flags
<1>12. CASE UpdateCas(a)
  BY <1>12 DEF UpdateCas, CasFlags, Forget, Goto, Types, Labels, Pinned, Referring, Flags
<1>13. CASE Swap(a)
  BY <1>13 DEF Swap, Goto, Types, Labels, Pinned, Referring, Flags
<1>14. CASE Unset(a)
  BY <1>14 DEF Unset, Goto, Types, Labels, Pinned, Referring, Flags
<1>15. CASE a \in Removers \cup Forgetters /\ Find(a, "remove")
  BY <1>15 DEF Find, Goto, Types, Labels, Pinned, Referring, Flags
<1>16. CASE RemoveLoad(a)
  BY <1>16 DEF RemoveLoad, LoadAnd, Goto, Types, Labels, Pinned, Referring, Flags
<1>17. CASE RemoveCas(a)
  BY <1>17 DEF RemoveCas, CasFlags, Forget, Goto, Types, Labels, Pinned, Referring, Flags
<1>18. CASE Unlink(a)
  BY <1>18 DEF Unlink, Goto, Types, Labels, Pinned, Referring, Flags
<1>19. CASE TakeKV(a)
  BY <1>19 DEF TakeKV, Goto, Types, Labels, Pinned, Referring, Flags
<1>20. CASE PutGarbage(a)
  BY <1>20 DEF PutGarbage, Goto, Types, Labels, Pinned, Referring, Flags
<1> QED BY <1>1, <1>2, <1>3, <1>4, <1>5, <1>6, <1>7, <1>8, <1>9, <1>10,
          <1>11, <1>12, <1>13, <1>14, <1>15, <1>16, <1>17, <1>18, <1>19, <1>20
          DEF Get, Drop, Update, Remove

\* A user is only where its kind of call takes it, and what it saw lets it go on.
LEMMA PlaceStep ==
  ASSUME Types, PlaceInv,
         NEW a \in Actors, Get(a) \/ Drop(a) \/ Update(a) \/ Remove(a)
  PROVE  PlaceInv'
<1>1. CASE a \in Getters \cup Mutators /\ Find(a, "get")
  BY <1>1 DEF Find, Goto, Types, PlaceInv, InUse
<1>2. CASE GetLoad(a)
  BY <1>2 DEF GetLoad, LoadAnd, Goto, Types, PlaceInv, InUse
<1>3. CASE GetCas(a)
  BY <1>3 DEF GetCas, CasFlags, Forget, Goto, Types, PlaceInv, InUse
<1>4. CASE GetRef(a)
  BY <1>4 DEF GetRef, Goto, Types, PlaceInv, InUse
<1>5. CASE DropLoad(a)
  BY <1>5 DEF DropLoad, LoadAnd, Goto, Types, PlaceInv, InUse
<1>6. CASE DropRefcnt(a)
  BY <1>6 DEF DropRefcnt, Goto, Types, PlaceInv, InUse
<1>7. CASE DropCas(a)
  BY <1>7 DEF DropCas, CasFlags, Forget, Goto, Types, PlaceInv, InUse
<1>8. CASE DropRef(a)
  BY <1>8 DEF DropRef, Forget, Goto, Types, PlaceInv, InUse
<1>9. CASE Free(a)
  BY <1>9 DEF Free, Forget, Goto, Types, PlaceInv, InUse
<1>10. CASE a \in Updaters /\ Find(a, "update")
  BY <1>10 DEF Find, Goto, Types, PlaceInv, InUse
<1>11. CASE UpdateLoad(a)
  BY <1>11 DEF UpdateLoad, LoadAnd, Goto, Types, PlaceInv, InUse
<1>12. CASE UpdateCas(a)
  BY <1>12 DEF UpdateCas, CasFlags, Forget, Goto, Types, PlaceInv, InUse
<1>13. CASE Swap(a)
  BY <1>13 DEF Swap, Goto, Types, PlaceInv, InUse
<1>14. CASE Unset(a)
  BY <1>14 DEF Unset, Goto, Types, PlaceInv, InUse
<1>15. CASE a \in Removers \cup Forgetters /\ Find(a, "remove")
  BY <1>15 DEF Find, Goto, Types, PlaceInv, InUse
<1>16. CASE RemoveLoad(a)
  BY <1>16, ActorsAssumption DEF RemoveLoad, LoadAnd, Goto, Types, PlaceInv, InUse
<1>17. CASE RemoveCas(a)
  BY <1>17 DEF RemoveCas, CasFlags, Forget, Goto, Types, PlaceInv, InUse
<1>18. CASE Unlink(a)
  BY <1>18 DEF Unlink, Goto, Types, PlaceInv, InUse
<1>19. CASE TakeKV(a)
  BY <1>19 DEF TakeKV, Goto, Types, PlaceInv, InUse
<1>20. CASE PutGarbage(a)
  BY <1>20 DEF PutGarbage, Goto, Types, PlaceInv, InUse
<1> QED BY <1>1, <1>2, <1>3, <1>4, <1>5, <1>6, <1>7, <1>8, <1>9, <1>10,
          <1>11, <1>12, <1>13, <1>14, <1>15, <1>16, <1>17, <1>18, <1>19, <1>20
          DEF Get, Drop, Update, Remove

LEMMA RefsFinite ==
  /\ IsFiniteSet(Refs) /\ Cardinality(Refs) \in 0 .. Cardinality(Actors)
  /\ Cardinality(Refs) = 0 <=> Refs = {}
<1>1. Refs \in SUBSET Actors
  BY DEF Refs
<1>2. IsFiniteSet(Actors)
  BY ActorsAssumption
<1>3. IsFiniteSet(Refs) /\ Cardinality(Refs) <= Cardinality(Actors)
  BY <1>1, <1>2, FS_Subset
<1>4. Cardinality(Refs) \in Nat /\ Cardinality(Actors) \in Nat
  BY <1>2, <1>3, FS_CardinalityType
<1>5. Cardinality(Refs) = 0 <=> Refs = {}
  BY <1>3, FS_EmptySet
<1> QED BY <1>3, <1>4, <1>5

\* The references counted change with the count.
LEMMA CountStep ==
  ASSUME Types, PlaceInv, CountInv,
         NEW a \in Actors, Get(a) \/ Drop(a) \/ Update(a) \/ Remove(a)
  PROVE  CountInv'
<1>1. CASE a \in Getters \cup Mutators /\ Find(a, "get")
  <2>1. Refs' = Refs
    BY <1>1, ActorsAssumption DEF Find, Goto, Types, CountInv, PlaceInv, Refs, Referenced,
         Pinned, Referring, Actors
  <2> QED BY <1>1, <2>1, ActorsAssumption DEF Find, Goto, Types, CountInv, PlaceInv, Pinned,
       Actors
<1>2. CASE GetLoad(a)
  <2>1. Refs' = Refs
    BY <1>2, ActorsAssumption DEF GetLoad, LoadAnd, Goto, Types, CountInv, PlaceInv, Refs,
         Referenced, Pinned, Referring, Actors
  <2> QED BY <1>2, <2>1, ActorsAssumption DEF GetLoad, LoadAnd, Goto, Types, CountInv,
       PlaceInv, Pinned, Actors
<1>3. CASE GetCas(a)
  <2>1. Refs' = Refs
    BY <1>3, ActorsAssumption DEF GetCas, CasFlags, Forget, Goto, Types, CountInv, PlaceInv,
         Refs, Referenced, Pinned, Referring, Actors
  <2> QED BY <1>3, <2>1, ActorsAssumption DEF GetCas, CasFlags, Forget, Goto, Types, CountInv,
       PlaceInv, Pinned, Actors
<1>4. CASE GetRef(a)
  <2>1. Refs' = Refs \cup {a} /\ a \notin Refs
    BY <1>4, ActorsAssumption DEF GetRef, Goto, Types, CountInv, PlaceInv, Refs, Referenced,
         Pinned,
       Referring, Actors
  <2>2. Collector \in Refs
    BY <1>4 DEF GetRef, CountInv, Refs, Referenced, Pinned, Actors
  <2>3. refcnt' = Cardinality(Refs')
    BY <1>4, <2>1, RefsFinite, FS_AddElement DEF GetRef, CountInv
  <2> QED BY <1>4, <2>1, <2>2, <2>3 DEF GetRef, Goto, Types, CountInv, Pinned
<1>5. CASE DropLoad(a)
  <2>1. Refs' = Refs
    BY <1>5, ActorsAssumption DEF DropLoad, LoadAnd, Goto, Types, CountInv, PlaceInv, Refs,
         Referenced, Pinned, Referring, Actors
  <2> QED BY <1>5, <2>1, ActorsAssumption DEF DropLoad, LoadAnd, Goto, Types, CountInv,
       PlaceInv, Pinned, Actors
<1>6. CASE DropRefcnt(a)
  <2>1. Refs' = Refs
    BY <1>6, ActorsAssumption DEF DropRefcnt, Goto, Types, CountInv, PlaceInv, Refs,
         Referenced, Pinned, Referring, Actors
  <2> QED BY <1>6, <2>1, ActorsAssumption DEF DropRefcnt, Goto, Types, CountInv, PlaceInv,
       Pinned, Actors
<1>7. CASE DropCas(a)
  <2>1. Refs' = Refs
    BY <1>7, ActorsAssumption DEF DropCas, CasFlags, Forget, Goto, Types, CountInv, PlaceInv,
         Refs, Referenced, Pinned, Referring, Actors
  <2> QED BY <1>7, <2>1, ActorsAssumption DEF DropCas, CasFlags, Forget, Goto, Types, CountInv,
       PlaceInv, Pinned, Actors
<1>8. CASE DropRef(a)
  <2>1. a \in Refs /\ Refs' = Refs \ {a}
    BY <1>8 DEF DropRef, Forget, Goto, Types, CountInv, Refs, Referenced, Referring
  <2>2. refcnt' = Cardinality(Refs')
    BY <1>8, <2>1, RefsFinite, FS_RemoveElement DEF DropRef, CountInv
  <2>3. refcnt = 1 <=> Refs' = {}
    BY <1>8, <2>1, <2>2, RefsFinite, FS_RemoveElement, FS_EmptySet, FS_CardinalityType
       DEF DropRef, CountInv
  <2>4. ~freed /\ \A b \in Actors : pc[b] # "free"
    BY <2>1 DEF CountInv
  <2> QED BY <1>8, <2>1, <2>2, <2>3, <2>4
          DEF DropRef, Forget, Goto, Types, CountInv, Pinned, Actors
<1>9. CASE Free(a)
  <2>1. Refs' = Refs
    BY <1>9, ActorsAssumption DEF Free, Forget, Goto, Types, CountInv, PlaceInv, Refs,
         Referenced, Pinned, Referring, Actors
  <2> QED BY <1>9, <2>1, ActorsAssumption DEF Free, Forget, Goto, Types, CountInv, PlaceInv,
       Pinned, Actors
<1>10. CASE a \in Updaters /\ Find(a, "update")
  <2>1. Refs' = Refs
    BY <1>10, ActorsAssumption DEF Find, Goto, Types, CountInv, PlaceInv, Refs, Referenced,
         Pinned, Referring, Actors
  <2> QED BY <1>10, <2>1, ActorsAssumption DEF Find, Goto, Types, CountInv, PlaceInv, Pinned,
       Actors
<1>11. CASE UpdateLoad(a)
  <2>1. Refs' = Refs
    BY <1>11, ActorsAssumption DEF UpdateLoad, LoadAnd, Goto, Types, CountInv, PlaceInv, Refs,
         Referenced, Pinned, Referring, Actors
  <2> QED BY <1>11, <2>1, ActorsAssumption DEF UpdateLoad, LoadAnd, Goto, Types, CountInv,
       PlaceInv, Pinned, Actors
<1>12. CASE UpdateCas(a)
  <2>1. Refs' = Refs
    BY <1>12, ActorsAssumption DEF UpdateCas, CasFlags, Forget, Goto, Types, CountInv,
         PlaceInv, Refs, Referenced, Pinned, Referring, Actors
  <2> QED BY <1>12, <2>1, ActorsAssumption DEF UpdateCas, CasFlags, Forget, Goto, Types,
       CountInv, PlaceInv, Pinned, Actors
<1>13. CASE Swap(a)
  <2>1. Refs' = Refs
    BY <1>13, ActorsAssumption DEF Swap, Goto, Types, CountInv, PlaceInv, Refs, Referenced,
         Pinned, Referring, Actors
  <2> QED BY <1>13, <2>1, ActorsAssumption DEF Swap, Goto, Types, CountInv, PlaceInv, Pinned,
       Actors
<1>14. CASE Unset(a)
  <2>1. Refs' = Refs
    BY <1>14, ActorsAssumption DEF Unset, Goto, Types, CountInv, PlaceInv, Refs, Referenced,
         Pinned, Referring, Actors
  <2> QED BY <1>14, <2>1, ActorsAssumption DEF Unset, Goto, Types, CountInv, PlaceInv, Pinned,
       Actors
<1>15. CASE a \in Removers \cup Forgetters /\ Find(a, "remove")
  <2>1. Refs' = Refs
    BY <1>15, ActorsAssumption DEF Find, Goto, Types, CountInv, PlaceInv, Refs, Referenced,
         Pinned, Referring, Actors
  <2> QED BY <1>15, <2>1, ActorsAssumption DEF Find, Goto, Types, CountInv, PlaceInv, Pinned,
       Actors
<1>16. CASE RemoveLoad(a)
  <2>1. Refs' = Refs
    BY <1>16, ActorsAssumption DEF RemoveLoad, LoadAnd, Goto, Types, CountInv, PlaceInv, Refs,
         Referenced, Pinned, Referring, Actors
  <2> QED BY <1>16, <2>1, ActorsAssumption DEF RemoveLoad, LoadAnd, Goto, Types, CountInv,
       PlaceInv, Pinned, Actors
<1>17. CASE RemoveCas(a)
  <2>1. Refs' = Refs
    BY <1>17, ActorsAssumption DEF RemoveCas, CasFlags, Forget, Goto, Types, CountInv,
         PlaceInv, Refs, Referenced, Pinned, Referring, Actors
  <2> QED BY <1>17, <2>1, ActorsAssumption DEF RemoveCas, CasFlags, Forget, Goto, Types,
       CountInv, PlaceInv, Pinned, Actors
<1>18. CASE Unlink(a)
  <2>1. Refs' = Refs
    BY <1>18, ActorsAssumption DEF Unlink, Goto, Types, CountInv, PlaceInv, Refs, Referenced,
         Pinned, Referring, Actors
  <2> QED BY <1>18, <2>1, ActorsAssumption DEF Unlink, Goto, Types, CountInv, PlaceInv, Pinned,
       Actors
<1>19. CASE TakeKV(a)
  <2>1. Refs' = Refs
    BY <1>19, ActorsAssumption DEF TakeKV, Goto, Types, CountInv, PlaceInv, Refs, Referenced,
         Pinned, Referring, Actors
  <2> QED BY <1>19, <2>1, ActorsAssumption DEF TakeKV, Goto, Types, CountInv, PlaceInv, Pinned,
       Actors
<1>20. CASE PutGarbage(a)
  <2>1. Refs' = Refs
    BY <1>20, ActorsAssumption DEF PutGarbage, Goto, Types, CountInv, PlaceInv, Refs,
         Referenced, Pinned, Referring, Actors
  <2> QED BY <1>20, <2>1, ActorsAssumption DEF PutGarbage, Goto, Types, CountInv, PlaceInv,
       Pinned, Actors
<1> QED BY <1>1, <1>2, <1>3, <1>4, <1>5, <1>6, <1>7, <1>8, <1>9, <1>10,
          <1>11, <1>12, <1>13, <1>14, <1>15, <1>16, <1>17, <1>18, <1>19, <1>20
          DEF Get, Drop, Update, Remove

\* Who writes has set its flag, and found the others clear.
LEMMA FlagStep ==
  ASSUME Types, PlaceInv, FlagInv, RemoveInv,
         NEW a \in Actors, Get(a) \/ Drop(a) \/ Update(a) \/ Remove(a)
  PROVE  FlagInv'
<1>1. CASE a \in Getters \cup Mutators /\ Find(a, "get")
  BY <1>1 DEF Find, Goto, Types, PlaceInv, FlagInv, RemoveInv, HasMut, Updating, Removing,
       Taking, InUse, Flags
<1>2. CASE GetLoad(a)
  BY <1>2, ActorsAssumption DEF GetLoad, LoadAnd, Goto, Types, PlaceInv, FlagInv, RemoveInv,
       HasMut, Updating, Removing, Taking, InUse, Flags
<1>3. CASE GetCas(a)
  BY <1>3 DEF GetCas, CasFlags, Forget, Goto, Types, PlaceInv, FlagInv, RemoveInv, HasMut,
       Updating, Removing, Taking, InUse, Flags
<1>4. CASE GetRef(a)
  BY <1>4 DEF GetRef, Goto, Types, PlaceInv, FlagInv, RemoveInv, HasMut, Updating, Removing,
       Taking, InUse, Flags
<1>5. CASE DropLoad(a)
  BY <1>5 DEF DropLoad, LoadAnd, Goto, Types, PlaceInv, FlagInv, RemoveInv, HasMut, Updating,
       Removing, Taking, InUse, Flags
<1>6. CASE DropRefcnt(a)
  BY <1>6, ActorsAssumption DEF DropRefcnt, Goto, Types, PlaceInv, FlagInv, RemoveInv, HasMut,
       Updating, Removing, Taking, InUse, Flags
<1>7. CASE DropCas(a)
  BY <1>7 DEF DropCas, CasFlags, Forget, Goto, Types, PlaceInv, FlagInv, RemoveInv, HasMut,
       Updating, Removing, Taking, InUse, Flags
<1>8. CASE DropRef(a)
  BY <1>8 DEF DropRef, Forget, Goto, Types, PlaceInv, FlagInv, RemoveInv, HasMut, Updating,
       Removing, Taking, InUse, Flags
<1>9. CASE Free(a)
  BY <1>9 DEF Free, Forget, Goto, Types, PlaceInv, FlagInv, RemoveInv, HasMut, Updating,
       Removing, Taking, InUse, Flags
<1>10. CASE a \in Updaters /\ Find(a, "update")
  BY <1>10 DEF Find, Goto, Types, PlaceInv, FlagInv, RemoveInv, HasMut, Updating, Removing,
       Taking, InUse, Flags
<1>11. CASE UpdateLoad(a)
  BY <1>11 DEF UpdateLoad, LoadAnd, Goto, Types, PlaceInv, FlagInv, RemoveInv, HasMut,
       Updating, Removing, Taking, InUse, Flags
<1>12. CASE UpdateCas(a)
  BY <1>12 DEF UpdateCas, CasFlags, Forget, Goto, Types, PlaceInv, FlagInv, RemoveInv, HasMut,
       Updating, Removing, Taking, InUse, Flags
<1>13. CASE Swap(a)
  BY <1>13 DEF Swap, Goto, Types, PlaceInv, FlagInv, RemoveInv, HasMut, Updating, Removing,
       Taking, InUse, Flags
<1>14. CASE Unset(a)
  BY <1>14 DEF Unset, Goto, Types, PlaceInv, FlagInv, RemoveInv, HasMut, Updating, Removing,
       Taking, InUse, Flags
<1>15. CASE a \in Removers \cup Forgetters /\ Find(a, "remove")
  BY <1>15 DEF Find, Goto, Types, PlaceInv, FlagInv, RemoveInv, HasMut, Updating, Removing,
       Taking, InUse, Flags
<1>16. CASE RemoveLoad(a)
  BY <1>16 DEF RemoveLoad, LoadAnd, Goto, Types, PlaceInv, FlagInv, RemoveInv, HasMut,
       Updating, Removing, Taking, InUse, Flags
<1>17. CASE RemoveCas(a)
  BY <1>17 DEF RemoveCas, CasFlags, Forget, Goto, Types, PlaceInv, FlagInv, RemoveInv, HasMut,
       Updating, Removing, Taking, InUse, Flags
<1>18. CASE Unlink(a)
  BY <1>18 DEF Unlink, Goto, Types, PlaceInv, FlagInv, RemoveInv, HasMut, Updating, Removing,
       Taking, InUse, Flags
<1>19. CASE TakeKV(a)
  BY <1>19 DEF TakeKV, Goto, Types, PlaceInv, FlagInv, RemoveInv, HasMut, Updating, Removing,
       Taking, InUse, Flags
<1>20. CASE PutGarbage(a)
  BY <1>20 DEF PutGarbage, Goto, Types, PlaceInv, FlagInv, RemoveInv, HasMut, Updating,
       Removing, Taking, InUse, Flags
<1> QED BY <1>1, <1>2, <1>3, <1>4, <1>5, <1>6, <1>7, <1>8, <1>9, <1>10,
          <1>11, <1>12, <1>13, <1>14, <1>15, <1>16, <1>17, <1>18, <1>19, <1>20
          DEF Get, Drop, Update, Remove

\* One exchange sets DELETED, and no other step clears it.
LEMMA RemoveStep ==
  ASSUME Types, PlaceInv, CountInv, RemoveInv,
         NEW a \in Actors, Get(a) \/ Drop(a) \/ Update(a) \/ Remove(a)
  PROVE  RemoveInv'
<1>1. CASE a \in Getters \cup Mutators /\ Find(a, "get")
  BY <1>1 DEF Find, Goto, Types, PlaceInv, CountInv, RemoveInv, Removing, Pinned
<1>2. CASE GetLoad(a)
  BY <1>2 DEF GetLoad, LoadAnd, Goto, Types, PlaceInv, CountInv, RemoveInv, Removing, Pinned
<1>3. CASE GetCas(a)
  BY <1>3 DEF GetCas, CasFlags, Forget, Goto, Types, PlaceInv, CountInv, RemoveInv, Removing,
       Pinned
<1>4. CASE GetRef(a)
  BY <1>4 DEF GetRef, Goto, Types, PlaceInv, CountInv, RemoveInv, Removing, Pinned
<1>5. CASE DropLoad(a)
  BY <1>5 DEF DropLoad, LoadAnd, Goto, Types, PlaceInv, CountInv, RemoveInv, Removing, Pinned
<1>6. CASE DropRefcnt(a)
  BY <1>6 DEF DropRefcnt, Goto, Types, PlaceInv, CountInv, RemoveInv, Removing, Pinned
<1>7. CASE DropCas(a)
  BY <1>7 DEF DropCas, CasFlags, Forget, Goto, Types, PlaceInv, CountInv, RemoveInv, Removing,
       Pinned
<1>8. CASE DropRef(a)
  BY <1>8 DEF DropRef, Forget, Goto, Types, PlaceInv, CountInv, RemoveInv, Removing, Pinned
<1>9. CASE Free(a)
  BY <1>9 DEF Free, Forget, Goto, Types, PlaceInv, CountInv, RemoveInv, Removing, Pinned
<1>10. CASE a \in Updaters /\ Find(a, "update")
  BY <1>10 DEF Find, Goto, Types, PlaceInv, CountInv, RemoveInv, Removing, Pinned
<1>11. CASE UpdateLoad(a)
  BY <1>11 DEF UpdateLoad, LoadAnd, Goto, Types, PlaceInv, CountInv, RemoveInv, Removing, Pinned
<1>12. CASE UpdateCas(a)
  BY <1>12 DEF UpdateCas, CasFlags, Forget, Goto, Types, PlaceInv, CountInv, RemoveInv,
       Removing, Pinned
<1>13. CASE Swap(a)
  BY <1>13 DEF Swap, Goto, Types, PlaceInv, CountInv, RemoveInv, Removing, Pinned
<1>14. CASE Unset(a)
  BY <1>14 DEF Unset, Goto, Types, PlaceInv, CountInv, RemoveInv, Removing, Pinned
<1>15. CASE a \in Removers \cup Forgetters /\ Find(a, "remove")
  BY <1>15 DEF Find, Goto, Types, PlaceInv, CountInv, RemoveInv, Removing, Pinned
<1>16. CASE RemoveLoad(a)
  BY <1>16 DEF RemoveLoad, LoadAnd, Goto, Types, PlaceInv, CountInv, RemoveInv, Removing, Pinned
<1>17. CASE RemoveCas(a)
  BY <1>17 DEF RemoveCas, CasFlags, Forget, Goto, Types, PlaceInv, CountInv, RemoveInv,
       Removing, Pinned
<1>18. CASE Unlink(a)
  BY <1>18 DEF Unlink, Goto, Types, PlaceInv, CountInv, RemoveInv, Removing, Pinned
<1>19. CASE TakeKV(a)
  BY <1>19 DEF TakeKV, Goto, Types, PlaceInv, CountInv, RemoveInv, Removing, Pinned
<1>20. CASE PutGarbage(a)
  BY <1>20 DEF PutGarbage, Goto, Types, PlaceInv, CountInv, RemoveInv, Removing, Pinned
<1> QED BY <1>1, <1>2, <1>3, <1>4, <1>5, <1>6, <1>7, <1>8, <1>9, <1>10,
          <1>11, <1>12, <1>13, <1>14, <1>15, <1>16, <1>17, <1>18, <1>19, <1>20
          DEF Get, Drop, Update, Remove

\* KV_TAKEN is set by the remove that takes, and a node is freed with the rest.
LEMMA TakenStep ==
  ASSUME Types, PlaceInv, CountInv, TakenInv,
         NEW a \in Actors, Get(a) \/ Drop(a) \/ Update(a) \/ Remove(a)
  PROVE  TakenInv'
<1>1. CASE a \in Getters \cup Mutators /\ Find(a, "get")
  BY <1>1 DEF Find, Goto, Types, PlaceInv, CountInv, TakenInv, Taken, Taking, Pinned,
       Referring, Refs, Referenced, Actors
<1>2. CASE GetLoad(a)
  BY <1>2 DEF GetLoad, LoadAnd, Goto, Types, PlaceInv, CountInv, TakenInv, Taken, Taking,
       Pinned, Referring, Refs, Referenced, Actors
<1>3. CASE GetCas(a)
  BY <1>3 DEF GetCas, CasFlags, Forget, Goto, Types, PlaceInv, CountInv, TakenInv, Taken,
       Taking, Pinned, Referring, Refs, Referenced, Actors
<1>4. CASE GetRef(a)
  BY <1>4 DEF GetRef, Goto, Types, PlaceInv, CountInv, TakenInv, Taken, Taking, Pinned,
       Referring, Refs, Referenced, Actors
<1>5. CASE DropLoad(a)
  BY <1>5 DEF DropLoad, LoadAnd, Goto, Types, PlaceInv, CountInv, TakenInv, Taken, Taking,
       Pinned, Referring, Refs, Referenced, Actors
<1>6. CASE DropRefcnt(a)
  BY <1>6 DEF DropRefcnt, Goto, Types, PlaceInv, CountInv, TakenInv, Taken, Taking, Pinned,
       Referring, Refs, Referenced, Actors
<1>7. CASE DropCas(a)
  BY <1>7 DEF DropCas, CasFlags, Forget, Goto, Types, PlaceInv, CountInv, TakenInv, Taken,
       Taking, Pinned, Referring, Refs, Referenced, Actors
<1>8. CASE DropRef(a)
  BY <1>8 DEF DropRef, Forget, Goto, Types, PlaceInv, CountInv, TakenInv, Taken, Taking,
       Pinned, Referring, Refs, Referenced, Actors
<1>9. CASE Free(a)
  BY <1>9 DEF Free, Forget, Goto, Types, PlaceInv, CountInv, TakenInv, Taken, Taking, Pinned,
       Referring, Refs, Referenced, Actors
<1>10. CASE a \in Updaters /\ Find(a, "update")
  BY <1>10 DEF Find, Goto, Types, PlaceInv, CountInv, TakenInv, Taken, Taking, Pinned,
       Referring, Refs, Referenced, Actors
<1>11. CASE UpdateLoad(a)
  BY <1>11 DEF UpdateLoad, LoadAnd, Goto, Types, PlaceInv, CountInv, TakenInv, Taken, Taking,
       Pinned, Referring, Refs, Referenced, Actors
<1>12. CASE UpdateCas(a)
  BY <1>12 DEF UpdateCas, CasFlags, Forget, Goto, Types, PlaceInv, CountInv, TakenInv, Taken,
       Taking, Pinned, Referring, Refs, Referenced, Actors
<1>13. CASE Swap(a)
  BY <1>13 DEF Swap, Goto, Types, PlaceInv, CountInv, TakenInv, Taken, Taking, Pinned,
       Referring, Refs, Referenced, Actors
<1>14. CASE Unset(a)
  BY <1>14 DEF Unset, Goto, Types, PlaceInv, CountInv, TakenInv, Taken, Taking, Pinned,
       Referring, Refs, Referenced, Actors
<1>15. CASE a \in Removers \cup Forgetters /\ Find(a, "remove")
  BY <1>15 DEF Find, Goto, Types, PlaceInv, CountInv, TakenInv, Taken, Taking, Pinned,
       Referring, Refs, Referenced, Actors
<1>16. CASE RemoveLoad(a)
  BY <1>16 DEF RemoveLoad, LoadAnd, Goto, Types, PlaceInv, CountInv, TakenInv, Taken, Taking,
       Pinned, Referring, Refs, Referenced, Actors
<1>17. CASE RemoveCas(a)
  BY <1>17 DEF RemoveCas, CasFlags, Forget, Goto, Types, PlaceInv, CountInv, TakenInv, Taken,
       Taking, Pinned, Referring, Refs, Referenced, Actors
<1>18. CASE Unlink(a)
  BY <1>18 DEF Unlink, Goto, Types, PlaceInv, CountInv, TakenInv, Taken, Taking, Pinned,
       Referring, Refs, Referenced, Actors
<1>19. CASE TakeKV(a)
  BY <1>19 DEF TakeKV, Goto, Types, PlaceInv, CountInv, TakenInv, Taken, Taking, Pinned,
       Referring, Refs, Referenced, Actors
<1>20. CASE PutGarbage(a)
  BY <1>20 DEF PutGarbage, Goto, Types, PlaceInv, CountInv, TakenInv, Taken, Taking, Pinned,
       Referring, Refs, Referenced, Actors
<1> QED BY <1>1, <1>2, <1>3, <1>4, <1>5, <1>6, <1>7, <1>8, <1>9, <1>10,
          <1>11, <1>12, <1>13, <1>14, <1>15, <1>16, <1>17, <1>18, <1>19, <1>20
          DEF Get, Drop, Update, Remove

-----------------------------------------------------------------------------
LEMMA InitInv == Init => IInv
<1> SUFFICES ASSUME Init PROVE IInv
  OBVIOUS
<1> USE DEF Init
<1>1. Types
  BY DEF Types, Labels, Flags
<1>2. PlaceInv
  BY DEF PlaceInv
<1>3. CountInv
  <2>1. Refs = {Collector}
    BY DEF Refs, Referenced, Referring, Actors
  <2> QED BY <2>1, FS_Singleton DEF CountInv, Pinned, Actors
<1>4. FlagInv
  BY DEF FlagInv, HasMut, Updating, Taking
<1>5. RemoveInv
  BY DEF RemoveInv, Removing
<1>6. TakenInv
  BY DEF TakenInv
<1> QED BY <1>1, <1>2, <1>3, <1>4, <1>5, <1>6 DEF IInv

\* The insert that ends clears LINKING, which nobody relies on to be set.
LEMMA LinkedStep == IInv /\ FinishLinking => IInv'
<1> SUFFICES ASSUME IInv, FinishLinking PROVE IInv'
  OBVIOUS
<1> USE DEF IInv, FinishLinking
<1>1. Types'
  BY DEF Types
<1>2. PlaceInv'
  BY DEF PlaceInv
<1>3. CountInv'
  <2>1. Refs' = Refs
    BY DEF Refs, Referenced
  <2> QED BY <2>1 DEF CountInv
<1>4. FlagInv'
  BY DEF FlagInv, HasMut, Updating, Taking
<1>5. RemoveInv'
  BY DEF RemoveInv, Removing
<1>6. TakenInv'
  BY DEF TakenInv, Taken, Taking
<1> QED BY <1>1, <1>2, <1>3, <1>4, <1>5, <1>6

\* The map's reference becomes the collector's, when nobody is inside a call.
LEMMA GiveUpStep == IInv /\ GiveUp => IInv'
<1> SUFFICES ASSUME IInv, GiveUp PROVE IInv'
  OBVIOUS
<1> USE DEF IInv, GiveUp, Goto
<1>0. Collector \in Actors /\ place # "given_up"
  BY DEF Actors
<1>1. Types'
  BY <1>0 DEF Types, Labels, Referring
<1>2. PlaceInv'
  BY <1>0 DEF Types, PlaceInv
<1>3. CountInv'
  <2>1. Refs' = Refs
    BY <1>0 DEF Types, Refs, Referenced, Referring
  <2> QED BY <1>0, <2>1 DEF Types, CountInv, Pinned
<1>4. FlagInv'
  <2>1. Collector \notin Mutators
    BY ActorsAssumption
  <2> QED BY <1>0, <2>1 DEF Types, FlagInv, HasMut, Updating, Taking
<1>5. RemoveInv'
  BY <1>0 DEF Types, RemoveInv, Removing, Pinned
<1>6. TakenInv'
  BY <1>0 DEF Types, TakenInv, Taken, Taking
<1> QED BY <1>1, <1>2, <1>3, <1>4, <1>5, <1>6

LEMMA NextInv == IInv /\ [Next]_vars => IInv'
<1> SUFFICES ASSUME IInv, [Next]_vars PROVE IInv'
  OBVIOUS
<1>1. CASE FinishLinking
  BY <1>1, LinkedStep
<1>2. CASE GiveUp
  BY <1>2, GiveUpStep
<1>3. CASE \E a \in Actors : Get(a) \/ Drop(a) \/ Update(a) \/ Remove(a)
  <2> PICK a \in Actors : Get(a) \/ Drop(a) \/ Update(a) \/ Remove(a)
    BY <1>3
  <2> QED BY TypeStep, PlaceStep, CountStep, FlagStep, RemoveStep, TakenStep DEF IInv
<1>4. CASE UNCHANGED vars
  BY <1>4 DEF vars, IInv, Types, PlaceInv, CountInv, Refs, Referenced, FlagInv, HasMut, Updating,
     RemoveInv, Removing, TakenInv, Taken, Taking
<1> QED BY <1>1, <1>2, <1>3, <1>4 DEF Next

\* The inductive invariant, which the theorems below follow from.
THEOREM Invariance == Spec => []IInv
  BY InitInv, NextInv, PTL DEF Spec

\* Every variable keeps its type; the count has the bound its width must hold.
THEOREM TypeCorrect == Spec => []TypeOK
<1>1. IInv => TypeOK
  BY RefsFinite DEF IInv, Types, CountInv, TypeOK
<1> QED BY <1>1, Invariance, PTL

\* A node is freed when no reference is left and nobody is inside a call
\* (EntryRef::drop), however long EntryRefs outlive the entry or the map.
THEOREM FreedUnused == Spec => []NoUseAfterFree
<1>1. IInv => NoUseAfterFree
  <2> SUFFICES ASSUME IInv, freed, NEW a \in Actors
               PROVE  pc[a] \notin Pinned \cup Referring \cup {"free"}
    BY DEF NoUseAfterFree, At
  <2>1. Refs = {}
    BY DEF IInv, CountInv
  <2>2. place = "given_up" /\ pc[a] \notin Referring
    BY <2>1 DEF Refs, Referenced, Actors
  <2> QED BY <2>2 DEF IInv, CountInv
<1> QED BY <1>1, Invariance, PTL

\* When the map and every user gave their references back the node has been freed,
\* and its key and value with it unless a remove took them.
THEOREM FreedAtLast == Spec => []NoLeak
<1>1. IInv => NoLeak
  <2> SUFFICES ASSUME IInv, place = "given_up", At(Referring \cup {"free"}) = {}
               PROVE  freed /\ kv # "here"
    BY DEF NoLeak
  <2>1. Refs = {} /\ \A a \in Actors : pc[a] # "free"
    BY DEF Refs, Referenced, At
  <2> QED BY <2>1 DEF IInv, CountInv, TakenInv
<1> QED BY <1>1, Invariance, PTL

\* The holder of a mutable EntryRef, an insert that swaps the value and a remove
\* that takes it keep each other out (get_entry_ref, insert, remove).
THEOREM OneWriter == Spec => []SingleWriter
<1>1. IInv => SingleWriter
  <2> SUFFICES ASSUME IInv, NEW a \in Writers, NEW b \in Writers PROVE a = b
    BY DEF SingleWriter
  <2>1. \A w \in Writers : w \in Actors /\ (HasMut(w) \/ Updating(w) \/ (Taking(w) /\ Removing(w)))
    BY DEF Writers, At, HasMut, Updating, Taking, Removing, IInv, PlaceInv
  <2> QED BY <2>1 DEF IInv, FlagInv, RemoveInv
<1> QED BY <1>1, Invariance, PTL

\* One remove or remove_wo_kv unlinks an entry and puts it into the garbage, after
\* the insert that links it.
THEOREM RemovedOnce == Spec => []OneRemoval
<1>1. IInv => OneRemoval
  BY DEF IInv, RemoveInv, Removing, OneRemoval, At
<1> QED BY <1>1, Invariance, PTL
===============================================================================
