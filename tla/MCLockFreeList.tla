---------------------------- MODULE MCLockFreeList ----------------------------
(***************************************************************************)
(* LockFreeList for TLC.                                                   *)
(***************************************************************************)
EXTENDS LockFreeList, TLC

AllWrite == {[t \in Threads |-> "writer"]}

AtMostOneOther ==
  {r \in [Threads -> {"writer", "reader", "clearer"}] :
     Cardinality({t \in Threads : r[t] # "writer"}) <= 1}

AnyWrite == [t \in Threads |-> {"insert", "remove"} \X Keys]

\* Each of the calls made by one of the threads.
Share(calls) == CHOOSE f \in [Threads -> SUBSET calls] :
  /\ \A t \in Threads : Cardinality(f[t]) = 1
  /\ UNION {f[t] : t \in Threads} = calls

\* Two insertions next to each other, and the removal of the second.
TwoInsertionsOneRemoval == Share({<<"insert", 1>>, <<"insert", 2>>, <<"remove", 2>>})

AllLists == [Keys -> 0 .. MaxHeight]

\* A high node, a low one behind it, and room for a third between them.
OneList == {<<2, 0, 1>>}

EmptyList == {[k \in Keys |-> 0]}

Symmetry == Permutations(Threads)
=============================================================================
