------------------------------ MODULE SkipListSets ------------------------------
(***************************************************************************)
(* The set relations of src/skiplist/set/ordinary.rs: iterators that walk  *)
(* two sets side by side, and comparisons of their ends.  A set is a map   *)
(* with values of no size, so self is the map of OrdinaryMap; of the other *)
(* set only what its queries tell is used, the ordered sequence o of its   *)
(* elements.  An iterator is the sequence of all that it yields.           *)
(***************************************************************************)
EXTENDS OrdinaryMap

\* Union: what each side is at, the smaller one first, equal ones once.
Union(s, o) ==
  LET rest[at \in (1 .. Len(s) + 1) \X (1 .. Len(o) + 1)] ==
        LET i == at[1]
            j == at[2]
        IN  IF i > Len(s) /\ j > Len(o) THEN <<>>
            ELSE IF j > Len(o) \/ (i <= Len(s) /\ s[i] < o[j]) THEN <<s[i]>> \o rest[<<i + 1, j>>]
            ELSE IF i > Len(s) \/ o[j] < s[i] THEN <<o[j]>> \o rest[<<i, j + 1>>]
            ELSE <<s[i]>> \o rest[<<i + 1, j + 1>>]
  IN  rest[<<1, 1>>]

\* SymmetricDifference: the same walk, equal ones skipped on both sides.
SymmetricDifference(s, o) ==
  LET rest[at \in (1 .. Len(s) + 1) \X (1 .. Len(o) + 1)] ==
        LET i == at[1]
            j == at[2]
        IN  IF i > Len(s) /\ j > Len(o) THEN <<>>
            ELSE IF j > Len(o) \/ (i <= Len(s) /\ s[i] < o[j]) THEN <<s[i]>> \o rest[<<i + 1, j>>]
            ELSE IF i > Len(s) \/ o[j] < s[i] THEN <<o[j]>> \o rest[<<i, j + 1>>]
            ELSE rest[<<i + 1, j + 1>>]
  IN  rest[<<1, 1>>]

\* Difference: contains is asked of the other set for each element.
Kept(s, S) ==
  LET rest[i \in 1 .. Len(s) + 1] ==
        IF i > Len(s) THEN <<>>
        ELSE IF s[i] \in S THEN <<s[i]>> \o rest[i + 1]
        ELSE rest[i + 1]
  IN  rest[1]

Difference(s, o) == Kept(s, {k \in Keys : \A j \in DOMAIN o : o[j] # k})

\* Intersection: two ranges walked until one of them ends.
Common(s, o) ==
  LET rest[at \in (1 .. Len(s) + 1) \X (1 .. Len(o) + 1)] ==
        LET i == at[1]
            j == at[2]
        IN  IF i > Len(s) \/ j > Len(o) THEN <<>>
            ELSE IF s[i] < o[j] THEN rest[<<i + 1, j>>]
            ELSE IF o[j] < s[i] THEN rest[<<i, j + 1>>]
            ELSE <<s[i]>> \o rest[<<i + 1, j + 1>>]
  IN  rest[<<1, 1>>]

\* The ranges go from the greater first element to the smaller last one.
Intersection(s, o) ==
  LET from == IF s[1] > o[1] THEN s[1] ELSE o[1]
      to == IF SearchLast < o[Len(o)] THEN SearchLast ELSE o[Len(o)]
      included(k) == [kind |-> "included", key |-> k]
  IN  IF s = <<>> \/ o = <<>> THEN <<>>
      ELSE Common(RangeOf(included(from), included(to)),
                  Kept(o, from .. to))

\* is_disjoint, is_subset and is_superset look at the ends of both sets alone.
IsDisjoint(s, o) ==
  \/ s = <<>> \/ o = <<>>
  \/ s[1] > o[Len(o)] \/ SearchLast < o[1]

IsSubset(s, o) ==
  s # <<>> => o # <<>> /\ s[1] >= o[1] /\ SearchLast <= o[Len(o)]

IsSuperset(s, o) ==
  o # <<>> => s # <<>> /\ s[1] <= o[1] /\ SearchLast >= o[Len(o)]

-----------------------------------------------------------------------------
(* Properties.                                                             *)

\* The elements of any other set, in order.
Orderings ==
  {o \in UNION {[1 .. n -> Keys] : n \in 0 .. N} : \A i, j \in DOMAIN o : i < j => o[i] < o[j]}

\* The iterators yield in order, and once, what their names say of the two sets,
\* wherever each begins and ends and also when their ranges do not meet.  Of the
\* comparisons, which see ends only, one direction holds: sets said to be disjoint
\* are, and a subset or superset is never denied.
SetsAgree ==
  entry = NoEntry =>
    \A o \in Orderings :
      LET S == {o[i] : i \in DOMAIN o}
      IN  /\ Lists(Union(Elements, o), Present \cup S)
          /\ Lists(SymmetricDifference(Elements, o), (Present \cup S) \ (Present \cap S))
          /\ Lists(Difference(Elements, o), Present \ S)
          /\ Lists(Intersection(Elements, o), Present \cap S)
          /\ IsDisjoint(Elements, o) => Present \cap S = {}
          /\ Present \subseteq S => IsSubset(Elements, o)
          /\ S \subseteq Present => IsSuperset(Elements, o)
=============================================================================
