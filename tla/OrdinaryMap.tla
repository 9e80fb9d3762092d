------------------------------ MODULE OrdinaryMap ------------------------------
(***************************************************************************)
(* The sequential skip list map, src/skiplist/map/ordinary.rs.             *)
(*                                                                         *)
(* A node is named by its key; the map itself is the node Root, which is   *)
(* before all keys, and the null pointer is Null, which is behind them: a  *)
(* search treats a null link as it treats a link to a greater key.  A      *)
(* random height is any height.  All calls borrow the map, and an entry    *)
(* borrows it as long as it lives: while there is one, nothing but it is   *)
(* called.                                                                 *)
(***************************************************************************)
EXTENDS Integers, Sequences, FiniteSets

CONSTANTS
  N,           \* number of keys
  MaxHeight,   \* number of levels
  Values, None

ASSUME SizesAssumption == N \in Nat \ {0} /\ MaxHeight \in 1 .. 32
ASSUME NoneAssumption == None \notin Values /\ None \notin 0 .. N

Keys == 1 .. N
Root == 0
Null == N + 1
Levels == 0 .. MaxHeight - 1

VARIABLES
  next,        \* the link of each node on each level
  height,      \* the height of each allocated node, 0 for keys without one
  value,       \* the value in each node
  len,         \* the count that len() returns
  entry,       \* the entry in the caller's hands, with the links it remembers
  ret          \* what the latest call returned

vars == <<next, height, value, len, entry, ret>>

NoEntry == [kind |-> "none"]
Vacant(k, vec) == [kind |-> "vacant", key |-> k, vec |-> vec]
Occupied(k, vec) == [kind |-> "occupied", key |-> k, vec |-> vec]

Init ==
  /\ next = [l \in Levels |-> [n \in Root .. N |-> Null]]
  /\ height = [k \in Keys |-> 0]
  /\ value = [k \in Keys |-> None]
  /\ len = 0
  /\ entry = NoEntry
  /\ ret = None

-----------------------------------------------------------------------------
(* Searching.                                                              *)

\* The last node before key on level l, coming from a node before it.
LastBefore(l, key) ==
  LET walk[n \in Root .. N] ==
        IF next[l][n] < key THEN walk[next[l][n]] ELSE n
  IN  walk

\* Where the search for key leaves each level: it goes on below from there.
Path(key) ==
  LET prec[l \in 0 .. MaxHeight] ==
        IF l = MaxHeight THEN Root ELSE LastBefore(l, key)[prec[l + 1]]
  IN  prec

\* search: stops at the first level on which it meets the key.
Search(key) ==
  IF \E l \in Levels : next[l][Path(key)[l]] = key THEN key ELSE Null

\* search_ext: goes down to level 0, and collects the links on the way.
SearchExt(key) == IF next[0][Path(key)[0]] = key THEN key ELSE Null

PrecVec(key, h) ==
  LET prec == Path(key)
  IN  [l \in 0 .. h - 1 |-> [prec |-> prec[l], next |-> next[l][prec[l]]]]

\* search_last: Root if there is no node at all.
SearchLast == Path(Null)[0]

Unbounded == [kind |-> "unbounded"]
MeetsStart(bound, k) ==
  \/ bound.kind = "unbounded"
  \/ bound.kind = "included" /\ bound.key <= k
  \/ bound.kind = "excluded" /\ bound.key < k

\* A slip: an end that is included is taken as excluded.
MeetsEnd_Exclusive(bound, k) == bound.kind = "unbounded" \/ k < bound.key

MeetsEnd(bound, k) ==
  \/ bound.kind = "unbounded"
  \/ bound.kind = "included" /\ k <= bound.key
  \/ bound.kind = "excluded" /\ k < bound.key

\* Where a level is left: in front of the first node that meets the start.
LastUnmet(l, start) ==
  LET Meets(n) == n = Null \/ MeetsStart(start, n)
      walk[n \in Root .. N] == IF Meets(next[l][n]) THEN n ELSE walk[next[l][n]]
  IN  walk

\* search_first_with_bounds: a level that ends without a node sends the search
\* back to the root, and a key equal to an included start ends it.
SearchFirst(start, end) ==
  LET scan[l \in 0 .. MaxHeight] ==
        IF l = MaxHeight THEN [from |-> Root, res |-> Null, done |-> FALSE]
        ELSE IF scan[l + 1].done THEN scan[l + 1]
        ELSE LET from == LastUnmet(l, start)[scan[l + 1].from]
                 res == next[l][from]
             IN  IF res = Null THEN [scan[l + 1] EXCEPT !.from = Root]
                 ELSE [from |-> from, res |-> res,
                       done |-> start.kind = "included" /\ start.key = res]
      first == scan[0].res
  IN  IF first # Null /\ MeetsEnd(end, first) THEN first ELSE Null

\* The nodes that Range visits, and Iter, from the first one on.
Visited(first, end) ==
  LET visit[n \in Keys \cup {Null}] ==
        IF n = Null THEN <<>>
        ELSE IF ~MeetsEnd(end, n) THEN <<>>
        ELSE <<n>> \o visit[next[0][n]]
  IN  visit[first]

RangeOf(start, end) == Visited(SearchFirst(start, end), end)
Elements == Visited(next[0][Root], Unbounded)

-----------------------------------------------------------------------------
(* Changing links.                                                         *)

\* A slip: the link to the node is set first, and its own link read from there.
LinkNodes_Swapped(vec, k, h) ==
  next' = [l \in Levels |->
             IF l >= h THEN next[l]
             ELSE [next[l] EXCEPT ![vec[l].prec] = k]]

\* link_nodes: on each of its h levels node k goes between a remembered pair.
LinkNodes(vec, k, h) ==
  next' = [l \in Levels |->
             IF l >= h THEN next[l]
             ELSE [next[l] EXCEPT ![k] = vec[l].next, ![vec[l].prec] = k]]

\* unlink_nodes, and the node freed.  It reads a link of the remembered
\* successors: there is no next state when one of these is null.
UnlinkNodes(vec, k) ==
  /\ \A l \in 0 .. height[k] - 1 : vec[l].next # Null
  /\ next' = [l \in Levels |->
                IF l >= height[k] THEN next[l]
                ELSE [next[l] EXCEPT ![vec[l].prec] = next[l][vec[l].next],
                                     ![k] = Null]]
  /\ height' = [height EXCEPT ![k] = 0]
  /\ value' = [value EXCEPT ![k] = None]

NewNode(vec, k, v) ==
  \E h \in 1 .. MaxHeight :
    /\ LinkNodes(vec, k, h)
    /\ height' = [height EXCEPT ![k] = h]
    /\ value' = [value EXCEPT ![k] = v]
    /\ len' = len + 1

\* A slip: what comes back is what was put in.
Swap_New(k, v) ==
  /\ value' = [value EXCEPT ![k] = v]
  /\ ret' = v
  /\ UNCHANGED <<next, height, len>>

Swap(k, v) ==
  /\ value' = [value EXCEPT ![k] = v]
  /\ ret' = value[k]
  /\ UNCHANGED <<next, height, len>>

-----------------------------------------------------------------------------
(* Calls on the map.                                                       *)

\* The code collects the links up to the height drawn, which are those used.
Insert(k, v) ==
  /\ entry = NoEntry
  /\ \/ SearchExt(k) = k /\ Swap(k, v)
     \/ SearchExt(k) = Null /\ NewNode(PrecVec(k, MaxHeight), k, v) /\ ret' = None
  /\ UNCHANGED entry

RemoveEntry(k) ==
  /\ entry = NoEntry
  /\ \/ /\ SearchExt(k) = k
        /\ UnlinkNodes(PrecVec(k, MaxHeight), k)
        /\ len' = len - 1
        /\ ret' = <<k, value[k]>>
     \/ SearchExt(k) = Null /\ ret' = None /\ UNCHANGED <<next, height, value, len>>
  /\ UNCHANGED entry

\* The heads are reset, and what is chained on level 0 is freed.
Clear ==
  LET freed == {Elements[i] : i \in DOMAIN Elements}
  IN  /\ entry = NoEntry
      /\ next' = [l \in Levels |-> [n \in Root .. N |->
                    IF n = Root \/ n \in freed THEN Null ELSE next[l][n]]]
      /\ height' = [k \in Keys |-> IF k \in freed THEN 0 ELSE height[k]]
      /\ value' = [k \in Keys |-> IF k \in freed THEN None ELSE value[k]]
      /\ len' = 0
      /\ ret' = None
      /\ UNCHANGED entry

Enter(e) ==
  /\ entry = NoEntry
  /\ entry' = e
  /\ ret' = None
  /\ UNCHANGED <<next, height, value, len>>

EntryOf(k) ==
  Enter(IF SearchExt(k) = Null THEN Vacant(k, PrecVec(k, MaxHeight))
                               ELSE Occupied(k, PrecVec(k, MaxHeight)))

FirstEntry ==
  LET k == next[0][Root]
      linked == {l \in 0 .. height[k] - 1 : next[l][Root] = k}
  IN  Enter(IF k = Null THEN NoEntry
            ELSE Occupied(k, [l \in linked |-> [prec |-> Root, next |-> k]]))

LastEntry ==
  LET k == SearchLast
  IN  Enter(IF k = Root THEN NoEntry ELSE Occupied(k, PrecVec(k, height[k])))

-----------------------------------------------------------------------------
(* Calls on an entry.                                                      *)

\* The occupied entry that comes of it remembers the links of the vacant one.
InsertVacant(v) ==
  /\ entry.kind = "vacant"
  /\ NewNode(entry.vec, entry.key, v)
  /\ entry' = Occupied(entry.key, entry.vec)
  /\ ret' = None

InsertOccupied(v) ==
  /\ entry.kind = "occupied"
  /\ Swap(entry.key, v)
  /\ UNCHANGED entry

RemoveOccupied ==
  /\ entry.kind = "occupied"
  /\ UnlinkNodes(entry.vec, entry.key)
  /\ len' = len - 1
  /\ entry' = NoEntry
  /\ ret' = <<entry.key, value[entry.key]>>

\* into_key, into_mut, or the end of the entry's scope.
DropEntry ==
  /\ entry # NoEntry
  /\ entry' = NoEntry
  /\ ret' = None
  /\ UNCHANGED <<next, height, value, len>>

\* Whether the entry's links were collected after its node was in the list.
LinksAreOwn == entry.vec[0].next = entry.key

MapCall ==
  \/ \E k \in Keys : RemoveEntry(k) \/ EntryOf(k) \/ \E v \in Values : Insert(k, v)
  \/ Clear \/ FirstEntry \/ LastEntry

\* or_insert, and_modify, insert_entry and the like are these, by the entry's kind.
EntryCall == DropEntry \/ \E v \in Values : InsertVacant(v) \/ InsertOccupied(v)

Next ==
  \/ MapCall
  \/ EntryCall
  \/ entry.kind = "occupied" /\ LinksAreOwn /\ RemoveOccupied

Spec == Init /\ [][Next]_vars

\* With all that the type system lets a caller do.
SpecAll == Init /\ [][MapCall \/ EntryCall \/ RemoveOccupied]_vars

-----------------------------------------------------------------------------
(* Properties.                                                             *)

Present == {k \in Keys : height[k] > 0}

\* The variables have their types; a key without a node has no value and is
\* linked to nothing.
TypeOK ==
  /\ next \in [Levels -> [Root .. N -> Keys \cup {Null}]]
  /\ height \in [Keys -> 0 .. MaxHeight]
  /\ \A k \in Keys : value[k] \in IF k \in Present THEN Values ELSE {None}
  /\ \A l \in Levels, k \in Keys : height[k] <= l => next[l][k] = Null
  /\ len \in 0 .. N
  /\ entry # NoEntry => entry.kind \in {"vacant", "occupied"} /\ entry.key \in Keys

\* Each level is in the order of the keys and has all nodes that are high enough
\* for it and no freed one; the counter is their number.  (Linking and unlinking
\* go by links that were collected before, in an earlier call if by an entry.)
ListInv ==
  /\ \A l \in Levels, n \in Root .. N :
       (n = Root \/ height[n] > l) => next[l][n] > n
  /\ \A l \in Levels :
       {next[l][n] : n \in {n \in Root .. N : n = Root \/ height[n] > l}}
         = {k \in Keys : height[k] > l} \cup {Null}
  /\ len = Cardinality(Present)

Bounds == {Unbounded} \cup [kind : {"included", "excluded"}, key : Keys]

\* What there is between two bounds.
Between(s, e) ==
  {k \in Present :
     /\ CASE s.kind = "included" -> k >= s.key [] s.kind = "excluded" -> k > s.key
          [] OTHER -> TRUE
     /\ CASE e.kind = "included" -> k <= e.key [] e.kind = "excluded" -> k < e.key
          [] OTHER -> TRUE}

\* A sequence of the elements of S, in order and each once.
Lists(seq, S) ==
  /\ seq \in Seq(S)
  /\ \A i, j \in DOMAIN seq : i < j => seq[i] < seq[j]
  /\ S = {seq[i] : i \in DOMAIN seq}

\* Every query answers from the same set of keys: get and contains_key, which may
\* find a key on an upper level, insert and remove, which look on level 0, the
\* last key, iter, and range with all kinds of bounds, also crossing ones.
QueriesAgree ==
  entry = NoEntry =>
    /\ \A k \in Keys : Search(k) = SearchExt(k) /\ (Search(k) = k <=> k \in Present)
    /\ SearchLast = IF Present = {} THEN Root
                    ELSE CHOOSE k \in Present : \A j \in Present : j <= k
    /\ Lists(Elements, Present)
    /\ \A s, e \in Bounds : Lists(RangeOf(s, e), Between(s, e))

\* The skip list is an ordered map: every call returns and changes what the call
\* on a dictionary does, and an entry works on its own key alone.
Abstract == INSTANCE OrderedMap WITH
  dict <- [k \in Keys |-> IF SearchExt(k) = k THEN value[k] ELSE None],
  view <- IF entry = NoEntry THEN None ELSE entry.key
ImplementsMap == Abstract!MapSpec

\* What the doc of len says, and the one of remove_entry of an entry means: there
\* are as many keys to be found as len() tells.
LenIsExact == len = Cardinality({k \in Keys : SearchExt(k) = k})
=============================================================================
