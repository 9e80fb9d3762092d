--------------------------- MODULE OrdinaryMapProofs ---------------------------
(***************************************************************************)
(* Proofs about OrdinaryMap, for any number of keys and levels: what the   *)
(* searches return, that every call keeps the levels in order and complete *)
(* and the counter exact, and that the skip list implements a sorted map;  *)
(* and about SkipListSets, what the relations of two sets yield.           *)
(***************************************************************************)
EXTENDS SkipListSets, FiniteSetTheorems, WellFoundedInduction, TLAPS

-----------------------------------------------------------------------------
(* The inductive invariant.                                                *)

\* The nodes that are high enough for level l; the root is on all levels.
High(l) == {k \in Keys : height[k] > l}
Nodes(l) == {Root} \cup High(l)

\* m is the next node behind n on level l.
Follows(l, n, m) ==
  /\ m > n
  /\ m \in High(l) \cup {Null}
  /\ \A k \in High(l) : k > n => k >= m

\* n is the last node in front of the key on level l.
Precedes(l, n, key) ==
  /\ n \in Nodes(l)
  /\ n < key
  /\ \A k \in High(l) : k < key => k <= n

TypeInv ==
  /\ next \in [Levels -> [Root .. N -> Keys \cup {Null}]]
  /\ height \in [Keys -> 0 .. MaxHeight]
  /\ value \in [Keys -> Values \cup {None}]
  /\ \A k \in Keys : value[k] \in Values <=> k \in Present

\* There is no entry, or one of a kind and for a key.
EntryInv == entry = NoEntry \/ (entry.kind \in {"vacant", "occupied"} /\ entry.key \in Keys)

\* Each node on a level is linked to the next one, and no other is linked.
Linked ==
  \A l \in Levels, n \in Root .. N :
    IF n \in Nodes(l) THEN Follows(l, n, next[l][n]) ELSE next[l][n] = Null

Counted == len = Cardinality(Present)

\* A vacant entry remembers the places its node is to be linked at, on all levels.
VacantKnows ==
  entry.kind = "vacant" =>
    /\ entry.key \notin Present
    /\ \A l \in Levels : /\ Precedes(l, entry.vec[l].prec, entry.key)
                         /\ entry.vec[l].next = next[l][entry.vec[l].prec]

\* An occupied entry with links of its own remembers those to its node, on the
\* levels that this is on.
OccupiedKnows ==
  entry.kind = "occupied" =>
    /\ entry.key \in Present
    /\ LinksAreOwn => \A l \in 0 .. height[entry.key] - 1 :
                        /\ Precedes(l, entry.vec[l].prec, entry.key)
                        /\ entry.vec[l].next = entry.key

IInv == TypeInv /\ EntryInv /\ Linked /\ Counted /\ VacantKnows /\ OccupiedKnows

-----------------------------------------------------------------------------
(* Numbers.                                                                *)

LEMMA Sizes ==
  /\ N \in Nat /\ N >= 1 /\ MaxHeight \in Nat /\ MaxHeight >= 1
  /\ Root = 0 /\ Null = N + 1 /\ Keys = 1 .. N /\ Levels = 0 .. MaxHeight - 1
BY SizesAssumption DEF Root, Null, Keys, Levels

LEMMA KeysFinite ==
  IsFiniteSet(Keys) /\ Cardinality(Keys) = N
<1>1. 1 \in Int /\ N \in Int /\ Keys = 1 .. N /\ N >= 1
  BY Sizes
<1>2. IsFiniteSet(1 .. N) /\ Cardinality(1 .. N) = N - 1 + 1
  BY <1>1, FS_Interval
<1> QED
  BY <1>1, <1>2

\* A nonempty set of numbers has a least one.
LEMMA LeastNumber ==
  ASSUME NEW S, S \subseteq Nat, S # {}
  PROVE  \E x \in S : \A y \in S : x <= y
<1> DEFINE R == OpToRel(<, Nat)
<1>1. IsWellFoundedOn(R, Nat)
  BY NatLessThanWellFounded
<1>2. \A x, y \in Nat : <<x, y>> \in R <=> x < y
  BY DEF OpToRel
<1> HIDE DEF R
<1>3. PICK x \in S : \A y \in S : ~(<<y, x>> \in R)
  BY <1>1, WFMin
<1>4. ASSUME NEW y \in S PROVE x <= y
  <2>1. ~(y < x)
    BY <1>2, <1>3
  <2> QED BY <2>1
<1> QED
  BY <1>4

\* A nonempty set of numbers below a bound has a greatest one.
LEMMA GreatestNumber ==
  ASSUME NEW b \in Nat, NEW S, S \subseteq 0 .. b, S # {}
  PROVE  \E x \in S : \A y \in S : y <= x
<1> DEFINE T == {b - x : x \in S}
<1>1. T \subseteq Nat /\ T # {}
  <2>1. ASSUME NEW x \in S PROVE b - x \in Nat
    <3>1. x \in 0 .. b
      OBVIOUS
    <3> QED BY <3>1
  <2>2. PICK x \in S : TRUE
    OBVIOUS
  <2>3. b - x \in T
    OBVIOUS
  <2> QED BY <2>1, <2>3
<1>2. PICK z \in T : \A y \in T : z <= y
  <2> HIDE DEF T
  <2> QED BY <1>1, LeastNumber
<1>3. PICK x \in S : z = b - x
  BY <1>2
<1>4. ASSUME NEW y \in S PROVE y <= x
  <2>1. b - x <= b - y
    BY <1>2, <1>3
  <2>2. x \in 0 .. b /\ y \in 0 .. b
    OBVIOUS
  <2> QED BY <2>1, <2>2
<1> QED
  BY <1>4

-----------------------------------------------------------------------------
(* Levels.                                                                 *)

LEMMA LevelNodes ==
  ASSUME TypeInv
  PROVE  /\ \A l \in Int : High(l) \subseteq 1 .. N /\ Nodes(l) \subseteq 0 .. N /\ 0 \in Nodes(l)
         /\ \A l \in Int : \A n : n \in Nodes(l + 1) => n \in Nodes(l)
         /\ \A n : n \in High(0) <=> n \in Present
BY Sizes DEF TypeInv, High, Nodes, Present

\* On each level there is exactly one last node in front of a key, or of the end.
LEMMA PrecedesExists ==
  ASSUME TypeInv, NEW l \in Levels, NEW key \in 1 .. Null
  PROVE  \E n : Precedes(l, n, key)
<1> DEFINE S == {n \in Nodes(l) : n < key}
<1>1. l \in Int /\ key \in Int /\ 0 < key /\ N \in Nat
  BY Sizes
<1>2. S \subseteq 0 .. N /\ S # {}
  BY <1>1, LevelNodes
<1>3. PICK n \in S : \A y \in S : y <= n
  <2> HIDE DEF S
  <2> QED BY <1>1, <1>2, GreatestNumber
<1>4. Precedes(l, n, key)
  BY <1>3 DEF Precedes, Nodes
<1> QED
  BY <1>4

LEMMA PrecedesUnique ==
  ASSUME TypeInv, NEW l \in Levels, NEW key \in 1 .. Null,
         NEW m, Precedes(l, m, key), NEW n, Precedes(l, n, key)
  PROVE  m = n
<1>1. l \in Int /\ m \in 0 .. N /\ n \in 0 .. N /\ N \in Nat
  BY Sizes, LevelNodes DEF Precedes
<1>2. m <= n
  BY <1>1, Sizes DEF Precedes, Nodes
<1>3. n <= m
  BY <1>1, Sizes DEF Precedes, Nodes
<1> QED
  BY <1>1, <1>2, <1>3

\* The last node in front of the key, by its meaning.
Prec(l, key) == CHOOSE n : Precedes(l, n, key)

LEMMA PrecIs ==
  ASSUME TypeInv, NEW l \in Levels, NEW key \in 1 .. Null
  PROVE  /\ Precedes(l, Prec(l, key), key)
         /\ \A n : Precedes(l, n, key) => n = Prec(l, key)
<1>1. Precedes(l, Prec(l, key), key)
  BY PrecedesExists DEF Prec
<1> QED
  BY <1>1, PrecedesUnique

\* It is linked to the key, if the level has it, and else to what is behind it.
LEMMA PrecLinked ==
  ASSUME TypeInv, Linked, NEW l \in Levels, NEW key \in 1 .. Null, NEW n, Precedes(l, n, key)
  PROVE  /\ n \in Root .. N /\ Follows(l, n, next[l][n])
         /\ next[l][n] \in 1 .. Null /\ next[l][n] >= key
         /\ next[l][n] = key <=> key \in High(l) \cup {Null}
<1>1. l \in Int /\ n \in 0 .. N /\ n \in Nodes(l)
  BY Sizes, LevelNodes DEF Precedes
<1>2. Follows(l, n, next[l][n])
  BY <1>1, Sizes DEF Linked
<1>3. next[l][n] \in 1 .. Null
  BY <1>1, Sizes DEF TypeInv
<1>4. next[l][n] >= key
  <2>1. CASE next[l][n] = Null
    BY <2>1, Sizes
  <2>2. CASE next[l][n] \in High(l)
    <3>1. ~(next[l][n] < key)
      BY <1>1, <1>2, <1>3, <2>2, Sizes DEF Follows, Precedes
    <3> QED BY <1>3, <3>1, Sizes
  <2> QED BY <1>2, <2>1, <2>2 DEF Follows
<1>5. ASSUME key \in High(l) \cup {Null} PROVE next[l][n] = key
  <2>1. key >= next[l][n]
    BY <1>2, <1>3, <1>5, Sizes DEF Follows, Precedes
  <2> QED BY <1>3, <1>4, <2>1, Sizes
<1>6. ASSUME next[l][n] = key PROVE key \in High(l) \cup {Null}
  BY <1>2, <1>6 DEF Follows
<1> QED
  BY <1>1, <1>2, <1>3, <1>4, <1>5, <1>6, Sizes

-----------------------------------------------------------------------------
(* What the searches return.                                               *)

\* What a walk on a level to the key is defined by.
WalkStep(l, key, f) ==
  f = [m \in Root .. N |-> IF next[l][m] < key THEN f[next[l][m]] ELSE m]

LEMMA WalkEdges ==
  ASSUME TypeInv, Linked, NEW l \in Levels, NEW key \in 1 .. Null, NEW m \in Root .. N
  PROVE  /\ m \in Int /\ next[l][m] \in 1 .. Null /\ m < next[l][m]
         /\ next[l][m] < key => /\ m \in Nodes(l) /\ m < key
                                /\ next[l][m] \in Nodes(l) /\ next[l][m] \in Root .. N
         /\ (m \in Nodes(l) /\ m < key /\ ~(next[l][m] < key)) => m = Prec(l, key)
<1>1. l \in Int /\ key \in Int /\ N \in Nat
  BY Sizes
<1>2. \A n : Precedes(l, n, key) => n = Prec(l, key)
  BY PrecIs
<1>3. m \in 0 .. N /\ next[l][m] \in 1 .. N + 1
  BY Sizes DEF TypeInv
<1>4. CASE m \in Nodes(l)
  <2>1. Follows(l, m, next[l][m])
    BY <1>4 DEF Linked
  <2>2. (m < key /\ ~(next[l][m] < key)) => Precedes(l, m, key)
    <3> SUFFICES ASSUME m < key, ~(next[l][m] < key), NEW k \in High(l), k < key
                 PROVE  k <= m
      BY <1>4 DEF Precedes
    <3>1. k \in 1 .. N
      BY <1>1, LevelNodes
    <3> QED BY <1>1, <1>3, <2>1, <3>1 DEF Follows
  <2>3. next[l][m] < key => next[l][m] \in Nodes(l) /\ next[l][m] \in Root .. N
    BY <1>1, <1>3, <2>1, Sizes DEF Follows, Nodes
  <2> QED BY <1>1, <1>2, <1>3, <1>4, <2>1, <2>2, <2>3, Sizes DEF Follows
<1>5. CASE m \notin Nodes(l)
  <2>1. next[l][m] = Null
    BY <1>5 DEF Linked
  <2> QED BY <1>1, <1>3, <1>5, <2>1, Sizes
<1> QED
  BY <1>4, <1>5

LEMMA WalkExists ==
  ASSUME TypeInv, Linked, NEW l \in Levels, NEW key \in 1 .. Null
  PROVE  \E f : WalkStep(l, key, f)
<1> DEFINE P == Prec(l, key)
           g == [m \in Root .. N |-> IF m \in Nodes(l) /\ m < key THEN P ELSE m]
<1> SUFFICES ASSUME NEW m \in Root .. N
             PROVE  g[m] = IF next[l][m] < key THEN g[next[l][m]] ELSE m
  BY DEF WalkStep
<1> HIDE DEF P
<1>1. CASE next[l][m] < key
  BY <1>1, WalkEdges
<1>2. CASE ~(next[l][m] < key)
  BY <1>2, WalkEdges DEF P
<1> QED
  BY <1>1, <1>2

\* From any node in front of the key it ends at the last node in front of it.
LEMMA WalkEnds ==
  ASSUME TypeInv, Linked, NEW l \in Levels, NEW key \in 1 .. Null,
         NEW walk, WalkStep(l, key, walk), NEW n \in Nodes(l), n < key
  PROVE  walk[n] = Prec(l, key)
<1> DEFINE P == Prec(l, key)
<1>1. l \in Int /\ key \in Int /\ N \in Nat
  BY Sizes
<1>2. \A m \in Root .. N : walk[m] = IF next[l][m] < key THEN walk[next[l][m]] ELSE m
  BY DEF WalkStep
<1> HIDE DEF P
<1> SUFFICES ASSUME walk[n] # P PROVE FALSE
  BY DEF P
<1> DEFINE S == {i \in Nodes(l) : i < key /\ walk[i] # P}
<1>3. S \subseteq 0 .. N /\ S # {}
  BY <1>1, LevelNodes
<1>4. PICK i \in S : \A j \in S : j <= i
  <2> HIDE DEF S
  <2> QED BY <1>1, <1>3, GreatestNumber
<1>5. i \in Root .. N /\ i \in Nodes(l) /\ i < key /\ walk[i] # P
  BY <1>1, LevelNodes, Sizes
<1>6. next[l][i] < key
  BY <1>2, <1>5, WalkEdges DEF P
<1>7. next[l][i] \in S
  BY <1>2, <1>5, <1>6, WalkEdges
<1>8. next[l][i] <= i /\ i < next[l][i] /\ i \in Int /\ next[l][i] \in Int
  BY <1>4, <1>5, <1>7, WalkEdges
<1> QED
  BY <1>8

LEMMA LastBeforeIs ==
  ASSUME TypeInv, Linked, NEW l \in Levels, NEW key \in 1 .. Null,
         NEW n \in Nodes(l), n < key
  PROVE  LastBefore(l, key)[n] = Prec(l, key)
<1>1. LastBefore(l, key) = CHOOSE f : WalkStep(l, key, f)
  BY DEF LastBefore, WalkStep
<1>2. WalkStep(l, key, LastBefore(l, key))
  BY <1>1, WalkExists
<1> QED
  BY <1>2, WalkEnds

\* Going down the levels, the search comes by the last node in front of the key on
\* each of them.
LEMMA PathIs ==
  ASSUME TypeInv, Linked, NEW key \in 1 .. Null
  PROVE  \A l \in Levels : Path(key)[l] = Prec(l, key)
<1> DEFINE Down(f) == f = [l \in 0 .. MaxHeight |->
                             IF l = MaxHeight THEN Root ELSE LastBefore(l, key)[f[l + 1]]]
           g == [l \in 0 .. MaxHeight |-> IF l = MaxHeight THEN Root ELSE Prec(l, key)]
<1>1. MaxHeight \in Nat /\ Levels = 0 .. MaxHeight - 1 /\ Root = 0 /\ key \in Int /\ 0 < key
  BY Sizes
<1>2. ASSUME NEW l \in Levels
      PROVE  /\ LastBefore(l, key)[Root] = Prec(l, key)
             /\ l + 1 \in Levels => LastBefore(l, key)[Prec(l + 1, key)] = Prec(l, key)
  <2>1. l \in Int
    BY <1>1
  <2>2. Root \in Nodes(l)
    BY DEF Nodes
  <2>3. l + 1 \in Levels => Prec(l + 1, key) \in Nodes(l) /\ Prec(l + 1, key) < key
    <3>1. l + 1 \in Levels => Precedes(l + 1, Prec(l + 1, key), key)
      BY PrecIs
    <3> QED BY <2>1, <3>1, LevelNodes DEF Precedes
  <2> QED BY <1>1, <2>2, <2>3, LastBeforeIs
<1>3. Down(g)
  <2> SUFFICES ASSUME NEW l \in 0 .. MaxHeight
               PROVE  g[l] = IF l = MaxHeight THEN Root ELSE LastBefore(l, key)[g[l + 1]]
    OBVIOUS
  <2>1. CASE l = MaxHeight
    BY <2>1
  <2>2. CASE l = MaxHeight - 1
    BY <1>1, <1>2, <2>2
  <2>3. CASE l \in 0 .. MaxHeight - 2
    BY <1>1, <1>2, <2>3
  <2> QED BY <1>1, <2>1, <2>2, <2>3
<1> DEFINE prec == Path(key)
<1>4. Down(prec)
  <2>1. prec = CHOOSE f : Down(f)
    BY DEF Path
  <2> HIDE DEF Down, prec, g
  <2> QED BY <1>3, <2>1
<1>5. \A l \in 0 .. MaxHeight :
        prec[l] = IF l = MaxHeight THEN Root ELSE LastBefore(l, key)[prec[l + 1]]
  <2> HIDE DEF prec
  <2> QED BY <1>4
<1> HIDE DEF prec
<1>6. ASSUME NEW k \in Levels, prec[k] # Prec(k, key) PROVE FALSE
  <2> DEFINE S == {l \in Levels : prec[l] # Prec(l, key)}
  <2>1. S \subseteq 0 .. MaxHeight /\ S # {}
    BY <1>1, <1>6
  <2>2. PICK l \in S : \A j \in S : j <= l
    <3> HIDE DEF S
    <3> QED BY <1>1, <2>1, GreatestNumber
  <2>3. l \in Levels /\ l \in Int /\ prec[l] # Prec(l, key) /\ l + 1 \notin S
    BY <1>1, <2>2
  <2>4. CASE l = MaxHeight - 1
    BY <1>1, <1>2, <1>5, <2>3, <2>4
  <2>5. CASE l \in 0 .. MaxHeight - 2
    <3>1. l + 1 \in Levels /\ prec[l + 1] = Prec(l + 1, key)
      BY <1>1, <2>3, <2>5
    <3> QED BY SMTT(60), <1>1, <1>2, <1>5, <2>3, <3>1
  <2> QED BY <1>1, <2>3, <2>4, <2>5
<1> QED
  BY <1>6 DEF prec

\* search_ext finds a key if and only if it has a node.
LEMMA SearchExtIs ==
  ASSUME TypeInv, Linked, NEW key \in Keys
  PROVE  SearchExt(key) = IF key \in Present THEN key ELSE Null
<1>1. key \in 1 .. Null /\ 0 \in Levels /\ key # Null
  BY Sizes
<1>2. Path(key)[0] = Prec(0, key)
  BY <1>1, PathIs
<1>3. next[0][Prec(0, key)] = key <=> key \in High(0)
  BY <1>1, PrecIs, PrecLinked
<1> QED
  BY <1>2, <1>3, LevelNodes DEF SearchExt

\* search, which may stop at an upper level, finds the same keys.
LEMMA SearchIs ==
  ASSUME TypeInv, Linked, NEW key \in Keys
  PROVE  Search(key) = IF key \in Present THEN key ELSE Null
<1>1. key \in 1 .. Null /\ 0 \in Levels /\ key # Null /\ Levels \subseteq Int
  BY Sizes
<1>2. \A l \in Levels : next[l][Path(key)[l]] = key <=> key \in High(l)
  BY <1>1, PathIs, PrecIs, PrecLinked
<1>3. \A l \in Levels : key \in High(l) => key \in High(0)
  BY Sizes DEF TypeInv, High
<1> QED
  BY <1>1, <1>2, <1>3, LevelNodes DEF Search

\* The links collected for a key.
LEMMA PrecVecIs ==
  ASSUME TypeInv, Linked, NEW key \in 1 .. Null, NEW h \in 0 .. MaxHeight
  PROVE  \A l \in 0 .. h - 1 : /\ Precedes(l, PrecVec(key, h)[l].prec, key)
                               /\ PrecVec(key, h)[l].next = next[l][PrecVec(key, h)[l].prec]
<1>1. 0 .. h - 1 \subseteq Levels
  BY Sizes
<1>2. \A l \in 0 .. h - 1 : Path(key)[l] = Prec(l, key) /\ Precedes(l, Prec(l, key), key)
  BY <1>1, PathIs, PrecIs
<1> QED
  BY <1>2 DEF PrecVec

\* search_last finds the greatest key.
LEMMA SearchLastIs ==
  ASSUME TypeInv, Linked
  PROVE  IF Present = {} THEN SearchLast = Root
                         ELSE SearchLast \in Present /\ \A k \in Present : k <= SearchLast
<1>1. Null \in 1 .. Null /\ 0 \in Levels
  BY Sizes
<1>2. Precedes(0, SearchLast, Null)
  BY <1>1, PathIs, PrecIs DEF SearchLast
<1>3. Present \subseteq 1 .. N
  BY Sizes DEF Present
<1> QED
  BY SMTT(60), <1>2, <1>3, LevelNodes, Sizes DEF Precedes, Nodes

-----------------------------------------------------------------------------
(* Linking and unlinking.                                                  *)

\* A node linked at the places collected for its key is on all its levels, in order,
\* and counted.
LEMMA LinkKeeps ==
  ASSUME TypeInv, Linked, Counted, NEW k \in Keys, k \notin Present, NEW v \in Values,
         NEW vec, \A l \in Levels : /\ Precedes(l, vec[l].prec, k)
                                    /\ vec[l].next = next[l][vec[l].prec],
         NewNode(vec, k, v)
  PROVE  /\ TypeInv' /\ Linked' /\ Counted' /\ Present' = Present \cup {k}
         /\ value' = [value EXCEPT ![k] = v]
<1>1. PICK h \in 1 .. MaxHeight :
        /\ LinkNodes(vec, k, h)
        /\ height' = [height EXCEPT ![k] = h]
        /\ value' = [value EXCEPT ![k] = v]
        /\ len' = len + 1
  BY DEF NewNode
<1>2. /\ \A j \in Keys : height'[j] = IF j = k THEN h ELSE height[j]
      /\ height' \in [Keys -> 0 .. MaxHeight]
  BY <1>1, Sizes DEF TypeInv
<1>3. /\ \A l \in Int : High(l)' = IF l < h THEN High(l) \cup {k} ELSE High(l)
      /\ \A l \in Int : Nodes(l)' = IF l < h THEN Nodes(l) \cup {k} ELSE Nodes(l)
      /\ Present' = Present \cup {k}
  <2>1. height[k] = 0
    BY Sizes DEF Present, TypeInv
  <2>2. \A l \in Int : High(l)' = IF l < h THEN High(l) \cup {k} ELSE High(l)
    <3> SUFFICES ASSUME NEW l \in Int
                 PROVE  High(l)' = IF l < h THEN High(l) \cup {k} ELSE High(l)
      OBVIOUS
    <3>1. CASE l < h
      BY <1>1, <1>2, <3>1 DEF High
    <3>2. CASE ~(l < h)
      BY <1>1, <1>2, <2>1, <3>2 DEF High
    <3> QED BY <3>1, <3>2
  <2>3. Present' = Present \cup {k}
    BY <1>1, <1>2 DEF Present
  <2> QED BY <2>2, <2>3 DEF Nodes
<1>4. ASSUME NEW l \in Levels
      PROVE  /\ l \in Int /\ vec[l].prec \in Root .. N /\ vec[l].next \in Keys \cup {Null}
             /\ vec[l].prec \in Nodes(l) /\ vec[l].prec < k /\ k < vec[l].next
             /\ Follows(l, vec[l].prec, vec[l].next)
  <2>1. l \in Int /\ k \in 1 .. Null /\ k # Null
    BY Sizes
  <2>2. k \notin High(l)
    BY Sizes DEF High, Present, TypeInv
  <2> QED BY SMTT(60), <2>1, <2>2, PrecLinked, Sizes DEF Precedes
<1>5. \A l \in Levels, n \in Root .. N :
        next'[l][n] = IF l >= h THEN next[l][n]
                      ELSE IF n = vec[l].prec THEN k
                      ELSE IF n = k THEN vec[l].next ELSE next[l][n]
  BY ZenonT(60), SMTT(60), <1>1, <1>4, Sizes DEF LinkNodes, TypeInv
<1>6. next' \in [Levels -> [Root .. N -> Keys \cup {Null}]]
  BY ZenonT(60), SMTT(60), <1>1, <1>4, Sizes DEF LinkNodes, TypeInv
<1>7. TypeInv'
  <2>1. value' \in [Keys -> Values \cup {None}]
    BY <1>1 DEF TypeInv
  <2>2. \A j \in Keys : value'[j] \in Values <=> j \in Present'
    BY <1>1, <1>3 DEF TypeInv
  <2> QED BY <1>2, <1>6, <2>1, <2>2 DEF TypeInv
<1>8. Linked'
  <2> SUFFICES ASSUME NEW l \in Levels, NEW n \in Root .. N
               PROVE  IF n \in Nodes(l)' THEN Follows(l, n, next[l][n])'
                                         ELSE next'[l][n] = Null
    BY DEF Linked
  <2> DEFINE p == vec[l].prec
             m == vec[l].next
  <2>1. /\ l \in Int /\ h \in Int /\ n \in Int /\ k \in Int /\ p \in Int /\ m \in Int
        /\ High(l) \subseteq Int /\ p \in Nodes(l) /\ p < k /\ k < m
        /\ Follows(l, p, m) /\ Precedes(l, p, k)
        /\ \A j \in High(l) : j < k => j <= p
        /\ Root \in Int /\ \A j \in High(l) : Root < j
    BY <1>4, Sizes, LevelNodes DEF Precedes
  <2>2. next[l][n] \in Int
    BY SMTT(60), Sizes DEF TypeInv
  <2>3. n # k => IF n \in Nodes(l) THEN Follows(l, n, next[l][n]) ELSE next[l][n] = Null
    BY DEF Linked
  <2>4. k \notin Nodes(l)
    BY <2>1, Sizes DEF Nodes, High, Present, TypeInv
  <2> HIDE DEF p, m
  <2>5. CASE l >= h
    <3>1. High(l)' = High(l) /\ Nodes(l)' = Nodes(l) /\ next'[l][n] = next[l][n]
      BY <1>3, <1>5, <2>1, <2>5
    <3> QED BY <3>1 DEF Linked, Follows
  <2>6. CASE l < h
    <3>1. High(l)' = High(l) \cup {k} /\ Nodes(l)' = Nodes(l) \cup {k}
      BY <1>3, <2>1, <2>6
    <3>2. next'[l][n] = IF n = p THEN k ELSE IF n = k THEN m ELSE next[l][n]
      BY <1>5, <2>1, <2>6 DEF p, m
    <3>3. CASE n = p
      BY <2>1, <3>1, <3>2, <3>3 DEF Follows
    <3>4. CASE n = k
      BY <2>1, <3>1, <3>2, <3>4 DEF Follows
    <3>5. CASE n # p /\ n # k /\ n \in Nodes(l)
      <4>1. n < k => next[l][n] <= k
        <5> SUFFICES ASSUME n < k PROVE next[l][n] <= k
          OBVIOUS
        <5>1. n < p
          BY <2>1, <3>5, Sizes DEF Nodes
        <5>2. p \in High(l)
          BY <2>1, <3>5, <5>1 DEF Nodes
        <5>3. p >= next[l][n]
          BY <2>3, <3>5, <5>1, <5>2 DEF Follows
        <5> QED BY <2>1, <2>2, <5>3
      <4> QED BY <2>1, <2>2, <2>3, <3>1, <3>2, <3>5, <4>1 DEF Follows
    <3>6. CASE n # p /\ n # k /\ n \notin Nodes(l)
      BY <2>3, <3>1, <3>2, <3>6
    <3> QED BY <3>3, <3>4, <3>5, <3>6
  <2> QED BY <2>1, <2>5, <2>6
<1>9. Counted'
  <2>1. IsFiniteSet(Present)
    BY KeysFinite, FS_Subset DEF Present
  <2>2. Cardinality(Present \cup {k}) = Cardinality(Present) + 1
    BY <2>1, FS_AddElement
  <2> QED BY <1>1, <1>3, <2>2 DEF Counted
<1> QED
  BY <1>1, <1>3, <1>7, <1>8, <1>9

\* A node unlinked by links to it leaves all levels in order.
LEMMA UnlinkKeeps ==
  ASSUME TypeInv, Linked, Counted, NEW k \in Present,
         NEW vec, \A l \in 0 .. height[k] - 1 : /\ Precedes(l, vec[l].prec, k)
                                                /\ vec[l].next = k,
         UnlinkNodes(vec, k), len' = len - 1
  PROVE  /\ TypeInv' /\ Linked' /\ Counted' /\ Present' = Present \ {k}
         /\ value' = [value EXCEPT ![k] = None]
<1> DEFINE h == height[k]
<1>1. /\ next' = [l \in Levels |->
                    IF l >= h THEN next[l]
                    ELSE [next[l] EXCEPT ![vec[l].prec] = next[l][vec[l].next], ![k] = Null]]
      /\ height' = [height EXCEPT ![k] = 0]
      /\ value' = [value EXCEPT ![k] = None]
  BY DEF UnlinkNodes
<1>2. /\ k \in Keys /\ k \in Int /\ h \in 1 .. MaxHeight /\ h \in Int
      /\ \A j \in Keys : height'[j] = IF j = k THEN 0 ELSE height[j]
      /\ height' \in [Keys -> 0 .. MaxHeight]
  BY <1>1, Sizes DEF TypeInv, Present
<1>3. /\ \A l \in 0 .. MaxHeight - 1 : High(l)' = High(l) \ {k} /\ Nodes(l)' = Nodes(l) \ {k}
      /\ Present' = Present \ {k}
  <2>1. \A l \in 0 .. MaxHeight - 1 : High(l)' = High(l) \ {k}
    BY <1>1, <1>2 DEF High
  <2>2. Present' = Present \ {k}
    BY <1>1, <1>2 DEF Present
  <2>3. k # Root
    BY <1>2, Sizes
  <2> QED BY <2>1, <2>2, <2>3 DEF Nodes
<1> HIDE DEF h
<1>4. ASSUME NEW l \in 0 .. h - 1
      PROVE  /\ l \in Levels /\ l \in Int /\ vec[l].prec \in Root .. N /\ vec[l].next = k
             /\ Precedes(l, vec[l].prec, k) /\ vec[l].prec \in Nodes(l) /\ vec[l].prec < k
             /\ k \in High(l) /\ k \in Nodes(l) /\ Follows(l, k, next[l][k])
             /\ next[l][k] \in Keys \cup {Null}
  <2>1. l \in Levels /\ l \in Int
    BY <1>2, Sizes
  <2>2. Precedes(l, vec[l].prec, k) /\ vec[l].next = k
    BY DEF h
  <2>3. k \in 1 .. Null /\ k \in Root .. N
    BY <1>2, Sizes
  <2>4. vec[l].prec \in Root .. N
    BY <2>1, <2>2, <2>3, PrecLinked
  <2>5. k \in High(l) /\ k \in Nodes(l)
    BY <1>2, <2>1 DEF High, Nodes, h
  <2>6. Follows(l, k, next[l][k]) /\ next[l][k] \in Keys \cup {Null}
    BY ZenonT(60), SMTT(60), <2>1, <2>3, <2>5 DEF Linked, TypeInv
  <2> QED BY <2>1, <2>2, <2>4, <2>5, <2>6 DEF Precedes
<1>5. \A l \in Levels, n \in Root .. N :
        next'[l][n] = IF l >= h THEN next[l][n]
                      ELSE IF n = k THEN Null
                      ELSE IF n = vec[l].prec THEN next[l][k] ELSE next[l][n]
  <2> SUFFICES ASSUME NEW l \in Levels, NEW n \in Root .. N
               PROVE  next'[l][n] = IF l >= h THEN next[l][n]
                                    ELSE IF n = k THEN Null
                                    ELSE IF n = vec[l].prec THEN next[l][k] ELSE next[l][n]
    OBVIOUS
  <2>1. CASE l >= h
    BY <1>1, <2>1
  <2>2. CASE ~(l >= h)
    <3>1. l \in 0 .. h - 1
      BY <1>2, <2>2, Sizes
    <3>2. next'[l] = [next[l] EXCEPT ![vec[l].prec] = next[l][k], ![k] = Null]
      BY <1>1, <1>4, <2>2, <3>1
    <3>3. next[l] \in [Root .. N -> Keys \cup {Null}]
      BY DEF TypeInv
    <3> QED BY <1>4, <2>2, <3>1, <3>2, <3>3
  <2> QED BY <2>1, <2>2
<1>6. next' \in [Levels -> [Root .. N -> Keys \cup {Null}]]
  <2> SUFFICES ASSUME NEW l \in Levels
               PROVE  next'[l] \in [Root .. N -> Keys \cup {Null}]
    BY <1>1
  <2>1. next[l] \in [Root .. N -> Keys \cup {Null}]
    BY DEF TypeInv
  <2>2. CASE l >= h
    BY <1>1, <2>1, <2>2
  <2>3. CASE ~(l >= h)
    <3>1. l \in 0 .. h - 1
      BY <1>2, <2>3, Sizes
    <3>2. next'[l] = [next[l] EXCEPT ![vec[l].prec] = next[l][k], ![k] = Null]
      BY <1>1, <1>4, <2>3, <3>1
    <3> QED BY <1>4, <2>1, <3>1, <3>2
  <2> QED BY <2>2, <2>3
<1>7. TypeInv'
  <2>1. value' \in [Keys -> Values \cup {None}]
    BY <1>1 DEF TypeInv
  <2>2. \A j \in Keys : value'[j] \in Values <=> j \in Present'
    BY <1>1, <1>2, <1>3, NoneAssumption DEF TypeInv
  <2> QED BY <1>2, <1>6, <2>1, <2>2 DEF TypeInv
<1>8. Linked'
  <2> SUFFICES ASSUME NEW l \in Levels, NEW n \in Root .. N
               PROVE  IF n \in Nodes(l)' THEN Follows(l, n, next[l][n])'
                                         ELSE next'[l][n] = Null
    BY DEF Linked
  <2>1. /\ l \in 0 .. MaxHeight - 1 /\ l \in Int /\ n \in Int /\ High(l) \subseteq Int
        /\ High(l)' = High(l) \ {k} /\ Nodes(l)' = Nodes(l) \ {k}
    BY <1>3, Sizes, LevelNodes
  <2>2. IF n \in Nodes(l) THEN Follows(l, n, next[l][n]) ELSE next[l][n] = Null
    BY DEF Linked
  <2>3. CASE l >= h
    <3>1. k \notin High(l) /\ k \notin Nodes(l)
      BY <1>2, <2>1, <2>3, Sizes DEF High, Nodes, h
    <3>2. next'[l][n] = next[l][n]
      BY <1>5, <2>3
    <3> QED BY <2>1, <2>2, <3>1, <3>2 DEF Follows
  <2>4. CASE ~(l >= h)
    <3> DEFINE p == vec[l].prec
               m == next[l][k]
    <3>1. l \in 0 .. h - 1
      BY <1>2, <2>1, <2>4
    <3>2. /\ p \in Nodes(l) /\ p \in Int /\ p < k /\ k < m /\ m \in Int /\ m # k
          /\ Precedes(l, p, k) /\ \A j \in High(l) : j < k => j <= p
          /\ Follows(l, k, m)
      BY SMTT(60), <1>2, <1>4, <3>1, Sizes DEF Follows, Precedes
    <3>3. next'[l][n] = IF n = k THEN Null ELSE IF n = p THEN m ELSE next[l][n]
      BY <1>5, <2>4
    <3> HIDE DEF p, m
    <3>4. CASE n = k
      BY <2>1, <3>3, <3>4
    <3>5. CASE n = p
      BY <1>2, <2>1, <3>2, <3>3, <3>5 DEF Follows
    <3>6. CASE n # k /\ n # p /\ n \in Nodes(l)
      <4>1. next[l][n] # k
        <5> SUFFICES ASSUME next[l][n] = k PROVE FALSE
          OBVIOUS
        <5>1. n < k /\ \A j \in High(l) : j < k => j <= n
          BY <1>2, <2>1, <2>2, <3>6 DEF Follows
        <5>2. Precedes(l, n, k)
          BY <3>6, <5>1 DEF Precedes
        <5>3. k \in 1 .. Null
          BY <1>2, Sizes
        <5> QED BY <3>2, <3>6, <5>2, <5>3, PrecedesUnique
      <4> QED BY <2>1, <2>2, <3>3, <3>6, <4>1 DEF Follows
    <3>7. CASE n # k /\ n # p /\ n \notin Nodes(l)
      BY <2>1, <2>2, <3>3, <3>7
    <3> QED BY <3>4, <3>5, <3>6, <3>7
  <2> QED BY <2>3, <2>4
<1>9. Counted'
  <2>1. IsFiniteSet(Present)
    BY KeysFinite, FS_Subset DEF Present
  <2>2. Cardinality(Present \ {k}) = Cardinality(Present) - 1
    BY <2>1, FS_RemoveElement
  <2> QED BY <1>3, <2>2 DEF Counted
<1> QED
  BY <1>1, <1>3, <1>7, <1>8, <1>9

-----------------------------------------------------------------------------
(* What is visited.                                                        *)

Ascends(seq) == \A i, j \in DOMAIN seq : i < j => seq[i] < seq[j]
RangeIs(seq, S) == (\A i \in DOMAIN seq : seq[i] \in S) /\ (\A k \in S : \E i \in DOMAIN seq : seq[i] = k)

LEMMA ListsIs ==
  ASSUME NEW seq, NEW S
  PROVE  Lists(seq, S) <=> seq \in Seq(S) /\ Ascends(seq) /\ RangeIs(seq, S)
<1>1. RangeIs(seq, S) <=> S = {seq[i] : i \in DOMAIN seq}
  BY DEF RangeIs
<1> QED
  BY <1>1 DEF Lists, Ascends

LEMMA ListsEmpty == Lists(<<>>, {})
<1>1. <<>> \in Seq({})
  OBVIOUS
<1>2. Ascends(<<>>) /\ RangeIs(<<>>, {})
  BY DEF Ascends, RangeIs
<1> QED
  BY <1>1, <1>2, ListsIs

LEMMA ListsMore ==
  ASSUME NEW S, S \subseteq Nat, NEW n \in Nat, \A k \in S : n < k, NEW seq, Lists(seq, S)
  PROVE  Lists(<<n>> \o seq, S \cup {n})
<1>1. /\ seq \in Seq(S) /\ Len(seq) \in Nat
      /\ \A i \in 1 .. Len(seq) : seq[i] \in S /\ seq[i] \in Nat /\ n < seq[i]
  <2>1. seq \in Seq(S)
    BY ListsIs
  <2>2. \A i \in 1 .. Len(seq) : seq[i] \in S
    BY <2>1
  <2>3. \A i \in 1 .. Len(seq) : seq[i] \in Nat /\ n < seq[i]
    BY <2>2
  <2>4. Len(seq) \in Nat
    BY <2>1
  <2> QED BY <2>1, <2>2, <2>3, <2>4
<1> DEFINE t == <<n>> \o seq
<1>2. /\ t \in Seq(S \cup {n}) /\ Len(t) = Len(seq) + 1 /\ DOMAIN t = 1 .. Len(seq) + 1
      /\ t[1] = n /\ \A i \in 2 .. Len(seq) + 1 : t[i] = seq[i - 1]
  <2>1. <<n>> \in Seq(S \cup {n}) /\ seq \in Seq(S \cup {n})
    BY <1>1
  <2> QED BY <1>1, <2>1
<1> HIDE DEF t
<1>3. Ascends(t)
  <2> SUFFICES ASSUME NEW i \in 1 .. Len(seq) + 1, NEW j \in 1 .. Len(seq) + 1, i < j
               PROVE  t[i] < t[j]
    BY <1>2 DEF Ascends
  <2>1. j - 1 \in 1 .. Len(seq) /\ t[j] = seq[j - 1]
    BY <1>1, <1>2
  <2>2. CASE i = 1
    BY <1>1, <1>2, <2>1, <2>2
  <2>3. CASE i # 1
    <3>1. i - 1 \in 1 .. Len(seq) /\ t[i] = seq[i - 1] /\ i - 1 < j - 1
      BY <1>1, <1>2, <2>3
    <3> QED BY <1>1, <2>1, <3>1, ListsIs DEF Ascends
  <2> QED BY <2>2, <2>3
<1>4. RangeIs(t, S \cup {n})
  <2>1. \A i \in DOMAIN t : t[i] \in S \cup {n}
    BY <1>2
  <2>2. ASSUME NEW k \in S \cup {n} PROVE \E i \in DOMAIN t : t[i] = k
    <3>1. CASE k = n
      BY <1>1, <1>2, <3>1
    <3>2. CASE k \in S
      <4>1. PICK i \in 1 .. Len(seq) : seq[i] = k
        BY <1>1, <3>2, ListsIs DEF RangeIs
      <4>2. i + 1 \in 2 .. Len(seq) + 1 /\ t[i + 1] = seq[i]
        BY <1>1, <1>2
      <4> QED BY <1>2, <4>1, <4>2
    <3> QED BY <3>1, <3>2
  <2> QED BY <2>1, <2>2 DEF RangeIs
<1> QED
  BY <1>2, <1>3, <1>4, ListsIs DEF t

\* An end that is met by a key is met by those before it.
LEMMA EndIsLast ==
  ASSUME NEW end \in Bounds, NEW m \in Nat, NEW n \in Nat, m < n, MeetsEnd(end, n)
  PROVE  MeetsEnd(end, m)
BY Sizes DEF Bounds, MeetsEnd, Unbounded

\* Range and Iter visit, in order, the nodes from the first one on that are not
\* behind the end.
LEMMA VisitedIs ==
  ASSUME TypeInv, Linked, NEW end \in Bounds, NEW first \in Present \cup {Null}
  PROVE  Lists(Visited(first, end), {k \in Present : k >= first /\ MeetsEnd(end, k)})
<1> DEFINE Body(f, n) == IF n = Null THEN <<>>
                         ELSE IF ~MeetsEnd(end, n) THEN <<>>
                         ELSE <<n>> \o f[next[0][n]]
           Visit(f) == f = [n \in Keys \cup {Null} |-> Body(f, n)]
           From(i, f) == f = [n \in i .. Null |-> Body(f, n)]
           Rest(n) == {k \in Present : k >= n /\ MeetsEnd(end, k)}
<1>1. /\ Keys \cup {Null} = 1 .. Null /\ Null \in Nat /\ 0 \in Levels /\ Present \subseteq 1 .. N
      /\ N \in Nat /\ Null = N + 1 /\ Keys = 1 .. N /\ Root = 0
  BY Sizes DEF Present
<1>2. ASSUME NEW n \in Keys
      PROVE  /\ next[0][n] \in 1 .. Null /\ next[0][n] > n
             /\ n \in Present => /\ next[0][n] \in Present \cup {Null}
                                 /\ \A k \in Present : k > n => k >= next[0][n]
  <2>1. n \in Root .. N
    BY <1>1
  <2>2. CASE n \in Nodes(0)
    <3>1. Follows(0, n, next[0][n])
      BY <1>1, <2>1, <2>2 DEF Linked
    <3> QED BY <1>1, <2>1, <3>1, LevelNodes DEF TypeInv, Follows
  <2>3. CASE n \notin Nodes(0)
    <3>1. next[0][n] = Null
      BY <1>1, <2>1, <2>3 DEF Linked
    <3> QED BY <1>1, <2>3, <3>1, LevelNodes DEF Nodes
  <2> QED BY <2>2, <2>3
<1>3. \E f : Visit(f)
  <2> DEFINE S == {i \in 1 .. Null : ~ \E f : From(i, f)}
  <2>1. SUFFICES S = {}
    <3>1. 1 \in 1 .. Null
      BY <1>1
    <3>2. PICK f : From(1, f)
      BY ZenonT(60), SMTT(60), <2>1, <3>1
    <3>3. Visit(f)
      BY <1>1, <3>2
    <3> QED BY <3>3
  <2>2. SUFFICES ASSUME S # {} PROVE FALSE
    OBVIOUS
  <2>3. PICK i \in S : \A j \in S : j <= i
    <3>1. S \subseteq 0 .. Null
      BY <1>1
    <3> HIDE DEF S
    <3> QED BY <1>1, <2>2, <3>1, GreatestNumber
  <2>4. CASE i = Null
    <3> DEFINE g == [n \in Null .. Null |-> <<>>]
    <3>1. From(i, g)
      BY <1>1, <2>4
    <3> QED BY <3>1
  <2>5. CASE i # Null
    <3>1. i \in Keys /\ i + 1 \in 1 .. Null /\ i + 1 \notin S
      <4>1. i \in 1 .. Null /\ ~(i + 1 <= i)
        OBVIOUS
      <4>2. i + 1 \notin S
        BY ZenonT(60), SMTT(60), <2>3, <4>1
      <4>3. i \in Keys /\ i + 1 \in 1 .. Null
        <5> HIDE DEF S
        <5> QED BY <1>1, <2>5, <4>1
      <4> QED BY <4>2, <4>3
    <3>2. PICK f : From(i + 1, f)
      BY ZenonT(60), SMTT(60), <3>1
    <3>3. \A n \in i + 1 .. Null : f[n] = Body(f, n)
      BY <3>2
    <3> DEFINE g == [n \in i .. Null |-> IF n = i THEN Body(f, i) ELSE f[n]]
    <3>4. ASSUME NEW n \in i .. Null PROVE g[n] = Body(g, n)
      <4>1. CASE n = Null
        <5>1. n \in i + 1 .. Null /\ n # i
          BY <1>1, <2>5, <3>1, <4>1
        <5>2. g[n] = f[n] /\ f[n] = <<>>
          BY <3>3, <4>1, <5>1
        <5> QED BY <4>1, <5>2
      <4>2. CASE n # Null
        <5>1. next[0][n] \in i + 1 .. Null
          BY SMTT(60), <1>1, <1>2, <3>1, <4>2
        <5>2. g[next[0][n]] = f[next[0][n]]
          BY SMTT(60), <1>1, <3>1, <5>1
        <5>3. g[n] = Body(f, n)
          BY <1>1, <3>1, <3>3
        <5> QED BY ZenonT(60), SMTT(60), <5>2, <5>3
      <4> QED BY <4>1, <4>2
    <3>5. From(i, g)
      <4> HIDE DEF Body
      <4> QED BY <3>4
    <3> QED BY <3>5
  <2> QED BY <2>4, <2>5
<1> DEFINE visit == CHOOSE f : Visit(f)
<1>4. Visit(visit)
  <2> HIDE DEF Visit
  <2> QED BY <1>3
<1>5. Visited(first, end) = visit[first]
  BY ZenonT(60), SMTT(60) DEF Visited
<1> HIDE DEF visit
<1>6. \A n \in 1 .. Null : visit[n] = Body(visit, n)
  BY <1>1, <1>4
<1>7. ASSUME NEW m \in Present \cup {Null}, ~Lists(visit[m], Rest(m)) PROVE FALSE
  <2> DEFINE S == {n \in Present \cup {Null} : ~Lists(visit[n], Rest(n))}
  <2>1. S \subseteq 0 .. Null /\ S # {}
    <3>1. S \subseteq Present \cup {Null} /\ m \in S
      BY <1>7
    <3> HIDE DEF S
    <3> QED BY <1>1, <3>1
  <2>2. PICK n \in S : \A j \in S : j <= n
    <3> HIDE DEF S
    <3> QED BY <1>1, <2>1, GreatestNumber
  <2>3. n \in Present \cup {Null} /\ n \in 1 .. Null /\ ~Lists(visit[n], Rest(n))
    BY <1>1
  <2>4. CASE n = Null
    <3>1. Rest(n) = {}
      <4> SUFFICES ASSUME NEW k \in Present, k >= n PROVE FALSE
        OBVIOUS
      <4> QED BY <1>1, <2>4
    <3>2. visit[n] = <<>>
      BY <1>6, <2>3, <2>4
    <3> QED BY <2>3, <3>1, <3>2, ListsEmpty
  <2>5. CASE n # Null /\ ~MeetsEnd(end, n)
    <3>1. Rest(n) = {}
      <4> SUFFICES ASSUME NEW k \in Present, k >= n, MeetsEnd(end, k) PROVE FALSE
        OBVIOUS
      <4>1. k \in Nat /\ n \in Nat /\ k # n
        BY <1>1, <2>3, <2>5
      <4> QED BY <2>5, <4>1, EndIsLast
    <3>2. visit[n] = <<>>
      BY <1>6, <2>3, <2>5
    <3> QED BY <2>3, <3>1, <3>2, ListsEmpty
  <2>6. CASE n # Null /\ MeetsEnd(end, n)
    <3>1. n \in Present /\ n \in Keys /\ n \in Nat
      BY <1>1, <2>3, <2>6
    <3>2. /\ next[0][n] \in Present \cup {Null} /\ next[0][n] \in Nat /\ n < next[0][n]
          /\ \A k \in Present : k > n => k >= next[0][n]
      BY <1>1, <1>2, <3>1
    <3>3. Lists(visit[next[0][n]], Rest(next[0][n]))
      BY <2>2, <3>1, <3>2
    <3>4. Rest(n) = Rest(next[0][n]) \cup {n}
      <4>1. ASSUME NEW k \in Present, k >= n, k # n PROVE k >= next[0][n]
        BY <1>1, <3>1, <3>2, <4>1
      <4>2. ASSUME NEW k \in Present, k >= next[0][n] PROVE k >= n
        BY <1>1, <3>1, <3>2, <4>2
      <4>3. n >= n
        BY <3>1
      <4> QED BY <2>6, <3>1, <4>1, <4>2, <4>3
    <3>5. visit[n] = <<n>> \o visit[next[0][n]]
      BY <1>6, <2>3, <2>6
    <3>6. Rest(next[0][n]) \subseteq Nat /\ \A k \in Rest(next[0][n]) : n < k
      <4> SUFFICES ASSUME NEW k \in Present, k >= next[0][n] PROVE k \in Nat /\ n < k
        OBVIOUS
      <4> QED BY <1>1, <3>1, <3>2
    <3> HIDE DEF Rest
    <3> QED BY <2>3, <3>1, <3>3, <3>4, <3>5, <3>6, ListsMore
  <2> QED BY <2>4, <2>5, <2>6
<1> QED
  BY <1>5, <1>7

\* Iter visits all keys.
LEMMA ElementsIs ==
  ASSUME TypeInv, Linked
  PROVE  Lists(Elements, Present)
<1> DEFINE first == next[0][Root]
<1>1. /\ 0 \in Levels /\ Root \in Root .. N /\ Root \in Nodes(0) /\ Root = 0
      /\ Present \subseteq 1 .. N /\ High(0) = Present
  <2>1. High(0) = Present
    BY LevelNodes
  <2> QED BY <2>1, Sizes DEF Nodes, Present
<1>2. Follows(0, Root, first)
  BY <1>1 DEF Linked
<1> HIDE DEF first
<1>3. first \in Present \cup {Null}
  BY <1>1, <1>2 DEF Follows
<1>4. \A k \in Present : k >= first /\ MeetsEnd(Unbounded, k)
  BY <1>1, <1>2 DEF Follows, MeetsEnd, Unbounded
<1>5. {k \in Present : k >= first /\ MeetsEnd(Unbounded, k)} = Present
  BY <1>4
<1>6. Unbounded \in Bounds
  BY DEF Bounds
<1>7. Lists(Visited(first, Unbounded), {k \in Present : k >= first /\ MeetsEnd(Unbounded, k)})
  BY <1>3, <1>6, VisitedIs
<1> QED
  BY <1>5, <1>7 DEF Elements, first

\* clear leaves nothing behind.
LEMMA ClearKeeps ==
  ASSUME TypeInv, Linked, Clear
  PROVE  /\ TypeInv' /\ Linked' /\ Counted' /\ Present' = {}
         /\ value' = [k \in Keys |-> None]
<1> DEFINE freed == {Elements[i] : i \in DOMAIN Elements}
<1>1. freed = Present
  <2>1. RangeIs(Elements, Present)
    BY ElementsIs, ListsIs
  <2> QED BY <2>1 DEF RangeIs
<1>2. /\ next' = [l \in Levels |-> [n \in Root .. N |->
                    IF n = Root \/ n \in freed THEN Null ELSE next[l][n]]]
      /\ height' = [k \in Keys |-> IF k \in freed THEN 0 ELSE height[k]]
      /\ value' = [k \in Keys |-> IF k \in freed THEN None ELSE value[k]]
      /\ len' = 0
  BY DEF Clear
<1> HIDE DEF freed
<1>3. height' = [k \in Keys |-> 0]
  <2>1. \A k \in Keys : k \notin Present => height[k] = 0
    BY Sizes DEF Present, TypeInv
  <2> QED BY <1>1, <1>2, <2>1
<1>4. next' = [l \in Levels |-> [n \in Root .. N |-> Null]]
  <2>1. ASSUME NEW l \in Levels, NEW n \in Root .. N, n # Root, n \notin Present
        PROVE  next[l][n] = Null
    <3>1. n \notin Nodes(l)
      BY <2>1, Sizes DEF Nodes, High, Present, TypeInv
    <3> QED BY <3>1 DEF Linked
  <2> QED BY <1>1, <1>2, <2>1
<1>5. value' = [k \in Keys |-> None]
  <2>1. \A k \in Keys : k \notin Present => value[k] = None
    BY DEF TypeInv
  <2> QED BY <1>1, <1>2, <2>1
<1>6. Present' = {} /\ \A l \in Levels : High(l)' = {} /\ Nodes(l)' = {Root}
  <2>1. Present' = {}
    BY <1>3 DEF Present
  <2>2. \A l \in Levels : High(l)' = {}
    BY <1>3, Sizes DEF High
  <2> QED BY <2>1, <2>2 DEF Nodes
<1>7. TypeInv'
  BY <1>3, <1>4, <1>5, <1>6, Sizes, NoneAssumption DEF TypeInv
<1>8. Linked'
  <2> SUFFICES ASSUME NEW l \in Levels, NEW n \in Root .. N
               PROVE  IF n \in Nodes(l)' THEN Follows(l, n, next[l][n])'
                                         ELSE next'[l][n] = Null
    BY DEF Linked
  <2> QED BY <1>4, <1>6, Sizes DEF Follows
<1>9. Counted'
  BY <1>2, <1>6, FS_EmptySet DEF Counted
<1> QED
  BY <1>5, <1>6, <1>7, <1>8, <1>9

-----------------------------------------------------------------------------
(* Bounds.  A start is a threshold: what is at it or behind it meets it.   *)

Threshold(start) ==
  IF start.kind = "unbounded" THEN 1
  ELSE IF start.kind = "included" THEN start.key ELSE start.key + 1

LEMMA ThresholdIs ==
  ASSUME NEW start \in Bounds
  PROVE  /\ Threshold(start) \in 1 .. Null
         /\ \A k \in Keys : MeetsStart(start, k) <=> ~(k < Threshold(start))
         /\ start.kind = "included" => Threshold(start) = start.key
BY Sizes DEF Bounds, Unbounded, MeetsStart, Threshold

\* A level is left in front of the first node that meets the start.
LEMMA LastUnmetIs ==
  ASSUME TypeInv, Linked, NEW l \in Levels, NEW start \in Bounds,
         NEW n \in Nodes(l), n < Threshold(start)
  PROVE  LastUnmet(l, start)[n] = Prec(l, Threshold(start))
<1> DEFINE key == Threshold(start)
           Meets(m) == m = Null \/ MeetsStart(start, m)
           Walk(f) == f = [m \in Root .. N |-> IF Meets(next[l][m]) THEN m ELSE f[next[l][m]]]
<1>1. /\ key \in 1 .. Null
      /\ \A k \in Keys : MeetsStart(start, k) <=> ~(k < key)
  BY ThresholdIs
<1> HIDE DEF key
<1>2. \A m \in Root .. N : Meets(next[l][m]) <=> ~(next[l][m] < key)
  <2> SUFFICES ASSUME NEW m \in Root .. N
               PROVE  Meets(next[l][m]) <=> ~(next[l][m] < key)
    OBVIOUS
  <2>1. next[l][m] \in Keys \cup {Null}
    BY ZenonT(60), SMTT(60) DEF TypeInv
  <2>2. ~(Null < key)
    BY <1>1, Sizes
  <2> QED BY <1>1, <2>1, <2>2
<1>3. \A f : Walk(f) <=> WalkStep(l, key, f)
  <2> SUFFICES ASSUME NEW f PROVE Walk(f) <=> WalkStep(l, key, f)
    OBVIOUS
  <2>1. [m \in Root .. N |-> IF Meets(next[l][m]) THEN m ELSE f[next[l][m]]]
          = [m \in Root .. N |-> IF next[l][m] < key THEN f[next[l][m]] ELSE m]
    <3> HIDE DEF Meets
    <3> QED BY <1>2
  <2> QED BY <2>1 DEF WalkStep
<1>4. LastUnmet(l, start) = CHOOSE f : Walk(f)
  BY DEF LastUnmet
<1>5. WalkStep(l, key, LastUnmet(l, start))
  <2> HIDE DEF Walk
  <2> QED BY <1>1, <1>3, <1>4, WalkExists
<1>6. LastUnmet(l, start)[n] = Prec(l, key)
  BY <1>1, <1>5, WalkEnds DEF key
<1> QED
  BY <1>6 DEF key

\* r is the first node on level l that is at the threshold or behind it.
FirstFrom(l, t, r) ==
  /\ r \in High(l) \cup {Null} /\ t <= r
  /\ \A k \in High(l) : t <= k => r <= k

LEMMA FirstFromIs ==
  ASSUME TypeInv, Linked, NEW l \in Levels, NEW t \in 1 .. Null
  PROVE  FirstFrom(l, t, next[l][Prec(l, t)])
<1> DEFINE n == Prec(l, t)
<1>1. Precedes(l, n, t)
  BY PrecIs
<1> HIDE DEF n
<1>2. Follows(l, n, next[l][n]) /\ next[l][n] >= t /\ next[l][n] \in 1 .. Null
  BY <1>1, PrecLinked
<1>3. l \in Int /\ n \in 0 .. N /\ N \in Nat /\ Null = N + 1 /\ High(l) \subseteq 1 .. N
  BY <1>1, Sizes, LevelNodes DEF Precedes
<1>4. ASSUME NEW k \in High(l), t <= k PROVE next[l][n] <= k
  <2>1. n < k
    BY <1>1, <1>3, <1>4 DEF Precedes
  <2> QED BY <1>2, <1>3, <2>1 DEF Follows
<1>5. FirstFrom(l, t, next[l][n])
  BY <1>2, <1>3, <1>4 DEF FirstFrom, Follows
<1> QED
  BY <1>5 DEF n

\* What the scan of the levels knows after level l.
ScanIs(l, t, s) ==
  /\ s = [from |-> s.from, res |-> s.res, done |-> s.done] /\ s.done \in BOOLEAN
  /\ IF s.done THEN FirstFrom(0, t, s.res)
     ELSE /\ s.from \in Nodes(l) /\ s.from < t
          /\ IF l = MaxHeight THEN s.res = Null ELSE FirstFrom(l, t, s.res)

LEMMA FromReset ==
  ASSUME NEW x, NEW y, NEW z, NEW w, NEW s, s = [from |-> x, res |-> y, done |-> z]
  PROVE  [s EXCEPT !.from = w] = [from |-> w, res |-> y, done |-> z]
OBVIOUS

LEMMA ScanStep ==
  ASSUME TypeInv, Linked, NEW l \in Levels, NEW start \in Bounds, NEW s,
         ScanIs(l + 1, Threshold(start), s)
  PROVE  LET from == LastUnmet(l, start)[s.from]
             res == next[l][from]
         IN  ScanIs(l, Threshold(start),
                    IF s.done THEN s
                    ELSE IF res = Null THEN [s EXCEPT !.from = Root]
                    ELSE [from |-> from, res |-> res,
                          done |-> start.kind = "included" /\ start.key = res])
<1> DEFINE t == Threshold(start)
           from == LastUnmet(l, start)[s.from]
           res == next[l][from]
           b == start.kind = "included" /\ start.key = res
<1>1. /\ l \in Int /\ l >= 0 /\ l # MaxHeight /\ N \in Nat /\ Null = N + 1 /\ Root = 0
      /\ t \in 1 .. Null /\ Root \in Nodes(l) /\ High(l) \subseteq 1 .. N
      /\ Nodes(l + 1) \subseteq Nodes(l)
  BY Sizes, ThresholdIs, LevelNodes DEF Nodes
<1>2. High(l + 1) \subseteq High(l) /\ High(l) \subseteq High(0)
  BY SMTT(60), <1>1, Sizes DEF TypeInv, High
<1>3. CASE s.done
  BY <1>3 DEF ScanIs
<1>4. CASE ~s.done
  <2>1. /\ s.from \in Nodes(l) /\ s.from < t
        /\ IF l + 1 = MaxHeight THEN s.res = Null ELSE FirstFrom(l + 1, t, s.res)
    BY <1>1, <1>4 DEF ScanIs
  <2>2. from = Prec(l, t) /\ FirstFrom(l, t, res)
    BY <1>1, <2>1, LastUnmetIs, FirstFromIs
  <2>3. from \in Nodes(l) /\ from < t
    BY <1>1, <2>2, PrecIs DEF Precedes
  <2> HIDE DEF t, from, res
  <2>4. CASE res = Null
    <3>1. s.res = Null
      <4> SUFFICES ASSUME s.res # Null PROVE FALSE
        OBVIOUS
      <4>1. FirstFrom(l + 1, t, s.res)
        BY <2>1
      <4>2. s.res \in High(l) /\ t <= s.res
        BY <1>2, <4>1 DEF FirstFrom
      <4>3. Null <= s.res
        BY <2>2, <2>4, <4>2 DEF FirstFrom
      <4> QED BY <1>1, <4>2, <4>3
    <3> DEFINE r == [s EXCEPT !.from = Root]
    <3>2. PICK x, y, z : x = s.from /\ y = s.res /\ z = s.done
      OBVIOUS
    <3>3. r = [from |-> Root, res |-> y, done |-> z]
      BY <3>2, FromReset DEF ScanIs
    <3>4. y = Null /\ z \in BOOLEAN /\ ~z
      BY <1>4, <3>1, <3>2 DEF ScanIs
    <3>5. ScanIs(l, t, [from |-> Root, res |-> y, done |-> z])
      BY <1>1, <2>2, <2>4, <3>4 DEF ScanIs
    <3> QED BY <1>4, <2>4, <3>3, <3>5 DEF t, from, res
  <2>5. CASE res # Null
    <3> HIDE DEF b
    <3>1. b \in BOOLEAN
      BY DEF b
    <3>2. b => FirstFrom(0, t, res)
      <4> SUFFICES ASSUME b PROVE FirstFrom(0, t, res)
        OBVIOUS
      <4>1. t = res
        BY ThresholdIs DEF b, t
      <4>2. res \in High(0)
        BY <1>2, <2>2, <2>5 DEF FirstFrom
      <4> QED BY <2>2, <4>1, <4>2 DEF FirstFrom
    <3>3. ScanIs(l, t, [from |-> from, res |-> res, done |-> b])
      BY <1>1, <2>2, <2>3, <3>1, <3>2 DEF ScanIs
    <3> QED BY <1>4, <2>5, <3>3 DEF t, from, res, b
  <2> QED BY <2>4, <2>5
<1> QED
  BY <1>3, <1>4

\* search_first_with_bounds returns the first key that meets the start, if that meets
\* the end.
LEMMA SearchFirstIs ==
  ASSUME TypeInv, Linked, NEW start \in Bounds, NEW end \in Bounds
  PROVE  \E r : /\ FirstFrom(0, Threshold(start), r)
                /\ SearchFirst(start, end) = IF r # Null /\ MeetsEnd(end, r) THEN r ELSE Null
<1> DEFINE t == Threshold(start)
           Body(f, l) ==
             IF l = MaxHeight THEN [from |-> Root, res |-> Null, done |-> FALSE]
             ELSE IF f[l + 1].done THEN f[l + 1]
             ELSE LET from == LastUnmet(l, start)[f[l + 1].from]
                      res == next[l][from]
                  IN  IF res = Null THEN [f[l + 1] EXCEPT !.from = Root]
                      ELSE [from |-> from, res |-> res,
                            done |-> start.kind = "included" /\ start.key = res]
           Scan(f) == f = [l \in 0 .. MaxHeight |-> Body(f, l)]
           Above(i, f) == f = [l \in i .. MaxHeight |-> Body(f, l)]
<1>1. /\ MaxHeight \in Nat /\ MaxHeight >= 1 /\ Levels = 0 .. MaxHeight - 1 /\ Root = 0
      /\ 0 \in Levels /\ t \in 1 .. Null /\ Null \in Nat
  BY Sizes, ThresholdIs
<1>2. \E f : Scan(f)
  <2> DEFINE S == {i \in 0 .. MaxHeight : ~ \E f : Above(i, f)}
  <2>1. SUFFICES S = {}
    <3>1. 0 \in 0 .. MaxHeight
      BY <1>1
    <3> QED BY <2>1, <3>1
  <2>2. SUFFICES ASSUME S # {} PROVE FALSE
    OBVIOUS
  <2>3. PICK i \in S : \A j \in S : j <= i
    <3>1. S \subseteq 0 .. MaxHeight
      BY ZenonT(60), SMTT(60)
    <3> HIDE DEF S
    <3> QED BY <1>1, <2>2, <3>1, GreatestNumber
  <2>4. CASE i = MaxHeight
    <3> DEFINE g == [l \in MaxHeight .. MaxHeight |->
                       [from |-> Root, res |-> Null, done |-> FALSE]]
    <3>1. \A l \in MaxHeight .. MaxHeight : l = MaxHeight
      BY <1>1
    <3>2. Above(MaxHeight, g)
      BY ZenonT(60), SMTT(60), <3>1
    <3> QED BY <2>4, <3>2
  <2>5. CASE i # MaxHeight
    <3>1. i \in 0 .. MaxHeight /\ ~(i + 1 <= i)
      BY SMTT(60), <1>1
    <3>2. i + 1 \notin S
      BY ZenonT(60), SMTT(60), <2>3, <3>1
    <3>3. i + 1 \in 0 .. MaxHeight
      BY SMTT(60), <1>1, <2>5, <3>1
    <3>4. PICK f : Above(i + 1, f)
      BY ZenonT(60), SMTT(60), <3>2, <3>3
    <3>5. \A l \in i + 1 .. MaxHeight : f[l] = Body(f, l)
      BY ZenonT(60), SMTT(60), <3>4
    <3> DEFINE g == [l \in i .. MaxHeight |-> IF l = i THEN Body(f, i) ELSE f[l]]
    <3>6. ASSUME NEW l \in i .. MaxHeight PROVE g[l] = Body(g, l)
      <4>1. g[l] = Body(f, l)
        <5> HIDE DEF Body
        <5>1. CASE l = i
          BY <5>1
        <5>2. CASE l # i
          <6>1. l \in i + 1 .. MaxHeight
            BY SMTT(60), <1>1, <3>1, <5>2
          <6> QED BY <3>5, <5>2, <6>1
        <5> QED BY <5>1, <5>2
      <4>2. CASE l = MaxHeight
        BY ZenonT(60), SMTT(60), <4>1, <4>2
      <4>3. CASE l # MaxHeight
        <5>1. l + 1 \in i + 1 .. MaxHeight /\ l + 1 # i /\ l + 1 \in i .. MaxHeight
          BY <1>1, <3>1, <4>3
        <5>2. g[l + 1] = f[l + 1]
          <6> HIDE DEF Body
          <6> QED BY <5>1
        <5> HIDE DEF g
        <5> QED BY <4>1, <5>2
      <4> QED BY ZenonT(60), SMTT(60), <4>2, <4>3
    <3>7. Above(i, g)
      <4> HIDE DEF Body
      <4> QED BY <3>6
    <3> QED BY ZenonT(60), SMTT(60), <3>7
  <2> QED BY <2>4, <2>5
<1> DEFINE scan == CHOOSE f : Scan(f)
<1>3. Scan(scan)
  <2> HIDE DEF Scan
  <2> QED BY <1>2
<1>4. SearchFirst(start, end) = LET first == scan[0].res
                                IN  IF first # Null /\ MeetsEnd(end, first) THEN first ELSE Null
  BY DEF SearchFirst
<1> HIDE DEF scan
<1>5. \A l \in 0 .. MaxHeight : scan[l] = Body(scan, l)
  <2> HIDE DEF Body
  <2> QED BY <1>3
<1>6. ASSUME NEW k \in 0 .. MaxHeight, ~ScanIs(k, t, scan[k]) PROVE FALSE
  <2> DEFINE S == {l \in 0 .. MaxHeight : ~ScanIs(l, t, scan[l])}
  <2>1. S \subseteq 0 .. MaxHeight /\ S # {}
    BY <1>6
  <2>2. PICK l \in S : \A j \in S : j <= l
    <3> HIDE DEF S
    <3> QED BY <1>1, <2>1, GreatestNumber
  <2>3. l \in 0 .. MaxHeight /\ ~ScanIs(l, t, scan[l])
    OBVIOUS
  <2>4. CASE l = MaxHeight
    <3>1. scan[l] = [from |-> Root, res |-> Null, done |-> FALSE]
      BY <1>5, <2>3, <2>4
    <3>2. Root \in Nodes(l) /\ Root < t
      BY <1>1 DEF Nodes
    <3> QED BY <2>3, <2>4, <3>1, <3>2 DEF ScanIs
  <2>5. CASE l # MaxHeight
    <3>1. l \in Levels /\ l + 1 \in 0 .. MaxHeight /\ ~(l + 1 <= l)
      BY <1>1, <2>3, <2>5
    <3>2. ScanIs(l + 1, t, scan[l + 1])
      BY <2>2, <3>1
    <3>3. scan[l] = Body(scan, l)
      BY <1>5, <2>3
    <3>4. ScanIs(l, t, Body(scan, l))
      BY <2>5, <3>1, <3>2, ScanStep
    <3> HIDE DEF Body
    <3> QED BY <2>3, <3>3, <3>4
  <2> QED BY <2>4, <2>5
<1>7. ScanIs(0, t, scan[0])
  <2>1. 0 \in 0 .. MaxHeight
    BY <1>1
  <2> QED BY <1>6, <2>1
<1>8. FirstFrom(0, t, scan[0].res)
  BY <1>1, <1>7 DEF ScanIs
<1> QED
  BY <1>4, <1>8

\* A range visits, in order, the keys between its bounds.
LEMMA RangeOfIs ==
  ASSUME TypeInv, Linked, NEW start \in Bounds, NEW end \in Bounds
  PROVE  Lists(RangeOf(start, end), Between(start, end))
<1> DEFINE t == Threshold(start)
           first == SearchFirst(start, end)
           Rest == {k \in Present : k >= first /\ MeetsEnd(end, k)}
<1>1. PICK r : /\ FirstFrom(0, t, r)
               /\ first = IF r # Null /\ MeetsEnd(end, r) THEN r ELSE Null
  BY SearchFirstIs
<1>2. /\ Present \subseteq Keys /\ Keys = 1 .. N /\ Null = N + 1 /\ N \in Nat
      /\ High(0) = Present /\ t \in 1 .. Null
  <2>1. High(0) = Present
    BY LevelNodes
  <2> QED BY <2>1, Sizes, ThresholdIs DEF Present
<1>3. Between(start, end) = {k \in Present : t <= k /\ MeetsEnd(end, k)}
  <2>1. ASSUME NEW k \in Present
        PROVE  (CASE start.kind = "included" -> k >= start.key
                  [] start.kind = "excluded" -> k > start.key
                  [] OTHER -> TRUE) <=> t <= k
    BY <1>2, Sizes DEF Bounds, Unbounded, Threshold
  <2>2. ASSUME NEW k \in Present
        PROVE  (CASE end.kind = "included" -> k <= end.key
                  [] end.kind = "excluded" -> k < end.key
                  [] OTHER -> TRUE) <=> MeetsEnd(end, k)
    BY <1>2, Sizes DEF Bounds, Unbounded, MeetsEnd
  <2> QED BY <2>1, <2>2 DEF Between
<1> HIDE DEF t, first
<1>4. first \in Present \cup {Null}
  BY <1>1, <1>2 DEF FirstFrom
<1>5. r \in 1 .. Null /\ t <= r /\ \A k \in Present : t <= k => r <= k
  <2>1. t <= r /\ r \in Present \cup {Null} /\ \A k \in Present : t <= k => r <= k
    BY <1>1, <1>2 DEF FirstFrom
  <2>2. Present \cup {Null} \subseteq 1 .. Null
    BY <1>2
  <2> QED BY <2>1, <2>2
<1>6. ASSUME NEW k \in Present
      PROVE  (k >= first /\ MeetsEnd(end, k)) <=> (t <= k /\ MeetsEnd(end, k))
  <2>1. k \in Nat /\ k \in Int /\ k < Null /\ r \in Nat
    BY <1>2, <1>5
  <2>2. CASE r # Null /\ MeetsEnd(end, r)
    BY <1>1, <1>2, <1>5, <2>1, <2>2
  <2>3. CASE r = Null
    BY <1>1, <1>2, <1>5, <2>1, <2>3
  <2>4. CASE r # Null /\ ~MeetsEnd(end, r)
    <3>1. first = Null
      BY <1>1, <2>4
    <3>2. ASSUME t <= k, MeetsEnd(end, k) PROVE FALSE
      <4>1. r <= k /\ r # k
        BY <1>5, <2>4, <3>2
      <4>2. r < k
        BY <2>1, <4>1
      <4> QED BY <2>1, <2>4, <3>2, <4>2, EndIsLast
    <3> QED BY <1>2, <2>1, <3>1, <3>2
  <2> QED BY <2>2, <2>3, <2>4
<1>7. Rest = Between(start, end)
  BY <1>3, <1>6
<1>8. Lists(Visited(first, end), Rest)
  BY <1>4, VisitedIs
<1> QED
  BY <1>7, <1>8 DEF RangeOf, first

-----------------------------------------------------------------------------
(* Every call keeps the invariant, and changes the values as it is meant   *)
(* to.  The value of a key without a node is None.                         *)

LEMMA InitInv == Init => IInv
<1> SUFFICES ASSUME Init PROVE IInv
  OBVIOUS
<1>1. \A l \in Levels : High(l) = {} /\ Nodes(l) = {Root}
  BY Sizes DEF Init, High, Nodes
<1>2. Present = {}
  BY DEF Init, Present
<1>3. TypeInv
  BY <1>2, Sizes, NoneAssumption DEF Init, TypeInv
<1>4. Linked
  BY <1>1, Sizes DEF Init, Linked, Follows
<1>5. Counted
  BY <1>2, FS_EmptySet DEF Init, Counted
<1>6. EntryInv /\ VacantKnows /\ OccupiedKnows
  BY DEF Init, EntryInv, VacantKnows, OccupiedKnows, NoEntry
<1> QED
  BY <1>3, <1>4, <1>5, <1>6 DEF IInv

\* Without an entry there is nothing to know about it.
LEMMA NoneKnows ==
  ASSUME entry' = NoEntry PROVE EntryInv' /\ VacantKnows' /\ OccupiedKnows'
BY DEF EntryInv, VacantKnows, OccupiedKnows, NoEntry

\* Exchanging the value of a key that has one changes nothing else.
LEMMA SwapKeeps ==
  ASSUME TypeInv, Linked, Counted, NEW k \in Present, NEW v \in Values, Swap(k, v)
  PROVE  /\ TypeInv' /\ Linked' /\ Counted' /\ Present' = Present
         /\ value' = [value EXCEPT ![k] = v] /\ ret' = value[k]
<1>1. /\ value' = [value EXCEPT ![k] = v] /\ ret' = value[k]
      /\ next' = next /\ height' = height /\ len' = len
  BY DEF Swap
<1>2. Present' = Present /\ \A l : High(l)' = High(l) /\ Nodes(l)' = Nodes(l)
  BY <1>1 DEF Present, High, Nodes
<1>3. TypeInv'
  <2>1. value' \in [Keys -> Values \cup {None}]
    BY <1>1 DEF TypeInv
  <2>2. \A j \in Keys : value'[j] \in Values <=> j \in Present
    BY <1>1 DEF TypeInv
  <2> QED BY <1>1, <1>2, <2>1, <2>2 DEF TypeInv
<1>4. Linked' /\ Counted'
  BY <1>1, <1>2 DEF Linked, Counted, Follows
<1> QED
  BY <1>1, <1>2, <1>3, <1>4

LEMMA InsertInv ==
  ASSUME IInv, NEW k \in Keys, NEW v \in Values, Insert(k, v)
  PROVE  IInv' /\ value' = [value EXCEPT ![k] = v] /\ ret' = value[k]
<1>1. TypeInv /\ Linked /\ Counted /\ entry = NoEntry /\ entry' = entry
  BY DEF IInv, Insert
<1>2. SearchExt(k) = IF k \in Present THEN k ELSE Null
  BY <1>1, SearchExtIs
<1>3. k # Null
  BY Sizes
<1>4. EntryInv' /\ VacantKnows' /\ OccupiedKnows'
  BY <1>1, NoneKnows
<1>5. CASE k \in Present
  <2>1. Swap(k, v)
    BY <1>2, <1>3, <1>5 DEF Insert
  <2> QED BY <1>1, <1>4, <1>5, <2>1, SwapKeeps DEF IInv
<1>6. CASE k \notin Present
  <2>1. NewNode(PrecVec(k, MaxHeight), k, v) /\ ret' = None
    BY <1>2, <1>3, <1>6 DEF Insert
  <2>2. PICK vec : vec = PrecVec(k, MaxHeight)
    OBVIOUS
  <2>3. \A l \in Levels : /\ Precedes(l, vec[l].prec, k)
                          /\ vec[l].next = next[l][vec[l].prec]
    BY <1>1, <2>2, PrecVecIs, Sizes
  <2>4. NewNode(vec, k, v)
    BY <2>1, <2>2
  <2>5. value[k] = None
    BY <1>1, <1>6 DEF TypeInv
  <2> QED BY <1>1, <1>4, <1>6, <2>1, <2>3, <2>4, <2>5, LinkKeeps DEF IInv
<1> QED
  BY <1>5, <1>6

LEMMA RemoveEntryInv ==
  ASSUME IInv, NEW k \in Keys, RemoveEntry(k)
  PROVE  /\ IInv' /\ value' = [value EXCEPT ![k] = None]
         /\ ret' = IF k \in Present THEN <<k, value[k]>> ELSE None
<1>1. TypeInv /\ Linked /\ Counted /\ entry = NoEntry /\ entry' = entry
  BY DEF IInv, RemoveEntry
<1>2. SearchExt(k) = IF k \in Present THEN k ELSE Null
  BY <1>1, SearchExtIs
<1>3. k # Null
  BY Sizes
<1>4. EntryInv' /\ VacantKnows' /\ OccupiedKnows'
  BY <1>1, NoneKnows
<1>5. CASE k \in Present
  <2>1. /\ UnlinkNodes(PrecVec(k, MaxHeight), k)
        /\ len' = len - 1 /\ ret' = <<k, value[k]>>
    BY <1>2, <1>3, <1>5 DEF RemoveEntry
  <2>2. PICK vec : vec = PrecVec(k, MaxHeight)
    OBVIOUS
  <2>3. ASSUME NEW l \in 0 .. height[k] - 1
        PROVE  /\ Precedes(l, vec[l].prec, k)
               /\ vec[l].next = k
    <3>1. l \in Levels /\ l \in 0 .. MaxHeight - 1 /\ k \in 1 .. Null /\ k \in High(l)
      BY <1>1, Sizes DEF TypeInv, High
    <3>2. Precedes(l, vec[l].prec, k) /\ vec[l].next = next[l][vec[l].prec]
      BY <1>1, <2>2, <3>1, PrecVecIs, Sizes
    <3>3. next[l][vec[l].prec] = k
      BY <1>1, <3>1, <3>2, PrecLinked
    <3> QED BY <3>2, <3>3
  <2>4. UnlinkNodes(vec, k)
    BY <2>1, <2>2
  <2> QED BY <1>1, <1>4, <1>5, <2>1, <2>3, <2>4, UnlinkKeeps DEF IInv
<1>6. CASE k \notin Present
  <2>1. ret' = None /\ next' = next /\ height' = height /\ value' = value /\ len' = len
    BY <1>2, <1>3, <1>6 DEF RemoveEntry
  <2>2. TypeInv' /\ Linked' /\ Counted'
    BY <1>1, <2>1 DEF TypeInv, Linked, Counted, Present, Follows, High, Nodes
  <2>3. value = [value EXCEPT ![k] = None]
    BY <1>1, <1>6 DEF TypeInv
  <2> QED BY <1>4, <1>6, <2>1, <2>2, <2>3 DEF IInv
<1> QED
  BY <1>5, <1>6

LEMMA ClearInv ==
  ASSUME IInv, Clear
  PROVE  IInv' /\ value' = [k \in Keys |-> None] /\ ret' = None
<1>1. TypeInv /\ Linked /\ entry = NoEntry /\ entry' = entry /\ ret' = None
  BY DEF IInv, Clear
<1>2. EntryInv' /\ VacantKnows' /\ OccupiedKnows'
  BY <1>1, NoneKnows
<1> QED
  BY <1>1, <1>2, ClearKeeps DEF IInv

\* Making an entry changes nothing but the entry.
LEMMA EnterKeeps ==
  ASSUME IInv, NEW e, Enter(e)
  PROVE  /\ TypeInv' /\ Linked' /\ Counted' /\ Present' = Present
         /\ value' = value /\ height' = height /\ next' = next
         /\ entry = NoEntry /\ entry' = e /\ ret' = None
         /\ \A l, n, k : Precedes(l, n, k)' <=> Precedes(l, n, k)
<1>1. /\ next' = next /\ height' = height /\ value' = value /\ len' = len
      /\ entry = NoEntry /\ entry' = e /\ ret' = None
  BY DEF Enter
<1>2. Present' = Present /\ \A l : High(l)' = High(l) /\ Nodes(l)' = Nodes(l)
  BY <1>1 DEF Present, High, Nodes
<1>3. TypeInv' /\ Linked' /\ Counted'
  BY <1>1, <1>2 DEF IInv, TypeInv, Linked, Counted, Follows
<1>4. \A l, n, k : Precedes(l, n, k)' <=> Precedes(l, n, k)
  BY <1>2 DEF Precedes
<1> QED
  BY <1>1, <1>2, <1>3, <1>4

LEMMA EntryOfInv ==
  ASSUME IInv, NEW k \in Keys, EntryOf(k)
  PROVE  /\ IInv' /\ value' = value /\ ret' = None
         /\ entry = NoEntry /\ entry' # NoEntry /\ entry'.key = k
<1>1. TypeInv /\ Linked
  BY DEF IInv
<1>2. SearchExt(k) = IF k \in Present THEN k ELSE Null
  BY <1>1, SearchExtIs
<1>3. k # Null /\ k \in 1 .. Null /\ 0 \in Levels /\ Levels = 0 .. MaxHeight - 1
      /\ MaxHeight \in 0 .. MaxHeight
  BY Sizes
<1>4. PICK vec : vec = PrecVec(k, MaxHeight)
  OBVIOUS
<1>5. \A l \in Levels : /\ Precedes(l, vec[l].prec, k)
                        /\ vec[l].next = next[l][vec[l].prec]
  BY <1>1, <1>3, <1>4, PrecVecIs
<1>6. CASE k \in Present
  <2>1. Enter(Occupied(k, vec))
    BY <1>2, <1>3, <1>4, <1>6 DEF EntryOf
  <2>2. /\ TypeInv' /\ Linked' /\ Counted' /\ Present' = Present
        /\ value' = value /\ height' = height /\ ret' = None
        /\ entry = NoEntry /\ entry' = Occupied(k, vec)
        /\ \A l, n, j : Precedes(l, n, j)' <=> Precedes(l, n, j)
    BY <2>1, EnterKeeps
  <2>3. entry'.kind = "occupied" /\ entry'.key = k /\ entry'.vec = vec
    BY <2>2 DEF Occupied
  <2>4. \A l \in 0 .. height[k] - 1 : Precedes(l, vec[l].prec, k) /\ vec[l].next = k
    <3> SUFFICES ASSUME NEW l \in 0 .. height[k] - 1
                 PROVE  Precedes(l, vec[l].prec, k) /\ vec[l].next = k
      OBVIOUS
    <3>1. l \in Levels /\ k \in High(l)
      BY <1>1, <1>6, Sizes DEF TypeInv, High
    <3> QED BY <1>1, <1>3, <1>5, <3>1, PrecLinked
  <2>5. EntryInv' /\ VacantKnows'
    BY <2>3 DEF EntryInv, VacantKnows
  <2>6. OccupiedKnows'
    BY <1>6, <2>2, <2>3, <2>4 DEF OccupiedKnows
  <2>7. entry' # NoEntry
    BY <2>3 DEF NoEntry
  <2> QED BY <2>2, <2>3, <2>5, <2>6, <2>7 DEF IInv
<1>7. CASE k \notin Present
  <2>1. Enter(Vacant(k, vec))
    BY <1>2, <1>4, <1>7 DEF EntryOf
  <2>2. /\ TypeInv' /\ Linked' /\ Counted' /\ Present' = Present
        /\ value' = value /\ next' = next /\ ret' = None
        /\ entry = NoEntry /\ entry' = Vacant(k, vec)
        /\ \A l, n, j : Precedes(l, n, j)' <=> Precedes(l, n, j)
    BY <2>1, EnterKeeps
  <2>3. entry'.kind = "vacant" /\ entry'.key = k /\ entry'.vec = vec
    BY <2>2 DEF Vacant
  <2>4. EntryInv' /\ OccupiedKnows'
    BY <2>3 DEF EntryInv, OccupiedKnows
  <2>5. VacantKnows'
    BY <1>5, <1>7, <2>2, <2>3 DEF VacantKnows
  <2>6. entry' # NoEntry
    BY <2>3 DEF NoEntry
  <2> QED BY <2>2, <2>3, <2>4, <2>5, <2>6 DEF IInv
<1> QED
  BY <1>6, <1>7

\* The root is in front of the least key, on the levels that have it.
LEMMA FirstEntryInv ==
  ASSUME IInv, FirstEntry
  PROVE  /\ IInv' /\ value' = value /\ ret' = None /\ entry = NoEntry
         /\ IF Present = {} THEN entry' = NoEntry
            ELSE /\ entry' # NoEntry /\ entry'.key \in Present
                 /\ \A j \in Present : entry'.key <= j
<1> DEFINE k == next[0][Root]
           linked == {l \in 0 .. height[k] - 1 : next[l][Root] = k}
           vec == [l \in linked |-> [prec |-> Root, next |-> k]]
<1>1. TypeInv /\ Linked
  BY DEF IInv
<1>2. /\ Levels = 0 .. MaxHeight - 1 /\ 0 \in Levels /\ Root \in Root .. N /\ Root = 0
      /\ High(0) = Present /\ Present \subseteq 1 .. N /\ N \in Nat /\ Null = N + 1
      /\ \A l : Root \in Nodes(l)
  BY <1>1, LevelNodes, Sizes DEF Present, Nodes
<1>3. Follows(0, Root, k)
  BY <1>1, <1>2 DEF Linked
<1>4. Enter(IF k = Null THEN NoEntry ELSE Occupied(k, vec))
  BY DEF FirstEntry
<1> HIDE DEF k
<1>5. CASE k = Null
  <2>1. Enter(NoEntry)
    BY <1>4, <1>5
  <2>2. Present = {}
    <3> SUFFICES ASSUME NEW j \in Present PROVE FALSE
      OBVIOUS
    <3> QED BY <1>2, <1>3, <1>5 DEF Follows
  <2> QED BY <2>1, <2>2, EnterKeeps, NoneKnows DEF IInv
<1>6. CASE k # Null
  <2>1. Enter(Occupied(k, vec))
    BY <1>4, <1>6
  <2>2. /\ TypeInv' /\ Linked' /\ Counted' /\ Present' = Present
        /\ value' = value /\ height' = height /\ ret' = None
        /\ entry = NoEntry /\ entry' = Occupied(k, vec)
        /\ \A l, n, j : Precedes(l, n, j)' <=> Precedes(l, n, j)
    BY <2>1, EnterKeeps
  <2>3. /\ k \in Present /\ k \in Int /\ k \in Keys /\ \A j \in Present : k <= j
    BY <1>2, <1>3, <1>6 DEF Follows, Present
  <2>4. ASSUME NEW l \in 0 .. height[k] - 1
        PROVE  Precedes(l, vec[l].prec, k) /\ vec[l].next = k
    <3>1. l \in Levels /\ l \in Int
      BY <1>1, <1>2, <2>3, Sizes DEF TypeInv
    <3>2. \A j \in High(l) : j \in Present
      BY <1>1, <1>2, <3>1, Sizes DEF High, Present, TypeInv
    <3>3. Precedes(l, Root, k)
      <4>1. Root \in Nodes(l) /\ Root < k
        BY <1>2, <2>3
      <4>2. ASSUME NEW j \in High(l) PROVE ~(j < k)
        <5>1. j \in Present /\ k <= j
          BY <2>3, <3>2
        <5>2. j \in Int
          BY <1>2, <5>1
        <5> QED BY <2>3, <5>1, <5>2
      <4> QED BY <4>1, <4>2 DEF Precedes
    <3>4. k \in High(l) /\ k \in 1 .. Null
      BY <1>1, <1>2, <2>3, Sizes DEF TypeInv, High
    <3>5. next[l][Root] = k
      BY <1>1, <3>1, <3>3, <3>4, PrecLinked
    <3>6. l \in linked
      BY <3>5
    <3> QED BY <3>3, <3>6
  <2> HIDE DEF vec
  <2>5. entry'.kind = "occupied" /\ entry'.key = k /\ entry'.vec = vec
    BY <2>2 DEF Occupied
  <2>6. EntryInv' /\ VacantKnows'
    BY <2>3, <2>5 DEF EntryInv, VacantKnows
  <2>7. OccupiedKnows'
    BY <2>2, <2>3, <2>4, <2>5 DEF OccupiedKnows
  <2>8. entry' # NoEntry
    BY <2>5 DEF NoEntry
  <2> QED BY <2>2, <2>3, <2>5, <2>6, <2>7, <2>8 DEF IInv
<1> QED
  BY <1>5, <1>6

LEMMA LastEntryInv ==
  ASSUME IInv, LastEntry
  PROVE  /\ IInv' /\ value' = value /\ ret' = None /\ entry = NoEntry
         /\ IF Present = {} THEN entry' = NoEntry
            ELSE /\ entry' # NoEntry /\ entry'.key \in Present
                 /\ \A j \in Present : entry'.key >= j
<1> DEFINE k == SearchLast
           vec == PrecVec(k, height[k])
<1>1. TypeInv /\ Linked
  BY DEF IInv
<1>2. Present \subseteq 1 .. N /\ N \in Nat /\ Root = 0 /\ Null = N + 1
  BY Sizes DEF Present
<1>3. IF Present = {} THEN k = Root ELSE k \in Present /\ \A j \in Present : j <= k
  BY <1>1, SearchLastIs
<1>4. Enter(IF k = Root THEN NoEntry ELSE Occupied(k, vec))
  BY DEF LastEntry
<1> HIDE DEF k
<1>5. CASE Present = {}
  <2>1. Enter(NoEntry)
    BY <1>3, <1>4, <1>5
  <2> QED BY <1>5, <2>1, EnterKeeps, NoneKnows DEF IInv
<1>6. CASE Present # {}
  <2>1. k \in Present /\ k \in Keys /\ k \in 1 .. N /\ \A j \in Present : k >= j
    BY <1>2, <1>3, <1>6 DEF Present
  <2>2. Enter(Occupied(k, vec))
    BY <1>2, <1>4, <2>1
  <2>3. /\ TypeInv' /\ Linked' /\ Counted' /\ Present' = Present
        /\ value' = value /\ height' = height /\ ret' = None
        /\ entry = NoEntry /\ entry' = Occupied(k, vec)
        /\ \A l, n, j : Precedes(l, n, j)' <=> Precedes(l, n, j)
    BY <2>2, EnterKeeps
  <2>4. ASSUME NEW l \in 0 .. height[k] - 1
        PROVE  Precedes(l, vec[l].prec, k) /\ vec[l].next = k
    <3>1. l \in Levels /\ k \in High(l) /\ k \in 1 .. Null /\ height[k] \in 0 .. MaxHeight
      BY <1>1, <1>2, <2>1, Sizes DEF TypeInv, High
    <3>2. Precedes(l, vec[l].prec, k) /\ vec[l].next = next[l][vec[l].prec]
      BY <1>1, <3>1, PrecVecIs
    <3> QED BY <1>1, <3>1, <3>2, PrecLinked
  <2> HIDE DEF vec
  <2>5. entry'.kind = "occupied" /\ entry'.key = k /\ entry'.vec = vec
    BY <2>3 DEF Occupied
  <2>6. EntryInv' /\ VacantKnows'
    BY <2>1, <2>5 DEF EntryInv, VacantKnows
  <2>7. OccupiedKnows'
    BY <2>1, <2>3, <2>4, <2>5 DEF OccupiedKnows
  <2>8. entry' # NoEntry
    BY <2>5 DEF NoEntry
  <2> QED BY <1>6, <2>1, <2>3, <2>5, <2>6, <2>7, <2>8 DEF IInv
<1> QED
  BY <1>5, <1>6

LEMMA InsertVacantInv ==
  ASSUME IInv, NEW v \in Values, InsertVacant(v)
  PROVE  /\ IInv' /\ entry # NoEntry /\ entry.key \in Keys
         /\ value' = [value EXCEPT ![entry.key] = v] /\ ret' = value[entry.key]
         /\ entry' # NoEntry /\ entry'.key = entry.key
<1> DEFINE k == entry.key
           vec == entry.vec
<1>1. /\ TypeInv /\ Linked /\ Counted /\ entry.kind = "vacant"
      /\ NewNode(vec, k, v) /\ entry' = Occupied(k, vec) /\ ret' = None
  BY DEF IInv, InsertVacant
<1>2. entry # NoEntry /\ k \in Keys
  BY <1>1 DEF IInv, EntryInv, NoEntry
<1>3. k \notin Present /\ \A l \in Levels : /\ Precedes(l, vec[l].prec, k)
                                            /\ vec[l].next = next[l][vec[l].prec]
  BY <1>1 DEF IInv, VacantKnows
<1>4. value[k] = None
  BY <1>1, <1>2, <1>3 DEF TypeInv
<1> HIDE DEF k, vec
<1>5. /\ TypeInv' /\ Linked' /\ Counted' /\ Present' = Present \cup {k}
      /\ value' = [value EXCEPT ![k] = v]
  BY <1>1, <1>2, <1>3, LinkKeeps
<1>6. entry'.kind = "occupied" /\ entry'.key = k /\ entry'.vec = vec /\ entry' # NoEntry
  BY <1>1 DEF Occupied, NoEntry
<1>7. ~LinksAreOwn'
  <2>1. 0 \in Levels /\ k \in 1 .. Null /\ k # Null
    BY <1>2, Sizes
  <2>2. k \notin High(0)
    BY <1>1, <1>3, LevelNodes
  <2>3. vec[0].next # k
    BY <1>1, <1>3, <2>1, <2>2, PrecLinked
  <2> QED BY <1>6, <2>3 DEF LinksAreOwn
<1>8. EntryInv' /\ VacantKnows' /\ OccupiedKnows'
  BY <1>2, <1>5, <1>6, <1>7 DEF EntryInv, VacantKnows, OccupiedKnows
<1> QED
  BY <1>1, <1>2, <1>4, <1>5, <1>6, <1>8 DEF IInv, k

LEMMA InsertOccupiedInv ==
  ASSUME IInv, NEW v \in Values, InsertOccupied(v)
  PROVE  /\ IInv' /\ entry # NoEntry /\ entry.key \in Keys
         /\ value' = [value EXCEPT ![entry.key] = v] /\ ret' = value[entry.key]
         /\ entry' = entry
<1>1. /\ TypeInv /\ Linked /\ Counted /\ entry.kind = "occupied"
      /\ Swap(entry.key, v) /\ entry' = entry
  BY DEF IInv, InsertOccupied
<1>2. entry # NoEntry /\ entry.key \in Present /\ entry.key \in Keys
  BY <1>1 DEF IInv, OccupiedKnows, NoEntry, Present
<1>3. /\ TypeInv' /\ Linked' /\ Counted' /\ Present' = Present
      /\ value' = [value EXCEPT ![entry.key] = v] /\ ret' = value[entry.key]
  BY <1>1, <1>2, SwapKeeps
<1>4. height' = height
  BY <1>1 DEF Swap
<1>5. \A l, n, k : Precedes(l, n, k)' <=> Precedes(l, n, k)
  BY <1>4 DEF Precedes, Nodes, High
<1>6. EntryInv' /\ VacantKnows'
  BY <1>1, <1>2 DEF EntryInv, VacantKnows
<1>7. OccupiedKnows'
  BY <1>1, <1>3, <1>4, <1>5 DEF IInv, OccupiedKnows, LinksAreOwn
<1> QED
  BY <1>1, <1>2, <1>3, <1>6, <1>7 DEF IInv

LEMMA RemoveOccupiedInv ==
  ASSUME IInv, LinksAreOwn, RemoveOccupied
  PROVE  /\ IInv' /\ entry # NoEntry /\ entry.key \in Present
         /\ value' = [value EXCEPT ![entry.key] = None]
         /\ ret' = <<entry.key, value[entry.key]>> /\ entry' = NoEntry
<1>1. /\ TypeInv /\ Linked /\ Counted /\ entry.kind = "occupied"
      /\ UnlinkNodes(entry.vec, entry.key) /\ len' = len - 1 /\ entry' = NoEntry
      /\ ret' = <<entry.key, value[entry.key]>>
  BY DEF IInv, RemoveOccupied
<1>2. /\ entry # NoEntry /\ entry.key \in Present
      /\ \A l \in 0 .. height[entry.key] - 1 : /\ Precedes(l, entry.vec[l].prec, entry.key)
                                               /\ entry.vec[l].next = entry.key
  BY <1>1 DEF IInv, OccupiedKnows, NoEntry
<1>3. /\ TypeInv' /\ Linked' /\ Counted'
      /\ value' = [value EXCEPT ![entry.key] = None]
  BY <1>1, <1>2, UnlinkKeeps
<1>4. EntryInv' /\ VacantKnows' /\ OccupiedKnows'
  BY <1>1, NoneKnows
<1> QED
  BY <1>1, <1>2, <1>3, <1>4 DEF IInv

LEMMA DropEntryInv ==
  ASSUME IInv, DropEntry
  PROVE  IInv' /\ value' = value /\ entry' = NoEntry /\ ret' = None
<1>1. /\ next' = next /\ height' = height /\ value' = value /\ len' = len
      /\ entry' = NoEntry /\ ret' = None
  BY DEF DropEntry
<1>2. Present' = Present /\ \A l : High(l)' = High(l) /\ Nodes(l)' = Nodes(l)
  BY <1>1 DEF Present, High, Nodes
<1>3. TypeInv' /\ Linked' /\ Counted'
  BY <1>1, <1>2 DEF IInv, TypeInv, Linked, Counted, Follows
<1> QED
  BY <1>1, <1>3, NoneKnows DEF IInv

LEMMA StutterInv ==
  ASSUME IInv, UNCHANGED vars PROVE IInv'
<1>1. /\ next' = next /\ height' = height /\ value' = value /\ len' = len /\ entry' = entry
  BY DEF vars
<1>2. Present' = Present /\ \A l : High(l)' = High(l) /\ Nodes(l)' = Nodes(l)
  BY <1>1 DEF Present, High, Nodes
<1>3. \A l, n, k : Precedes(l, n, k)' <=> Precedes(l, n, k)
  BY <1>2 DEF Precedes
<1>4. TypeInv' /\ Linked' /\ Counted'
  BY <1>1, <1>2 DEF IInv, TypeInv, Linked, Counted, Follows
<1>5. EntryInv' /\ VacantKnows' /\ OccupiedKnows'
  BY <1>1, <1>2, <1>3 DEF IInv, EntryInv, VacantKnows, OccupiedKnows, LinksAreOwn
<1> QED
  BY <1>4, <1>5 DEF IInv

LEMMA NextInv == ASSUME IInv, [Next]_vars PROVE IInv'
<1>1. ASSUME NEW k \in Keys, RemoveEntry(k) PROVE IInv'
  BY <1>1, RemoveEntryInv
<1>2. ASSUME NEW k \in Keys, EntryOf(k) PROVE IInv'
  BY <1>2, EntryOfInv
<1>3. ASSUME NEW k \in Keys, NEW v \in Values, Insert(k, v) PROVE IInv'
  BY <1>3, InsertInv
<1>4. CASE Clear
  BY <1>4, ClearInv
<1>5. CASE FirstEntry
  BY <1>5, FirstEntryInv
<1>6. CASE LastEntry
  BY <1>6, LastEntryInv
<1>7. CASE DropEntry
  BY <1>7, DropEntryInv
<1>8. ASSUME NEW v \in Values, InsertVacant(v) PROVE IInv'
  BY <1>8, InsertVacantInv
<1>9. ASSUME NEW v \in Values, InsertOccupied(v) PROVE IInv'
  BY <1>9, InsertOccupiedInv
<1>10. CASE LinksAreOwn /\ RemoveOccupied
  BY <1>10, RemoveOccupiedInv
<1>11. CASE UNCHANGED vars
  BY <1>11, StutterInv
<1> QED
  BY <1>1, <1>2, <1>3, <1>4, <1>5, <1>6, <1>7, <1>8, <1>9, <1>10, <1>11
     DEF Next, MapCall, EntryCall

-----------------------------------------------------------------------------
(* The theorems.                                                           *)

\* Through calls of any kind, on the map and on entries that remember links, each
\* level links its nodes in order, the counter counts them, and the remembered links
\* are the right ones.
THEOREM InvHolds == Spec => []IInv
<1>1. Init => IInv
  BY InitInv
<1>2. IInv /\ [Next]_vars => IInv'
  BY NextInv
<1> QED
  BY <1>1, <1>2, PTL DEF Spec

\* The variables have their types, and a freed node is linked to nothing and has
\* no value.
THEOREM TypeCorrect == Spec => []TypeOK
<1>1. ASSUME IInv PROVE TypeOK
  <2>1. TypeInv /\ Linked /\ Counted /\ EntryInv
    BY <1>1 DEF IInv
  <2>2. \A k \in Keys : value[k] \in IF k \in Present THEN Values ELSE {None}
    BY <2>1 DEF TypeInv
  <2>3. ASSUME NEW l \in Levels, NEW k \in Keys, height[k] <= l PROVE next[l][k] = Null
    <3>1. k \notin Nodes(l) /\ k \in Root .. N
      BY <2>1, <2>3, Sizes DEF Nodes, High, TypeInv
    <3> QED BY <2>1, <3>1 DEF Linked
  <2>4. len \in 0 .. N
    <3>1. /\ Cardinality(Present) \in Nat /\ Cardinality(Present) <= N
      BY KeysFinite, FS_Subset, FS_CardinalityType DEF Present
    <3> QED BY <2>1, <3>1, Sizes DEF Counted
  <2> QED BY <2>1, <2>2, <2>3, <2>4 DEF TypeOK, TypeInv, EntryInv
<1> QED
  BY <1>1, InvHolds, PTL

\* Each level is in the order of the keys and holds all nodes that are high enough
\* for it and none that was freed, and len counts the nodes, after any calls, on the
\* map or through entries with links collected earlier.
THEOREM ListHolds == Spec => []ListInv
<1>1. ASSUME IInv PROVE ListInv
  <2>1. TypeInv /\ Linked /\ Counted
    BY <1>1 DEF IInv
  <2>2. \A l \in Levels : {n \in Root .. N : n = Root \/ height[n] > l} = Nodes(l)
    BY Sizes DEF Nodes, High
  <2>3. ASSUME NEW l \in Levels, NEW n \in Nodes(l) PROVE Follows(l, n, next[l][n])
    <3>1. n \in Root .. N
      BY Sizes DEF Nodes, High
    <3> QED BY <2>1, <3>1 DEF Linked
  <2>4. \A l \in Levels, n \in Root .. N :
          (n = Root \/ height[n] > l) => next[l][n] > n
    BY <2>2, <2>3 DEF Follows
  <2>5. ASSUME NEW l \in Levels
        PROVE  {next[l][n] : n \in Nodes(l)} = High(l) \cup {Null}
    <3>1. \A n \in Nodes(l) : next[l][n] \in High(l) \cup {Null}
      BY <2>3 DEF Follows
    <3>2. ASSUME NEW key \in High(l) \cup {Null}
          PROVE  \E n \in Nodes(l) : next[l][n] = key
      <4>1. key \in 1 .. Null
        BY <3>2, Sizes DEF High
      <4>2. PICK n : Precedes(l, n, key)
        BY <2>1, <4>1, PrecedesExists
      <4>3. n \in Nodes(l) /\ next[l][n] = key
        BY <2>1, <3>2, <4>1, <4>2, PrecLinked DEF Precedes
      <4> QED BY <4>3
    <3> QED BY <3>1, <3>2
  <2>6. \A l \in Levels : {k \in Keys : height[k] > l} = High(l)
    BY DEF High
  <2> QED BY <2>1, <2>2, <2>4, <2>5, <2>6 DEF ListInv, Counted
<1> QED
  BY <1>1, InvHolds, PTL

\* As many keys can be found as len tells, as long as an entry is removed through
\* links that were collected when its node was in the list.
THEOREM LenHolds == Spec => []LenIsExact
<1>1. ASSUME IInv PROVE LenIsExact
  <2>1. TypeInv /\ Linked /\ Counted
    BY <1>1 DEF IInv
  <2>2. \A k \in Keys : SearchExt(k) = k <=> k \in Present
    BY <2>1, SearchExtIs, Sizes
  <2>3. {k \in Keys : SearchExt(k) = k} = Present
    BY <2>2 DEF Present
  <2> QED BY <2>1, <2>3 DEF LenIsExact, Counted
<1> QED
  BY <1>1, InvHolds, PTL

\* All queries see the same keys: search, which may stop on any level, and
\* search_ext, which goes down to the last; the last key; iter; and range with any
\* bounds, whichever way its search goes over the levels.
THEOREM QueriesHold == Spec => []QueriesAgree
<1>1. ASSUME IInv PROVE QueriesAgree
  <2>1. TypeInv /\ Linked
    BY <1>1 DEF IInv
  <2>2. \A k \in Keys : Search(k) = SearchExt(k) /\ (Search(k) = k <=> k \in Present)
    BY <2>1, SearchIs, SearchExtIs, Sizes
  <2>3. SearchLast = IF Present = {} THEN Root
                     ELSE CHOOSE k \in Present : \A j \in Present : j <= k
    <3>1. CASE Present = {}
      BY <2>1, <3>1, SearchLastIs
    <3>2. CASE Present # {}
      <4>1. SearchLast \in Present /\ \A j \in Present : j <= SearchLast
        BY <2>1, <3>2, SearchLastIs
      <4>2. Present \subseteq 1 .. N
        BY Sizes DEF Present
      <4> DEFINE k == CHOOSE k \in Present : \A j \in Present : j <= k
      <4>3. k \in Present /\ \A j \in Present : j <= k
        BY <4>1
      <4> HIDE DEF k
      <4>4. k = SearchLast
        <5>1. k \in Int /\ SearchLast \in Int /\ k <= SearchLast /\ SearchLast <= k
          BY <4>1, <4>2, <4>3
        <5> QED BY <5>1
      <4> QED BY <3>2, <4>4 DEF k
    <3> QED BY <3>1, <3>2
  <2>4. Lists(Elements, Present)
    BY <2>1, ElementsIs
  <2>5. \A s, e \in Bounds : Lists(RangeOf(s, e), Between(s, e))
    BY <2>1, RangeOfIs
  <2> QED BY <2>2, <2>3, <2>4, <2>5 DEF QueriesAgree
<1> QED
  BY <1>1, InvHolds, PTL

-----------------------------------------------------------------------------
(* The refinement of a sorted map.  With the invariant, the dictionary is  *)
(* what the nodes hold.                                                    *)

View == IF entry = NoEntry THEN None ELSE entry.key

LEMMA DictIs ==
  IInv => [k \in Keys |-> IF SearchExt(k) = k THEN value[k] ELSE None] = value
<1> SUFFICES ASSUME IInv
             PROVE  [k \in Keys |-> IF SearchExt(k) = k THEN value[k] ELSE None] = value
  OBVIOUS
<1>1. TypeInv /\ Linked
  BY DEF IInv
<1>2. \A k \in Keys : SearchExt(k) = k <=> k \in Present
  BY <1>1, SearchExtIs, Sizes
<1>3. \A k \in Keys : k \notin Present => value[k] = None
  BY <1>1 DEF TypeInv
<1> QED
  BY <1>1, <1>2, <1>3 DEF TypeInv

LEMMA InitRefines == Init => Abstract!MapInit
<1> SUFFICES ASSUME Init PROVE Abstract!MapInit
  OBVIOUS
<1>1. [k \in Keys |-> IF SearchExt(k) = k THEN value[k] ELSE None] = value
  BY InitInv, DictIs
<1> QED
  BY <1>1 DEF Init, Abstract!MapInit

LEMMA NextRefines ==
  ASSUME IInv, IInv', [Next]_vars
  PROVE  [Abstract!MapNext]_(Abstract!mapVars)
<1> DEFINE dict == [k \in Keys |-> IF SearchExt(k) = k THEN value[k] ELSE None]
<1>1. dict = value
  BY DictIs
<1>2. (dict = value)'
  BY DictIs, PTL
<1>3. /\ TypeInv /\ Abstract!Present = Present
      /\ View = None <=> entry = NoEntry
      /\ View' = None <=> entry' = NoEntry
  <2>1. TypeInv /\ EntryInv /\ EntryInv'
    BY DEF IInv
  <2>2. \A k \in Keys : k # None
    BY NoneAssumption, Sizes
  <2>3. Abstract!Present = {k \in Keys : value[k] # None}
    BY <1>1 DEF Abstract!Present
  <2>4. Abstract!Present = Present
    BY <2>1, <2>3, NoneAssumption DEF TypeInv, Present
  <2> QED BY <2>1, <2>2, <2>4 DEF View, EntryInv
<1>4. ASSUME NEW k \in Keys, NEW v \in Values, Insert(k, v) PROVE Abstract!Put(k, v)
  <2>1. value' = [value EXCEPT ![k] = v] /\ ret' = value[k] /\ entry = NoEntry /\ entry' = entry
    BY <1>4, InsertInv DEF Insert
  <2> QED BY <1>1, <1>2, <2>1 DEF Abstract!Put
<1>5. ASSUME NEW k \in Keys, RemoveEntry(k) PROVE Abstract!Delete(k)
  <2>1. /\ value' = [value EXCEPT ![k] = None] /\ entry = NoEntry /\ entry' = entry
        /\ ret' = IF k \in Present THEN <<k, value[k]>> ELSE None
    BY <1>5, RemoveEntryInv DEF RemoveEntry
  <2> QED BY <1>1, <1>2, <1>3, <2>1 DEF Abstract!Delete
<1>6. ASSUME Clear PROVE Abstract!DeleteAll
  <2>1. value' = [k \in Keys |-> None] /\ entry = NoEntry /\ entry' = entry /\ ret' = None
    BY <1>6, ClearInv DEF Clear
  <2> QED BY <1>1, <1>2, <2>1 DEF Abstract!DeleteAll
<1>7. ASSUME NEW k \in Keys, value' = value, ret' = None, entry = NoEntry,
             entry' # NoEntry, entry'.key = k
      PROVE  Abstract!View(k)
  BY <1>1, <1>2, <1>7 DEF Abstract!View
<1>8. ASSUME NEW k \in Keys, EntryOf(k) PROVE Abstract!View(k)
  <2>1. /\ value' = value /\ ret' = None
        /\ entry = NoEntry /\ entry' # NoEntry /\ entry'.key = k
    BY <1>8, EntryOfInv
  <2> QED BY <1>7, <2>1
<1>9. ASSUME value' = value, ret' = None, entry' = NoEntry PROVE Abstract!LeaveView
  BY <1>1, <1>2, <1>9 DEF Abstract!LeaveView
<1>10. ASSUME FirstEntry PROVE Abstract!ViewLeast \/ Abstract!LeaveView
  <2>1. /\ value' = value /\ ret' = None /\ entry = NoEntry
        /\ IF Present = {} THEN entry' = NoEntry
           ELSE /\ entry' # NoEntry /\ entry'.key \in Present
                /\ \A j \in Present : entry'.key <= j
    BY <1>10, FirstEntryInv
  <2>2. CASE Present = {}
    BY <1>9, <2>1, <2>2
  <2>3. CASE Present # {}
    <3>1. PICK k : k = entry'.key
      OBVIOUS
    <3>2. k \in Present /\ k \in Keys /\ \A j \in Present : k <= j
      BY <2>1, <2>3, <3>1 DEF Present
    <3>3. Abstract!View(k)
      BY <1>7, <2>1, <2>3, <3>1, <3>2
    <3> QED BY <1>3, <3>2, <3>3 DEF Abstract!ViewLeast
  <2> QED BY <2>2, <2>3
<1>11. ASSUME LastEntry PROVE Abstract!ViewGreatest \/ Abstract!LeaveView
  <2>1. /\ value' = value /\ ret' = None /\ entry = NoEntry
        /\ IF Present = {} THEN entry' = NoEntry
           ELSE /\ entry' # NoEntry /\ entry'.key \in Present
                /\ \A j \in Present : entry'.key >= j
    BY <1>11, LastEntryInv
  <2>2. CASE Present = {}
    BY <1>9, <2>1, <2>2
  <2>3. CASE Present # {}
    <3>1. PICK k : k = entry'.key
      OBVIOUS
    <3>2. k \in Present /\ k \in Keys /\ \A j \in Present : k >= j
      BY <2>1, <2>3, <3>1 DEF Present
    <3>3. Abstract!View(k)
      BY <1>7, <2>1, <2>3, <3>1, <3>2
    <3> QED BY <1>3, <3>2, <3>3 DEF Abstract!ViewGreatest
  <2> QED BY <2>2, <2>3
<1>12. ASSUME NEW v \in Values, entry # NoEntry, entry.key \in Keys,
              value' = [value EXCEPT ![entry.key] = v], ret' = value[entry.key],
              entry' # NoEntry, entry'.key = entry.key
       PROVE  Abstract!PutThrough(v)
  BY <1>1, <1>2, <1>3, <1>12 DEF Abstract!PutThrough, View
<1>13. ASSUME NEW v \in Values, InsertVacant(v) PROVE Abstract!PutThrough(v)
  BY <1>12, <1>13, InsertVacantInv
<1>14. ASSUME NEW v \in Values, InsertOccupied(v) PROVE Abstract!PutThrough(v)
  BY <1>12, <1>14, InsertOccupiedInv
<1>15. ASSUME LinksAreOwn, RemoveOccupied PROVE Abstract!DeleteThrough
  <2>1. /\ entry # NoEntry /\ entry.key \in Present
        /\ value' = [value EXCEPT ![entry.key] = None]
        /\ ret' = <<entry.key, value[entry.key]>> /\ entry' = NoEntry
    BY <1>15, RemoveOccupiedInv
  <2> QED BY <1>1, <1>2, <1>3, <2>1 DEF Abstract!DeleteThrough
<1>16. ASSUME DropEntry PROVE Abstract!LeaveView
  BY <1>9, <1>16, DropEntryInv
<1>17. CASE UNCHANGED vars
  <2>1. value' = value /\ entry' = entry /\ ret' = ret
    BY <1>17 DEF vars
  <2> QED BY <1>1, <1>2, <2>1 DEF Abstract!mapVars
<1>18. ASSUME Next PROVE Abstract!MapNext
  BY <1>4, <1>5, <1>6, <1>8, <1>10, <1>11, <1>13, <1>14, <1>15, <1>16, <1>18
     DEF Next, MapCall, EntryCall, Abstract!MapNext
<1> QED
  BY <1>17, <1>18

\* The skip list is a sorted map: what every call returns, on the map or on an entry,
\* and the pairs it leaves are those of a dictionary, with its first and last entry
\* the least and the greatest key (ImplementsMap).
THEOREM Refinement == Spec => ImplementsMap
<1>1. IInv /\ IInv' /\ [Next]_vars => [Abstract!MapNext]_(Abstract!mapVars)
  BY NextRefines
<1> QED
  BY <1>1, InitRefines, InvHolds, PTL DEF Spec, ImplementsMap, Abstract!MapSpec

-----------------------------------------------------------------------------
(* The relations of two sets.  Their iterators walk over places: at each   *)
(* one they may yield a key, 0 standing for none, and go on to another     *)
(* place, until they come to none that there is.                           *)

StepAt(f, D, out, to, p) ==
  IF to[p] \notin D THEN <<>>
  ELSE IF out[p] = 0 THEN f[to[p]]
  ELSE <<out[p]>> \o f[to[p]]
Steps(f, D, out, to) == f = [p \in D |-> StepAt(f, D, out, to, p)]

\* They come to an end, so there is such a function: up to each rank, and then
\* for all places.
Falls(D, to, rank, b) ==
  /\ \A p \in D : rank[p] \in 0 .. b
  /\ \A p \in D : to[p] \in D => rank[to[p]] < rank[p]

StepsBelow(f, D, out, to, rank, n) ==
  \A p \in D : rank[p] < n => f[p] = StepAt(f, D, out, to, p)

LEMMA StepsUpTo ==
  ASSUME NEW D, NEW out, NEW to, NEW rank, NEW b \in Nat, Falls(D, to, rank, b), NEW n \in Nat
  PROVE  \E f : StepsBelow(f, D, out, to, rank, n)
<1> DEFINE Bad == {m \in Nat : ~ \E f : StepsBelow(f, D, out, to, rank, m)}
<1> SUFFICES ASSUME Bad # {} PROVE FALSE
  OBVIOUS
<1>1. PICK m \in Bad : \A k \in Bad : m <= k
  <2>1. Bad \subseteq Nat
    OBVIOUS
  <2> HIDE DEF Bad
  <2> QED BY <2>1, LeastNumber
<1>2. m \in Nat /\ ~ \E f : StepsBelow(f, D, out, to, rank, m)
  BY <1>1
<1>3. m # 0
  <2>1. ASSUME m = 0 PROVE \A f : StepsBelow(f, D, out, to, rank, m)
    <3> HIDE DEF Bad
    <3>1. \A p \in D : ~(rank[p] < m)
      BY <2>1 DEF Falls
    <3> QED BY <3>1 DEF StepsBelow
  <2> QED BY <2>1, <1>2
<1>4. PICK f : StepsBelow(f, D, out, to, rank, m - 1)
  <2>1. m - 1 \in Nat /\ ~(m <= m - 1)
    BY <1>2, <1>3
  <2>2. m - 1 \notin Bad
    <3> HIDE DEF Bad
    <3> QED BY <2>1, <1>1
  <2> QED BY <2>1, <2>2
<1> HIDE DEF Bad
<1> DEFINE g == [p \in D |-> IF rank[p] < m - 1 THEN f[p] ELSE StepAt(f, D, out, to, p)]
<1>5. ASSUME NEW p \in D, rank[p] < m PROVE g[p] = StepAt(g, D, out, to, p)
  <2>1. g[p] = StepAt(f, D, out, to, p)
    BY <1>4 DEF StepsBelow
  <2>2. ASSUME to[p] \in D PROVE g[to[p]] = f[to[p]]
    <3>1. rank[p] \in Nat /\ rank[to[p]] \in Nat /\ rank[to[p]] < rank[p]
      BY <2>2 DEF Falls
    <3>2. rank[to[p]] < m - 1
      BY <3>1, <1>5, <1>2
    <3> QED BY <2>2, <3>2
  <2> HIDE DEF g
  <2> QED BY <2>1, <2>2 DEF StepAt
<1> HIDE DEF g
<1>6. StepsBelow(g, D, out, to, rank, m)
  BY <1>5 DEF StepsBelow
<1> QED
  BY <1>6, <1>2

LEMMA StepsExist ==
  ASSUME NEW D, NEW out, NEW to, NEW rank, NEW b \in Nat, Falls(D, to, rank, b)
  PROVE  \E f : Steps(f, D, out, to)
<1>1. PICK n \in Nat : n = b + 1
  OBVIOUS
<1>2. PICK f : StepsBelow(f, D, out, to, rank, n)
  BY StepsUpTo
<1> DEFINE g == [p \in D |-> f[p]]
<1>3. ASSUME NEW p \in D PROVE f[p] = StepAt(g, D, out, to, p)
  <2>1. rank[p] < n
    BY <1>1 DEF Falls
  <2>2. f[p] = StepAt(f, D, out, to, p)
    BY <2>1, <1>2 DEF StepsBelow
  <2> QED BY <2>2 DEF StepAt
<1>4. Steps(g, D, out, to)
  BY <1>3 DEF Steps
<1> QED
  BY <1>4

\* What is left at a place, in order, if the key yielded there is before all that
\* is left afterwards.
Leaves(D, out, to, left) ==
  \A p \in D :
    /\ to[p] \notin D => left[p] = {}
    /\ to[p] \in D =>
         /\ left[to[p]] \subseteq Keys
         /\ out[p] = 0 => left[p] = left[to[p]]
         /\ out[p] # 0 => /\ out[p] \in Keys /\ left[p] = left[to[p]] \cup {out[p]}
                          /\ \A k \in left[to[p]] : out[p] < k

LEMMA StepsYield ==
  ASSUME NEW D, NEW out, NEW to, NEW rank, NEW b \in Nat, Falls(D, to, rank, b),
         NEW left, Leaves(D, out, to, left), NEW f, Steps(f, D, out, to), NEW p \in D
  PROVE  Lists(f[p], left[p])
<1> DEFINE Bad == {q \in D : ~Lists(f[q], left[q])}
           Ranks == {rank[q] : q \in Bad}
<1> SUFFICES ASSUME Bad # {} PROVE FALSE
  OBVIOUS
<1>1. Ranks \subseteq Nat /\ Ranks # {}
  BY DEF Falls
<1>2. PICK r \in Ranks : \A x \in Ranks : r <= x
  <2> HIDE DEF Ranks
  <2> QED BY <1>1, LeastNumber
<1>3. PICK q \in Bad : r = rank[q]
  OBVIOUS
<1>4. q \in D /\ ~Lists(f[q], left[q])
  OBVIOUS
<1>5. f[q] = IF to[q] \notin D THEN <<>>
             ELSE IF out[q] = 0 THEN f[to[q]]
             ELSE <<out[q]>> \o f[to[q]]
  BY <1>4 DEF Steps, StepAt
<1>6. to[q] \in D
  BY <1>4, <1>5, ListsEmpty DEF Leaves
<1>7. Lists(f[to[q]], left[to[q]])
  <2>1. rank[to[q]] < rank[q] /\ rank[q] \in Nat /\ rank[to[q]] \in Nat
    BY <1>4, <1>6 DEF Falls
  <2>2. ~(r <= rank[to[q]])
    BY <2>1, <1>3
  <2> QED BY <2>2, <1>2, <1>6
<1>8. out[q] # 0
  BY <1>4, <1>5, <1>6, <1>7 DEF Leaves
<1>9. /\ out[q] \in Nat /\ left[to[q]] \subseteq Nat /\ left[q] = left[to[q]] \cup {out[q]}
      /\ \A k \in left[to[q]] : out[q] < k
  BY <1>4, <1>6, <1>8, Sizes DEF Leaves
<1>10. Lists(<<out[q]>> \o f[to[q]], left[q])
  BY <1>7, <1>9, ListsMore
<1> QED
  BY <1>4, <1>5, <1>6, <1>8, <1>10

\* Two sequences of keys are walked side by side.
Keyed(s) == s \in Seq(Keys) /\ Ascends(s)
From(s, i) == {s[k] : k \in i .. Len(s)}
Sides(s, o) == (1 .. Len(s) + 1) \X (1 .. Len(o) + 1)

LEMMA FromFacts ==
  ASSUME NEW s, Keyed(s), NEW i \in 1 .. Len(s) + 1
  PROVE  /\ Len(s) \in Nat /\ From(s, i) \subseteq Keys
         /\ i > Len(s) => From(s, i) = {}
         /\ i <= Len(s) => /\ s[i] \in Keys /\ From(s, i) = From(s, i + 1) \cup {s[i]}
                           /\ i + 1 \in 1 .. Len(s) + 1
                           /\ \A k \in From(s, i + 1) : s[i] < k
<1>1. /\ Len(s) \in Nat /\ DOMAIN s = 1 .. Len(s) /\ \A k \in 1 .. Len(s) : s[k] \in Keys
      /\ \A k, j \in 1 .. Len(s) : k < j => s[k] < s[j]
  BY DEF Keyed, Ascends
<1>2. From(s, i) \subseteq Keys
  BY <1>1 DEF From
<1>3. ASSUME i > Len(s) PROVE From(s, i) = {}
  BY <1>1, <1>3 DEF From
<1>4. ASSUME i <= Len(s)
      PROVE  /\ s[i] \in Keys /\ i + 1 \in 1 .. Len(s) + 1
             /\ From(s, i) = From(s, i + 1) \cup {s[i]} /\ \A k \in From(s, i + 1) : s[i] < k
  <2>1. i \in 1 .. Len(s) /\ i .. Len(s) = (i + 1 .. Len(s)) \cup {i} /\ i + 1 \in 1 .. Len(s) + 1
    BY <1>1, <1>4
  <2>2. From(s, i) = From(s, i + 1) \cup {s[i]}
    BY <2>1 DEF From
  <2>3. \A k \in i + 1 .. Len(s) : s[i] < s[k]
    BY <2>1, <1>1
  <2> QED BY <2>1, <2>2, <2>3, <1>1 DEF From
<1> QED
  BY <1>1, <1>2, <1>3, <1>4

Ended(s, o, p) == p[1] > Len(s) /\ p[2] > Len(o)
OneEnded(s, o, p) == p[1] > Len(s) \/ p[2] > Len(o)
ThisFirst(s, o, p) == p[2] > Len(o) \/ (p[1] <= Len(s) /\ s[p[1]] < o[p[2]])
OtherFirst(s, o, p) == p[1] > Len(s) \/ o[p[2]] < s[p[1]]

\* What the least key is of those left on both sides.
LEMMA LeastOfSides ==
  ASSUME NEW s, NEW o, Keyed(s), Keyed(o), NEW p \in Sides(s, o)
  PROVE  LET i == p[1]
             j == p[2]
         IN  /\ Ended(s, o, p) => From(s, i) = {} /\ From(o, j) = {}
             /\ ~Ended(s, o, p) /\ ThisFirst(s, o, p) =>
                  /\ <<i + 1, j>> \in Sides(s, o) /\ s[i] \in Keys
                  /\ From(s, i) = From(s, i + 1) \cup {s[i]}
                  /\ \A k \in From(s, i + 1) \cup From(o, j) : s[i] < k
             /\ ~Ended(s, o, p) /\ ~ThisFirst(s, o, p) /\ OtherFirst(s, o, p) =>
                  /\ <<i, j + 1>> \in Sides(s, o) /\ o[j] \in Keys
                  /\ From(o, j) = From(o, j + 1) \cup {o[j]}
                  /\ \A k \in From(s, i) \cup From(o, j + 1) : o[j] < k
             /\ ~Ended(s, o, p) /\ ~ThisFirst(s, o, p) /\ ~OtherFirst(s, o, p) =>
                  /\ <<i + 1, j + 1>> \in Sides(s, o) /\ s[i] \in Keys
                  /\ From(s, i) = From(s, i + 1) \cup {s[i]}
                  /\ From(o, j) = From(o, j + 1) \cup {s[i]}
                  /\ \A k \in From(s, i + 1) \cup From(o, j + 1) : s[i] < k
<1> DEFINE i == p[1]
           j == p[2]
<1>1. i \in 1 .. Len(s) + 1 /\ j \in 1 .. Len(o) + 1 /\ Len(s) \in Nat /\ Len(o) \in Nat
  BY DEF Sides, Keyed
<1>2. /\ Keys \subseteq Nat /\ From(s, i) \subseteq Keys /\ From(o, j) \subseteq Keys
      /\ i > Len(s) => From(s, i) = {}
      /\ j > Len(o) => From(o, j) = {}
  BY <1>1, FromFacts, Sizes
<1>3. i <= Len(s) => /\ s[i] \in Keys /\ From(s, i) = From(s, i + 1) \cup {s[i]}
                     /\ i + 1 \in 1 .. Len(s) + 1 /\ \A k \in From(s, i + 1) : s[i] < k
  BY <1>1, FromFacts
<1>4. j <= Len(o) => /\ o[j] \in Keys /\ From(o, j) = From(o, j + 1) \cup {o[j]}
                     /\ j + 1 \in 1 .. Len(o) + 1 /\ \A k \in From(o, j + 1) : o[j] < k
  BY <1>1, FromFacts
<1>5. \A a, b : <<a, b>> \in Sides(s, o) <=> a \in 1 .. Len(s) + 1 /\ b \in 1 .. Len(o) + 1
  BY DEF Sides
<1> HIDE DEF i, j
<1>6. ASSUME ~Ended(s, o, p), ThisFirst(s, o, p)
      PROVE  /\ i <= Len(s)
             /\ \A k \in From(s, i + 1) \cup From(o, j) : s[i] < k
  <2>1. i <= Len(s)
    BY <1>1, <1>6 DEF Ended, ThisFirst, i, j
  <2>2. CASE j > Len(o)
    BY <2>1, <2>2, <1>2, <1>3
  <2>3. CASE ~(j > Len(o))
    <3>1. j <= Len(o) /\ s[i] < o[j]
      BY <1>1, <1>6, <2>3 DEF ThisFirst, i, j
    <3>2. \A k \in From(o, j) : k \in Nat /\ (k = o[j] \/ o[j] < k)
      BY <3>1, <1>2, <1>4
    <3>3. s[i] \in Nat /\ o[j] \in Nat
      BY <2>1, <3>1, <1>2, <1>3, <1>4
    <3>4. \A k \in From(o, j) : s[i] < k
      BY <3>1, <3>2, <3>3
    <3> QED BY <2>1, <3>4, <1>3
  <2> QED BY <2>1, <2>2, <2>3
<1>7. ASSUME ~Ended(s, o, p), ~ThisFirst(s, o, p), OtherFirst(s, o, p)
      PROVE  /\ j <= Len(o)
             /\ \A k \in From(s, i) \cup From(o, j + 1) : o[j] < k
  <2>1. j <= Len(o)
    BY <1>1, <1>7 DEF ThisFirst, i, j
  <2>2. CASE i > Len(s)
    BY <2>1, <2>2, <1>2, <1>4
  <2>3. CASE ~(i > Len(s))
    <3>1. i <= Len(s) /\ o[j] < s[i]
      BY <1>1, <1>7, <2>3 DEF OtherFirst, i, j
    <3>2. \A k \in From(s, i) : k \in Nat /\ (k = s[i] \/ s[i] < k)
      BY <3>1, <1>2, <1>3
    <3>3. s[i] \in Nat /\ o[j] \in Nat
      BY <2>1, <3>1, <1>2, <1>3, <1>4
    <3>4. \A k \in From(s, i) : o[j] < k
      BY <3>1, <3>2, <3>3
    <3> QED BY <2>1, <3>4, <1>4
  <2> QED BY <2>1, <2>2, <2>3
<1>8. ASSUME ~Ended(s, o, p), ~ThisFirst(s, o, p), ~OtherFirst(s, o, p)
      PROVE  i <= Len(s) /\ j <= Len(o) /\ o[j] = s[i]
  <2>1. i <= Len(s) /\ j <= Len(o) /\ ~(s[i] < o[j]) /\ ~(o[j] < s[i])
    BY <1>1, <1>8 DEF ThisFirst, OtherFirst, i, j
  <2>2. s[i] \in Nat /\ o[j] \in Nat
    BY <2>1, <1>2, <1>3, <1>4
  <2> QED BY <2>1, <2>2
<1>9. Ended(s, o, p) => From(s, i) = {} /\ From(o, j) = {}
  BY <1>2 DEF Ended, i, j
<1>10. ~Ended(s, o, p) /\ ThisFirst(s, o, p) =>
         /\ <<i + 1, j>> \in Sides(s, o) /\ s[i] \in Keys
         /\ From(s, i) = From(s, i + 1) \cup {s[i]}
         /\ \A k \in From(s, i + 1) \cup From(o, j) : s[i] < k
  BY <1>1, <1>3, <1>5, <1>6
<1>11. ~Ended(s, o, p) /\ ~ThisFirst(s, o, p) /\ OtherFirst(s, o, p) =>
         /\ <<i, j + 1>> \in Sides(s, o) /\ o[j] \in Keys
         /\ From(o, j) = From(o, j + 1) \cup {o[j]}
         /\ \A k \in From(s, i) \cup From(o, j + 1) : o[j] < k
  BY <1>1, <1>4, <1>5, <1>7
<1>12. ~Ended(s, o, p) /\ ~ThisFirst(s, o, p) /\ ~OtherFirst(s, o, p) =>
         /\ <<i + 1, j + 1>> \in Sides(s, o) /\ s[i] \in Keys
         /\ From(s, i) = From(s, i + 1) \cup {s[i]}
         /\ From(o, j) = From(o, j + 1) \cup {s[i]}
         /\ \A k \in From(s, i + 1) \cup From(o, j + 1) : s[i] < k
  BY <1>1, <1>3, <1>4, <1>5, <1>8
<1> QED
  BY <1>9, <1>10, <1>11, <1>12 DEF i, j

NextSide(s, o, p) ==
  IF ThisFirst(s, o, p) THEN <<p[1] + 1, p[2]>>
  ELSE IF OtherFirst(s, o, p) THEN <<p[1], p[2] + 1>>
  ELSE <<p[1] + 1, p[2] + 1>>
Nowhere == <<0, 0>>

LEMMA SidesFall ==
  ASSUME NEW s, NEW o, Keyed(s), Keyed(o), NEW to,
         \A p \in Sides(s, o) : to[p] \in {Nowhere, NextSide(s, o, p)}
  PROVE  \E rank : \E b \in Nat : Falls(Sides(s, o), to, rank, b)
<1> DEFINE b == Len(s) + Len(o)
           rank == [p \in Sides(s, o) |-> (Len(s) + 1 - p[1]) + (Len(o) + 1 - p[2])]
<1>1. Len(s) \in Nat /\ Len(o) \in Nat /\ b \in Nat
  BY DEF Keyed
<1>2. ASSUME NEW p \in Sides(s, o) PROVE rank[p] \in 0 .. b
  <2>1. p[1] \in 1 .. Len(s) + 1 /\ p[2] \in 1 .. Len(o) + 1
    BY DEF Sides
  <2>2. rank[p] = (Len(s) + 1 - p[1]) + (Len(o) + 1 - p[2])
    OBVIOUS
  <2> HIDE DEF rank
  <2> QED BY SMTT(60), <2>1, <2>2, <1>1
<1>3. ASSUME NEW p \in Sides(s, o), to[p] \in Sides(s, o) PROVE rank[to[p]] < rank[p]
  <2>1. p[1] \in 1 .. Len(s) + 1 /\ p[2] \in 1 .. Len(o) + 1
    BY DEF Sides
  <2>2. to[p] # Nowhere
    <3>1. to[p][1] \in 1 .. Len(s) + 1
      BY <1>3 DEF Sides
    <3>2. Nowhere[1] = 0
      BY DEF Nowhere
    <3> QED BY <3>1, <3>2, <1>1
  <2>3. to[p] \in {<<p[1] + 1, p[2]>>, <<p[1], p[2] + 1>>, <<p[1] + 1, p[2] + 1>>}
    BY <2>2 DEF NextSide
  <2>4. \/ to[p][1] = p[1] + 1 /\ to[p][2] = p[2]
        \/ to[p][1] = p[1] /\ to[p][2] = p[2] + 1
        \/ to[p][1] = p[1] + 1 /\ to[p][2] = p[2] + 1
    BY <2>3
  <2>5. rank[to[p]] = (Len(s) + 1 - to[p][1]) + (Len(o) + 1 - to[p][2])
    BY <1>3
  <2>6. rank[p] = (Len(s) + 1 - p[1]) + (Len(o) + 1 - p[2])
    OBVIOUS
  <2> HIDE DEF rank
  <2>7. PICK i, j, a, c : i = p[1] /\ j = p[2] /\ a = to[p][1] /\ c = to[p][2]
    OBVIOUS
  <2>8. i \in 1 .. Len(s) + 1 /\ j \in 1 .. Len(o) + 1
        /\ ((a = i + 1 /\ c = j) \/ (a = i /\ c = j + 1) \/ (a = i + 1 /\ c = j + 1))
    BY <2>1, <2>4, <2>7
  <2>9. (Len(s) + 1 - a) + (Len(o) + 1 - c) < (Len(s) + 1 - i) + (Len(o) + 1 - j)
    BY SMTT(60), <2>8, <1>1
  <2> QED BY <2>5, <2>6, <2>7, <2>9
<1>4. Falls(Sides(s, o), to, rank, b)
  <2> HIDE DEF rank, b
  <2> QED BY <1>2, <1>3 DEF Falls
<1> QED
  BY <1>1, <1>4

\* A walk from the front of both yields all that is left there.
LEMMA SidesYield ==
  ASSUME NEW s, NEW o, Keyed(s), Keyed(o), NEW to, NEW out, NEW left,
         \A p \in Sides(s, o) : to[p] \in {Nowhere, NextSide(s, o, p)},
         Leaves(Sides(s, o), out, to, left)
  PROVE  /\ \E f : Steps(f, Sides(s, o), out, to)
         /\ \A f : Steps(f, Sides(s, o), out, to) => Lists(f[<<1, 1>>], left[<<1, 1>>])
<1>1. PICK rank : \E b \in Nat : Falls(Sides(s, o), to, rank, b)
  BY SidesFall
<1>2. PICK b \in Nat : Falls(Sides(s, o), to, rank, b)
  BY <1>1
<1>3. <<1, 1>> \in Sides(s, o)
  BY DEF Sides, Keyed
<1>4. \E f : Steps(f, Sides(s, o), out, to)
  BY <1>2, StepsExist
<1>5. \A f : Steps(f, Sides(s, o), out, to) => Lists(f[<<1, 1>>], left[<<1, 1>>])
  BY <1>2, <1>3, StepsYield
<1> QED
  BY <1>4, <1>5

LEMMA NowhereIs == ASSUME NEW s, NEW o PROVE Nowhere \notin Sides(s, o)
BY DEF Nowhere, Sides

\* What is left before and after the least key is passed.
LeastKey(s, o, p) ==
  IF ThisFirst(s, o, p) THEN s[p[1]] ELSE IF OtherFirst(s, o, p) THEN o[p[2]] ELSE s[p[1]]

LEMMA NextSideIs ==
  ASSUME NEW s, NEW o, Keyed(s), Keyed(o), NEW p \in Sides(s, o), ~Ended(s, o, p),
         NEW q, q = NextSide(s, o, p), NEW k, k = LeastKey(s, o, p)
  PROVE  /\ q \in Sides(s, o) /\ k \in Keys /\ k # 0
         /\ From(s, q[1]) \subseteq Keys /\ From(o, q[2]) \subseteq Keys
         /\ \A m \in From(s, q[1]) \cup From(o, q[2]) : k < m
         /\ k \notin From(s, q[1]) /\ k \notin From(o, q[2])
         /\ ThisFirst(s, o, p) =>
              From(s, p[1]) = From(s, q[1]) \cup {k} /\ From(o, p[2]) = From(o, q[2])
         /\ ~ThisFirst(s, o, p) /\ OtherFirst(s, o, p) =>
              From(s, p[1]) = From(s, q[1]) /\ From(o, p[2]) = From(o, q[2]) \cup {k}
         /\ ~ThisFirst(s, o, p) /\ ~OtherFirst(s, o, p) =>
              /\ From(s, p[1]) = From(s, q[1]) \cup {k}
              /\ From(o, p[2]) = From(o, q[2]) \cup {k}
<1>1. ASSUME ThisFirst(s, o, p)
      PROVE  /\ q \in Sides(s, o) /\ k \in Keys
             /\ \A m \in From(s, q[1]) \cup From(o, q[2]) : k < m
             /\ From(s, p[1]) = From(s, q[1]) \cup {k} /\ From(o, p[2]) = From(o, q[2])
  <2>1. q = <<p[1] + 1, p[2]>> /\ k = s[p[1]] /\ q[1] = p[1] + 1 /\ q[2] = p[2]
    BY <1>1 DEF NextSide, LeastKey
  <2>2. /\ <<p[1] + 1, p[2]>> \in Sides(s, o) /\ s[p[1]] \in Keys
        /\ From(s, p[1]) = From(s, p[1] + 1) \cup {s[p[1]]} /\ From(o, p[2]) = From(o, p[2])
        /\ \A m \in From(s, p[1] + 1) \cup From(o, p[2]) : s[p[1]] < m
    BY <1>1, LeastOfSides
  <2> QED BY <2>1, <2>2
<1>2. ASSUME ~ThisFirst(s, o, p), OtherFirst(s, o, p)
      PROVE  /\ q \in Sides(s, o) /\ k \in Keys
             /\ \A m \in From(s, q[1]) \cup From(o, q[2]) : k < m
             /\ From(s, p[1]) = From(s, q[1]) /\ From(o, p[2]) = From(o, q[2]) \cup {k}
  <2>1. q = <<p[1], p[2] + 1>> /\ k = o[p[2]] /\ q[1] = p[1] /\ q[2] = p[2] + 1
    BY <1>2 DEF NextSide, LeastKey
  <2>2. /\ <<p[1], p[2] + 1>> \in Sides(s, o) /\ o[p[2]] \in Keys
        /\ From(s, p[1]) = From(s, p[1]) /\ From(o, p[2]) = From(o, p[2] + 1) \cup {o[p[2]]}
        /\ \A m \in From(s, p[1]) \cup From(o, p[2] + 1) : o[p[2]] < m
    BY <1>2, LeastOfSides
  <2> QED BY <2>1, <2>2
<1>3. ASSUME ~ThisFirst(s, o, p), ~OtherFirst(s, o, p)
      PROVE  /\ q \in Sides(s, o) /\ k \in Keys
             /\ \A m \in From(s, q[1]) \cup From(o, q[2]) : k < m
             /\ From(s, p[1]) = From(s, q[1]) \cup {k} /\ From(o, p[2]) = From(o, q[2]) \cup {k}
  <2>1. q = <<p[1] + 1, p[2] + 1>> /\ k = s[p[1]] /\ q[1] = p[1] + 1 /\ q[2] = p[2] + 1
    BY <1>3 DEF NextSide, LeastKey
  <2>2. /\ <<p[1] + 1, p[2] + 1>> \in Sides(s, o) /\ s[p[1]] \in Keys
        /\ From(s, p[1]) = From(s, p[1] + 1) \cup {s[p[1]]}
        /\ From(o, p[2]) = From(o, p[2] + 1) \cup {s[p[1]]}
        /\ \A m \in From(s, p[1] + 1) \cup From(o, p[2] + 1) : s[p[1]] < m
    BY <1>3, LeastOfSides
  <2> QED BY <2>1, <2>2
<1>4. q \in Sides(s, o) /\ k \in Keys /\ \A m \in From(s, q[1]) \cup From(o, q[2]) : k < m
  BY <1>1, <1>2, <1>3
<1>5. k # 0 /\ k \in Nat
  BY <1>4, Sizes
<1>6. From(s, q[1]) \subseteq Keys /\ From(o, q[2]) \subseteq Keys
  <2>1. q[1] \in 1 .. Len(s) + 1 /\ q[2] \in 1 .. Len(o) + 1
    BY <1>4 DEF Sides
  <2> QED BY <2>1, FromFacts
<1>7. k \notin From(s, q[1]) /\ k \notin From(o, q[2])
  BY <1>4, <1>5
<1> QED
  BY <1>1, <1>2, <1>3, <1>4, <1>5, <1>6, <1>7

\* The walks: of both iterators the smaller key is taken, until both end.
Onward(s, o) ==
  [p \in Sides(s, o) |-> IF Ended(s, o, p) THEN Nowhere ELSE NextSide(s, o, p)]

LEMMA UnionIs ==
  ASSUME NEW s, NEW o, Keyed(s), Keyed(o)
  PROVE  Lists(Union(s, o), From(s, 1) \cup From(o, 1))
<1> DEFINE D == Sides(s, o)
           to == Onward(s, o)
           out == [p \in D |-> LeastKey(s, o, p)]
           left == [p \in D |-> From(s, p[1]) \cup From(o, p[2])]
           Body(f, p) ==
             IF p[1] > Len(s) /\ p[2] > Len(o) THEN <<>>
             ELSE IF p[2] > Len(o) \/ (p[1] <= Len(s) /\ s[p[1]] < o[p[2]])
                  THEN <<s[p[1]]>> \o f[<<p[1] + 1, p[2]>>]
             ELSE IF p[1] > Len(s) \/ o[p[2]] < s[p[1]]
                  THEN <<o[p[2]]>> \o f[<<p[1], p[2] + 1>>]
             ELSE <<s[p[1]]>> \o f[<<p[1] + 1, p[2] + 1>>]
<1>1. \A p \in D : to[p] = IF Ended(s, o, p) THEN Nowhere ELSE NextSide(s, o, p)
  BY DEF Onward
<1>2. Leaves(D, out, to, left)
  <2> SUFFICES ASSUME NEW p \in D
               PROVE  /\ to[p] \notin D => left[p] = {}
                      /\ to[p] \in D =>
                           /\ left[to[p]] \subseteq Keys
                           /\ out[p] = 0 => left[p] = left[to[p]]
                           /\ out[p] # 0 => /\ out[p] \in Keys
                                            /\ left[p] = left[to[p]] \cup {out[p]}
                                            /\ \A k \in left[to[p]] : out[p] < k
    BY DEF Leaves
  <2>1. CASE Ended(s, o, p)
    <3>1. to[p] \notin D
      BY <1>1, <2>1, NowhereIs
    <3>2. left[p] = {}
      BY <2>1, LeastOfSides
    <3> QED BY <3>1, <3>2
  <2>2. CASE ~Ended(s, o, p)
    <3> DEFINE q == to[p]
               k == out[p]
    <3>1. q = NextSide(s, o, p) /\ k = LeastKey(s, o, p)
      BY <1>1, <2>2
    <3> HIDE DEF q, k
    <3>2. /\ q \in D /\ k \in Keys /\ k # 0
          /\ From(s, q[1]) \subseteq Keys /\ From(o, q[2]) \subseteq Keys
          /\ \A m \in From(s, q[1]) \cup From(o, q[2]) : k < m
          /\ From(s, p[1]) \cup From(o, p[2]) = (From(s, q[1]) \cup From(o, q[2])) \cup {k}
      BY <2>2, <3>1, NextSideIs
    <3>3. left[q] = From(s, q[1]) \cup From(o, q[2]) /\ left[p] = From(s, p[1]) \cup From(o, p[2])
      BY <3>2
    <3> HIDE DEF left
    <3> QED BY <3>2, <3>3 DEF q, k
  <2> QED BY <2>1, <2>2
<1>3. ASSUME NEW f, NEW p \in D PROVE Body(f, p) = StepAt(f, D, out, to, p)
  <2>1. CASE Ended(s, o, p)
    BY ZenonT(60), SMTT(60), <2>1, <1>1, NowhereIs DEF StepAt, Ended
  <2>2. CASE ~Ended(s, o, p)
    <3>1. NextSide(s, o, p) \in D /\ LeastKey(s, o, p) # 0
      BY <2>2, NextSideIs
    <3>2. StepAt(f, D, out, to, p) = <<LeastKey(s, o, p)>> \o f[NextSide(s, o, p)]
      BY <2>2, <3>1, <1>1 DEF StepAt
    <3> QED BY <2>2, <3>2 DEF NextSide, LeastKey, ThisFirst, OtherFirst, Ended
  <2> HIDE DEF Body, to, out, left
  <2> QED BY <2>1, <2>2
<1>4. Union(s, o) = (CHOOSE f : f = [p \in D |-> Body(f, p)])[<<1, 1>>]
  BY DEF Union, Sides
<1>5. \A f : f = [p \in D |-> Body(f, p)] <=> Steps(f, D, out, to)
  <2> HIDE DEF Body
  <2> QED BY <1>3 DEF Steps
<1>6. /\ \E f : Steps(f, D, out, to)
      /\ \A f : Steps(f, D, out, to) => Lists(f[<<1, 1>>], left[<<1, 1>>])
  <2>1. \A p \in D : to[p] \in {Nowhere, NextSide(s, o, p)}
    BY <1>1
  <2> HIDE DEF to, out, left
  <2> QED BY <2>1, <1>2, SidesYield
<1>7. Lists(Union(s, o), left[<<1, 1>>])
  <2> HIDE DEF to, out, left, Body
  <2> QED BY <1>4, <1>5, <1>6
<1>8. left[<<1, 1>>] = From(s, 1) \cup From(o, 1)
  BY DEF Sides, Keyed
<1> QED
  BY <1>7, <1>8
LEMMA SymmetricDifferenceIs ==
  ASSUME NEW s, NEW o, Keyed(s), Keyed(o)
  PROVE  Lists(SymmetricDifference(s, o),
               (From(s, 1) \cup From(o, 1)) \ (From(s, 1) \cap From(o, 1)))
<1> DEFINE D == Sides(s, o)
           to == Onward(s, o)
           out == [p \in D |-> IF ThisFirst(s, o, p) \/ OtherFirst(s, o, p)
                               THEN LeastKey(s, o, p) ELSE 0]
           left == [p \in D |-> (From(s, p[1]) \cup From(o, p[2]))
                                \ (From(s, p[1]) \cap From(o, p[2]))]
           Body(f, p) ==
             IF p[1] > Len(s) /\ p[2] > Len(o) THEN <<>>
             ELSE IF p[2] > Len(o) \/ (p[1] <= Len(s) /\ s[p[1]] < o[p[2]])
                  THEN <<s[p[1]]>> \o f[<<p[1] + 1, p[2]>>]
             ELSE IF p[1] > Len(s) \/ o[p[2]] < s[p[1]]
                  THEN <<o[p[2]]>> \o f[<<p[1], p[2] + 1>>]
             ELSE f[<<p[1] + 1, p[2] + 1>>]
<1>1. \A p \in D : to[p] = IF Ended(s, o, p) THEN Nowhere ELSE NextSide(s, o, p)
  BY DEF Onward
<1>2. Leaves(D, out, to, left)
  <2> SUFFICES ASSUME NEW p \in D
               PROVE  /\ to[p] \notin D => left[p] = {}
                      /\ to[p] \in D =>
                           /\ left[to[p]] \subseteq Keys
                           /\ out[p] = 0 => left[p] = left[to[p]]
                           /\ out[p] # 0 => /\ out[p] \in Keys
                                            /\ left[p] = left[to[p]] \cup {out[p]}
                                            /\ \A k \in left[to[p]] : out[p] < k
    BY DEF Leaves
  <2>1. CASE Ended(s, o, p)
    <3>1. to[p] \notin D
      BY <1>1, <2>1, NowhereIs
    <3>2. left[p] = {}
      BY <2>1, LeastOfSides
    <3> QED BY <3>1, <3>2
  <2>2. CASE ~Ended(s, o, p)
    <3> DEFINE q == to[p]
               k == LeastKey(s, o, p)
    <3>1. q = NextSide(s, o, p)
      BY <1>1, <2>2
    <3>2. out[p] = IF ThisFirst(s, o, p) \/ OtherFirst(s, o, p) THEN k ELSE 0
      OBVIOUS
    <3>3. k = LeastKey(s, o, p)
      OBVIOUS
    <3> HIDE DEF q, k, out
    <3>4. /\ q \in D /\ k \in Keys /\ k # 0
          /\ From(s, q[1]) \subseteq Keys /\ From(o, q[2]) \subseteq Keys
          /\ \A m \in From(s, q[1]) \cup From(o, q[2]) : k < m
          /\ k \notin From(s, q[1]) /\ k \notin From(o, q[2])
          /\ ThisFirst(s, o, p) =>
               From(s, p[1]) = From(s, q[1]) \cup {k} /\ From(o, p[2]) = From(o, q[2])
          /\ ~ThisFirst(s, o, p) /\ OtherFirst(s, o, p) =>
               From(s, p[1]) = From(s, q[1]) /\ From(o, p[2]) = From(o, q[2]) \cup {k}
          /\ ~ThisFirst(s, o, p) /\ ~OtherFirst(s, o, p) =>
               /\ From(s, p[1]) = From(s, q[1]) \cup {k}
               /\ From(o, p[2]) = From(o, q[2]) \cup {k}
      BY <2>2, <3>1, <3>3, NextSideIs
    <3>5. /\ left[q] = (From(s, q[1]) \cup From(o, q[2])) \ (From(s, q[1]) \cap From(o, q[2]))
          /\ left[p] = (From(s, p[1]) \cup From(o, p[2])) \ (From(s, p[1]) \cap From(o, p[2]))
      BY <3>4
    <3> HIDE DEF left
    <3>6. left[q] \subseteq Keys /\ \A m \in left[q] : k < m
      BY <3>4, <3>5
    <3>7. ThisFirst(s, o, p) \/ OtherFirst(s, o, p) => left[p] = left[q] \cup {k}
      BY <3>4, <3>5
    <3>8. ~ThisFirst(s, o, p) /\ ~OtherFirst(s, o, p) => left[p] = left[q]
      BY <3>4, <3>5
    <3> QED BY <3>2, <3>4, <3>6, <3>7, <3>8 DEF q
  <2> QED BY <2>1, <2>2
<1>3. ASSUME NEW f, NEW p \in D PROVE Body(f, p) = StepAt(f, D, out, to, p)
  <2>1. CASE Ended(s, o, p)
    BY <2>1, <1>1, NowhereIs DEF StepAt, Ended
  <2>2. CASE ~Ended(s, o, p)
    <3>1. NextSide(s, o, p) \in D /\ LeastKey(s, o, p) # 0
      BY <2>2, NextSideIs
    <3>2. CASE ThisFirst(s, o, p) \/ OtherFirst(s, o, p)
      <4>1. StepAt(f, D, out, to, p) = <<LeastKey(s, o, p)>> \o f[NextSide(s, o, p)]
        BY <2>2, <3>1, <3>2, <1>1 DEF StepAt
      <4> QED BY ZenonT(60), SMTT(60), <2>2, <3>2, <4>1 DEF NextSide, LeastKey, ThisFirst, OtherFirst, Ended
    <3>3. CASE ~ThisFirst(s, o, p) /\ ~OtherFirst(s, o, p)
      <4>1. StepAt(f, D, out, to, p) = f[NextSide(s, o, p)]
        BY <2>2, <3>1, <3>3, <1>1 DEF StepAt
      <4> QED BY <2>2, <3>3, <4>1 DEF NextSide, ThisFirst, OtherFirst, Ended
    <3> HIDE DEF Body, to, out, left
    <3> QED BY ZenonT(60), SMTT(60), <3>2, <3>3
  <2> HIDE DEF Body, to, out, left
  <2> QED BY <2>1, <2>2
<1>4. SymmetricDifference(s, o) = (CHOOSE f : f = [p \in D |-> Body(f, p)])[<<1, 1>>]
  BY DEF SymmetricDifference, Sides
<1>5. \A f : f = [p \in D |-> Body(f, p)] <=> Steps(f, D, out, to)
  <2> HIDE DEF Body
  <2> QED BY <1>3 DEF Steps
<1>6. /\ \E f : Steps(f, D, out, to)
      /\ \A f : Steps(f, D, out, to) => Lists(f[<<1, 1>>], left[<<1, 1>>])
  <2>1. \A p \in D : to[p] \in {Nowhere, NextSide(s, o, p)}
    BY <1>1
  <2> HIDE DEF to, out, left
  <2> QED BY <2>1, <1>2, SidesYield
<1>7. Lists(SymmetricDifference(s, o), left[<<1, 1>>])
  <2> HIDE DEF to, out, left, Body
  <2> QED BY <1>4, <1>5, <1>6
<1>8. left[<<1, 1>>] = (From(s, 1) \cup From(o, 1)) \ (From(s, 1) \cap From(o, 1))
  BY DEF Sides, Keyed
<1> QED
  BY <1>7, <1>8
LEMMA CommonIs ==
  ASSUME NEW s, NEW o, Keyed(s), Keyed(o)
  PROVE  Lists(Common(s, o), From(s, 1) \cap From(o, 1))
<1> DEFINE D == Sides(s, o)
           to == [p \in D |-> IF OneEnded(s, o, p) THEN Nowhere ELSE NextSide(s, o, p)]
           out == [p \in D |-> IF ThisFirst(s, o, p) \/ OtherFirst(s, o, p)
                               THEN 0 ELSE LeastKey(s, o, p)]
           left == [p \in D |-> From(s, p[1]) \cap From(o, p[2])]
           Body(f, p) ==
             IF p[1] > Len(s) \/ p[2] > Len(o) THEN <<>>
             ELSE IF s[p[1]] < o[p[2]] THEN f[<<p[1] + 1, p[2]>>]
             ELSE IF o[p[2]] < s[p[1]] THEN f[<<p[1], p[2] + 1>>]
             ELSE <<s[p[1]]>> \o f[<<p[1] + 1, p[2] + 1>>]
<1>1. \A p \in D : to[p] = IF OneEnded(s, o, p) THEN Nowhere ELSE NextSide(s, o, p)
  OBVIOUS
<1>0. ASSUME NEW p \in D, ~OneEnded(s, o, p)
      PROVE  /\ ~Ended(s, o, p) /\ ~(p[1] > Len(s)) /\ ~(p[2] > Len(o)) /\ p[1] <= Len(s)
             /\ ThisFirst(s, o, p) <=> s[p[1]] < o[p[2]]
             /\ OtherFirst(s, o, p) <=> o[p[2]] < s[p[1]]
  <2>1. p[1] \in 1 .. Len(s) + 1 /\ p[2] \in 1 .. Len(o) + 1 /\ Len(s) \in Nat /\ Len(o) \in Nat
    BY DEF Sides, Keyed
  <2>2. ~(p[1] > Len(s)) /\ ~(p[2] > Len(o)) /\ p[1] <= Len(s)
    BY <1>0, <2>1 DEF OneEnded
  <2> QED BY <2>2 DEF Ended, ThisFirst, OtherFirst
<1>2. Leaves(D, out, to, left)
  <2> SUFFICES ASSUME NEW p \in D
               PROVE  /\ to[p] \notin D => left[p] = {}
                      /\ to[p] \in D =>
                           /\ left[to[p]] \subseteq Keys
                           /\ out[p] = 0 => left[p] = left[to[p]]
                           /\ out[p] # 0 => /\ out[p] \in Keys
                                            /\ left[p] = left[to[p]] \cup {out[p]}
                                            /\ \A k \in left[to[p]] : out[p] < k
    BY DEF Leaves
  <2>1. CASE OneEnded(s, o, p)
    <3>1. to[p] \notin D
      BY <1>1, <2>1, NowhereIs
    <3>2. left[p] = {}
      <4>1. From(s, p[1]) = {} \/ From(o, p[2]) = {}
        BY <2>1, FromFacts DEF OneEnded, Sides
      <4> QED BY <4>1
    <3> QED BY <3>1, <3>2
  <2>2. CASE ~OneEnded(s, o, p)
    <3> DEFINE q == to[p]
               k == LeastKey(s, o, p)
    <3>1. q = NextSide(s, o, p)
      BY <1>1, <2>2
    <3>2. out[p] = IF ThisFirst(s, o, p) \/ OtherFirst(s, o, p) THEN 0 ELSE k
      OBVIOUS
    <3>3. k = LeastKey(s, o, p)
      OBVIOUS
    <3> HIDE DEF q, k, out
    <3>4. /\ q \in D /\ k \in Keys /\ k # 0
          /\ From(s, q[1]) \subseteq Keys /\ From(o, q[2]) \subseteq Keys
          /\ \A m \in From(s, q[1]) \cup From(o, q[2]) : k < m
          /\ k \notin From(s, q[1]) /\ k \notin From(o, q[2])
          /\ ThisFirst(s, o, p) =>
               From(s, p[1]) = From(s, q[1]) \cup {k} /\ From(o, p[2]) = From(o, q[2])
          /\ ~ThisFirst(s, o, p) /\ OtherFirst(s, o, p) =>
               From(s, p[1]) = From(s, q[1]) /\ From(o, p[2]) = From(o, q[2]) \cup {k}
          /\ ~ThisFirst(s, o, p) /\ ~OtherFirst(s, o, p) =>
               /\ From(s, p[1]) = From(s, q[1]) \cup {k}
               /\ From(o, p[2]) = From(o, q[2]) \cup {k}
      <4>1. ~Ended(s, o, p)
        BY <2>2, <1>0
      <4> QED BY <4>1, <3>1, <3>3, NextSideIs
    <3>5. /\ left[q] = From(s, q[1]) \cap From(o, q[2])
          /\ left[p] = From(s, p[1]) \cap From(o, p[2])
      BY <3>4
    <3> HIDE DEF left
    <3>6. left[q] \subseteq Keys /\ \A m \in left[q] : k < m
      BY <3>4, <3>5
    <3>7. ThisFirst(s, o, p) \/ OtherFirst(s, o, p) => left[p] = left[q]
      BY <3>4, <3>5
    <3>8. ~ThisFirst(s, o, p) /\ ~OtherFirst(s, o, p) => left[p] = left[q] \cup {k}
      BY <3>4, <3>5
    <3> QED BY <3>2, <3>4, <3>6, <3>7, <3>8 DEF q
  <2> QED BY <2>1, <2>2
<1>3. ASSUME NEW f, NEW p \in D PROVE Body(f, p) = StepAt(f, D, out, to, p)
  <2>1. CASE OneEnded(s, o, p)
    BY <2>1, <1>1, NowhereIs DEF StepAt, OneEnded
  <2>2. CASE ~OneEnded(s, o, p)
    <3>1. NextSide(s, o, p) \in D /\ LeastKey(s, o, p) # 0
      BY <2>2, <1>0, NextSideIs
    <3>2. CASE ThisFirst(s, o, p) \/ OtherFirst(s, o, p)
      <4>1. StepAt(f, D, out, to, p) = f[NextSide(s, o, p)]
        BY <2>2, <3>1, <3>2, <1>1 DEF StepAt
      <4> QED BY <2>2, <3>2, <4>1, <1>0 DEF NextSide
    <3>3. CASE ~ThisFirst(s, o, p) /\ ~OtherFirst(s, o, p)
      <4>1. StepAt(f, D, out, to, p) = <<LeastKey(s, o, p)>> \o f[NextSide(s, o, p)]
        BY <2>2, <3>1, <3>3, <1>1 DEF StepAt
      <4> QED BY <2>2, <3>3, <4>1, <1>0 DEF NextSide, LeastKey
    <3> HIDE DEF Body, to, out, left
    <3> QED BY <3>2, <3>3
  <2> HIDE DEF Body, to, out, left
  <2> QED BY <2>1, <2>2
<1>4. Common(s, o) = (CHOOSE f : f = [p \in D |-> Body(f, p)])[<<1, 1>>]
  BY DEF Common, Sides
<1>5. \A f : f = [p \in D |-> Body(f, p)] <=> Steps(f, D, out, to)
  <2> HIDE DEF Body
  <2> QED BY <1>3 DEF Steps
<1>6. /\ \E f : Steps(f, D, out, to)
      /\ \A f : Steps(f, D, out, to) => Lists(f[<<1, 1>>], left[<<1, 1>>])
  <2>1. \A p \in D : to[p] \in {Nowhere, NextSide(s, o, p)}
    BY <1>1
  <2> HIDE DEF to, out, left
  <2> QED BY <2>1, <1>2, SidesYield
<1>7. Lists(Common(s, o), left[<<1, 1>>])
  <2> HIDE DEF to, out, left, Body
  <2> QED BY <1>4, <1>5, <1>6
<1>8. left[<<1, 1>>] = From(s, 1) \cap From(o, 1)
  BY DEF Sides, Keyed
<1> QED BY <1>7, <1>8

\* What is kept of a sequence.
LEMMA KeptIs ==
  ASSUME NEW s, Keyed(s), NEW S
  PROVE  Lists(Kept(s, S), From(s, 1) \cap S)
<1> DEFINE D == 1 .. Len(s) + 1
           to == [i \in D |-> IF i > Len(s) THEN 0 ELSE i + 1]
           out == [i \in D |-> IF i \in 1 .. Len(s) /\ s[i] \in S THEN s[i] ELSE 0]
           left == [i \in D |-> From(s, i) \cap S]
           rank == [i \in D |-> Len(s) + 1 - i]
           Body(f, i) ==
             IF i > Len(s) THEN <<>>
             ELSE IF s[i] \in S THEN <<s[i]>> \o f[i + 1]
             ELSE f[i + 1]
<1>1. Len(s) \in Nat /\ Keys \subseteq Nat /\ 0 \notin Keys
  BY Sizes DEF Keyed
<1>2. ASSUME NEW i \in D
      PROVE  /\ i > Len(s) => to[i] \notin D /\ left[i] = {}
             /\ i <= Len(s) =>
                  /\ to[i] = i + 1 /\ i + 1 \in D /\ s[i] \in Keys
                  /\ out[i] = IF s[i] \in S THEN s[i] ELSE 0
                  /\ left[i] = left[i + 1] \cup ({s[i]} \cap S)
                  /\ left[i + 1] \subseteq Keys /\ \A k \in left[i + 1] : s[i] < k
  <2>1. ASSUME i > Len(s) PROVE to[i] \notin D /\ left[i] = {}
    BY <2>1, <1>1, FromFacts
  <2>2. ASSUME i <= Len(s)
        PROVE  /\ to[i] = i + 1 /\ i + 1 \in D /\ s[i] \in Keys
               /\ out[i] = IF s[i] \in S THEN s[i] ELSE 0
               /\ left[i] = left[i + 1] \cup ({s[i]} \cap S)
               /\ left[i + 1] \subseteq Keys /\ \A k \in left[i + 1] : s[i] < k
    <3>1. i \in 1 .. Len(s) /\ i + 1 \in D /\ ~(i > Len(s))
      BY <2>2, <1>1
    <3>2. to[i] = i + 1 /\ out[i] = IF s[i] \in S THEN s[i] ELSE 0
      BY <3>1
    <3>3. /\ s[i] \in Keys /\ From(s, i) = From(s, i + 1) \cup {s[i]}
          /\ \A k \in From(s, i + 1) : s[i] < k
      BY <2>2, FromFacts
    <3>4. From(s, i + 1) \subseteq Keys
      BY <3>1, FromFacts
    <3>5. left[i] = From(s, i) \cap S /\ left[i + 1] = From(s, i + 1) \cap S
      BY <3>1
    <3> HIDE DEF to, out, left
    <3> QED BY <3>1, <3>2, <3>3, <3>4, <3>5
  <2> QED BY <2>1, <2>2
<1>3. Falls(D, to, rank, Len(s))
  <2>1. \A i \in D : rank[i] \in 0 .. Len(s)
    BY <1>1
  <2>2. ASSUME NEW i \in D, to[i] \in D PROVE rank[to[i]] < rank[i]
    <3>1. i <= Len(s)
      BY <2>2, <1>1, <1>2
    <3>2. to[i] = i + 1 /\ i + 1 \in D
      BY <3>1, <1>2
    <3> QED BY <3>2, <1>1
  <2> HIDE DEF to, rank
  <2> QED BY <2>1, <2>2 DEF Falls
<1>4. Leaves(D, out, to, left)
  <2> SUFFICES ASSUME NEW p \in D
               PROVE  /\ to[p] \notin D => left[p] = {}
                      /\ to[p] \in D =>
                           /\ left[to[p]] \subseteq Keys
                           /\ out[p] = 0 => left[p] = left[to[p]]
                           /\ out[p] # 0 => /\ out[p] \in Keys
                                            /\ left[p] = left[to[p]] \cup {out[p]}
                                            /\ \A k \in left[to[p]] : out[p] < k
    BY DEF Leaves
  <2>1. CASE p > Len(s)
    BY <2>1, <1>2
  <2>2. CASE p <= Len(s)
    <3>1. /\ to[p] = p + 1 /\ p + 1 \in D /\ s[p] \in Keys /\ s[p] # 0
          /\ out[p] = IF s[p] \in S THEN s[p] ELSE 0
          /\ left[p] = left[p + 1] \cup ({s[p]} \cap S)
          /\ left[p + 1] \subseteq Keys /\ \A k \in left[p + 1] : s[p] < k
      BY <2>2, <1>1, <1>2
    <3> HIDE DEF to, out, left
    <3>2. CASE s[p] \in S
      BY <3>1, <3>2
    <3>3. CASE s[p] \notin S
      BY <3>1, <3>3
    <3> QED BY <3>2, <3>3
  <2>3. p > Len(s) \/ p <= Len(s)
    BY <1>1
  <2> QED BY <2>1, <2>2, <2>3
<1>5. ASSUME NEW f, NEW p \in D PROVE Body(f, p) = StepAt(f, D, out, to, p)
  <2>1. CASE p > Len(s)
    BY <2>1, <1>2 DEF StepAt
  <2>2. CASE ~(p > Len(s))
    <3>1. p <= Len(s)
      BY <2>2, <1>1
    <3>2. /\ to[p] = p + 1 /\ p + 1 \in D /\ s[p] \in Keys /\ s[p] # 0
          /\ out[p] = IF s[p] \in S THEN s[p] ELSE 0
      BY <3>1, <1>1, <1>2
    <3> HIDE DEF to, out
    <3> QED BY <2>2, <3>2 DEF StepAt
  <2> QED BY <2>1, <2>2
<1>6. Kept(s, S) = (CHOOSE f : f = [p \in D |-> Body(f, p)])[1]
  BY DEF Kept
<1>7. \A f : f = [p \in D |-> Body(f, p)] <=> Steps(f, D, out, to)
  <2> HIDE DEF Body, to, out
  <2> QED BY <1>5 DEF Steps
<1>8. 1 \in D /\ left[1] = From(s, 1) \cap S
  BY <1>1
<1> HIDE DEF to, out, left, rank, Body, D
<1>9. \E f : Steps(f, D, out, to)
  BY <1>1, <1>3, StepsExist
<1>10. \A f : Steps(f, D, out, to) => Lists(f[1], left[1])
  BY <1>1, <1>3, <1>4, <1>8, StepsYield
<1> QED
  BY <1>6, <1>7, <1>8, <1>9, <1>10

LEMMA ListsKeyed ==
  ASSUME NEW s, NEW S, S \subseteq Keys, Lists(s, S)
  PROVE  Keyed(s) /\ From(s, 1) = S
<1>1. s \in Seq(S) /\ Ascends(s) /\ RangeIs(s, S)
  BY ListsIs
<1>2. s \in Seq(Keys) /\ DOMAIN s = 1 .. Len(s)
  BY <1>1
<1> QED
  BY <1>1, <1>2 DEF Keyed, From, RangeIs

\* The ends of a sequence.
LEMMA EndsAre ==
  ASSUME NEW s, NEW S, S \subseteq Keys, Lists(s, S)
  PROVE  /\ s = <<>> <=> S = {}
         /\ s # <<>> => /\ s[1] \in S /\ s[Len(s)] \in S
                        /\ \A k \in S : s[1] <= k /\ k <= s[Len(s)]
<1>1. /\ s \in Seq(S) /\ DOMAIN s = 1 .. Len(s) /\ Len(s) \in Nat
      /\ \A i, j \in 1 .. Len(s) : i < j => s[i] < s[j]
      /\ \A i \in 1 .. Len(s) : s[i] \in S
      /\ \A k \in S : \E i \in 1 .. Len(s) : s[i] = k
  BY ListsIs DEF Ascends, RangeIs
<1>2. S \subseteq Nat
  BY Sizes
<1>3. s = <<>> => S = {}
  BY <1>1
<1>4. ASSUME s # <<>>
      PROVE  /\ s[1] \in S /\ s[Len(s)] \in S
             /\ \A k \in S : s[1] <= k /\ k <= s[Len(s)]
  <2>1. 1 \in 1 .. Len(s) /\ Len(s) \in 1 .. Len(s)
    BY <1>1, <1>4
  <2>2. s[1] \in S /\ s[Len(s)] \in S
    BY <1>1, <2>1
  <2>3. ASSUME NEW k \in S PROVE s[1] <= k /\ k <= s[Len(s)]
    <3>1. PICK i \in 1 .. Len(s) : s[i] = k
      BY <1>1
    <3>2. (1 < i => s[1] < s[i]) /\ (i < Len(s) => s[i] < s[Len(s)])
      BY <1>1, <2>1
    <3>3. s[i] \in Nat /\ s[1] \in Nat /\ s[Len(s)] \in Nat
      BY <1>1, <1>2, <2>1
    <3>4. (i = 1 \/ 1 < i) /\ (i = Len(s) \/ i < Len(s))
      <4>1. Len(s) \in Nat
        BY <1>1
      <4> QED BY <4>1
    <3> QED BY <3>1, <3>2, <3>3, <3>4
  <2> QED BY <2>2, <2>3
<1> QED
  BY <1>3, <1>4

LEMMA OrderingIs ==
  ASSUME NEW o \in Orderings
  PROVE  Lists(o, {o[i] : i \in DOMAIN o}) /\ {o[i] : i \in DOMAIN o} \subseteq Keys
<1> DEFINE S == {o[i] : i \in DOMAIN o}
<1>1. PICK n \in 0 .. N : o \in [1 .. n -> Keys]
  BY DEF Orderings
<1>2. \A i, j \in DOMAIN o : i < j => o[i] < o[j]
  BY DEF Orderings
<1>3. n \in Nat /\ DOMAIN o = 1 .. n /\ \A i \in 1 .. n : o[i] \in S
  BY <1>1, Sizes
<1>4. o \in [1 .. n -> S]
  BY <1>1, <1>3
<1>5. o \in Seq(S)
  <2> HIDE DEF S
  <2> QED BY <1>3, <1>4
<1> QED
  BY <1>1, <1>2, <1>5 DEF Lists

\* Common to two sets is what is common to what they have between the greater of
\* their first and the smaller of their last elements.
LEMMA IntersectionIs ==
  ASSUME TypeInv, Linked, NEW o, NEW S, S \subseteq Keys, Lists(o, S)
  PROVE  Lists(Intersection(Elements, o), Present \cap S)
<1> DEFINE s == Elements
           from == IF s[1] > o[1] THEN s[1] ELSE o[1]
           to == IF SearchLast < o[Len(o)] THEN SearchLast ELSE o[Len(o)]
           included(k) == [kind |-> "included", key |-> k]
           range == RangeOf(included(from), included(to))
           kept == Kept(o, from .. to)
<1>1. Lists(s, Present) /\ Present \subseteq Keys /\ Keys \subseteq Nat
  BY ElementsIs, Sizes DEF Present
<1> HIDE DEF s
<1>2. /\ s = <<>> <=> Present = {}
      /\ s # <<>> => s[1] \in Present /\ \A k \in Present : s[1] <= k
  BY <1>1, EndsAre
<1>3. /\ o = <<>> <=> S = {}
      /\ o # <<>> => /\ o[1] \in S /\ o[Len(o)] \in S
                     /\ \A k \in S : o[1] <= k /\ k <= o[Len(o)]
  BY EndsAre
<1>4. CASE s = <<>> \/ o = <<>>
  <2>1. Intersection(s, o) = <<>> /\ Present \cap S = {}
    BY <1>2, <1>3, <1>4 DEF Intersection
  <2> QED BY <2>1, ListsEmpty DEF s
<1>5. CASE s # <<>> /\ o # <<>>
  <2>1. SearchLast \in Present /\ \A k \in Present : k <= SearchLast
    BY <1>2, <1>5, SearchLastIs
  <2>2. /\ from \in Keys /\ to \in Keys
        /\ \A k \in Present \cap S : from <= k /\ k <= to
    BY <1>1, <1>2, <1>3, <1>5, <2>1
  <2> HIDE DEF from, to
  <2>3. included(from) \in Bounds /\ included(to) \in Bounds
    BY <2>2 DEF Bounds
  <2>4. Lists(range, Between(included(from), included(to)))
    BY <2>3, RangeOfIs
  <2>5. Between(included(from), included(to)) = {k \in Present : from <= k /\ k <= to}
    BY <1>1, <2>2 DEF Between
  <2>6. Keyed(range) /\ From(range, 1) = {k \in Present : from <= k /\ k <= to}
    <3> HIDE DEF range, included
    <3>1. {k \in Present : from <= k /\ k <= to} \subseteq Keys
      BY <1>1
    <3> QED BY <2>4, <2>5, <3>1, ListsKeyed
  <2>7. Keyed(kept) /\ From(kept, 1) = S \cap (from .. to)
    <3>1. Keyed(o) /\ From(o, 1) = S
      BY ListsKeyed
    <3>2. Lists(kept, S \cap (from .. to))
      BY <3>1, KeptIs
    <3> HIDE DEF kept
    <3>3. S \cap (from .. to) \subseteq Keys
      OBVIOUS
    <3> QED BY <3>2, <3>3, ListsKeyed
  <2>8. Intersection(s, o) = Common(range, kept)
    BY <1>5 DEF Intersection, from, to
  <2>9. Lists(Common(range, kept), From(range, 1) \cap From(kept, 1))
    <3> HIDE DEF range, kept
    <3> QED BY <2>6, <2>7, CommonIs
  <2>10. From(range, 1) \cap From(kept, 1) = Present \cap S
    <3>1. \A k \in Keys : k \in from .. to <=> from <= k /\ k <= to
      BY <1>1, <2>2
    <3> HIDE DEF range, kept
    <3> QED BY <1>1, <2>2, <2>6, <2>7, <3>1
  <2> HIDE DEF range, kept
  <2> QED BY <2>8, <2>9, <2>10 DEF s
<1> QED
  BY <1>4, <1>5

\* Of any other set, union, difference, symmetric difference and intersection
\* yield in order what belongs to them, sets said to be disjoint are, and neither
\* a subset nor a superset is denied.
THEOREM SetsHold == Spec => []SetsAgree
<1>1. ASSUME IInv PROVE SetsAgree
  <2> SUFFICES ASSUME NEW o \in Orderings, NEW S, S = {o[i] : i \in DOMAIN o}
               PROVE  /\ Lists(Union(Elements, o), Present \cup S)
                      /\ Lists(SymmetricDifference(Elements, o),
                               (Present \cup S) \ (Present \cap S))
                      /\ Lists(Difference(Elements, o), Present \ S)
                      /\ Lists(Intersection(Elements, o), Present \cap S)
                      /\ IsDisjoint(Elements, o) => Present \cap S = {}
                      /\ Present \subseteq S => IsSubset(Elements, o)
                      /\ S \subseteq Present => IsSuperset(Elements, o)
    BY DEF SetsAgree
  <2>1. TypeInv /\ Linked
    BY <1>1 DEF IInv
  <2>2. Lists(o, S) /\ S \subseteq Keys
    BY OrderingIs
  <2>3. Lists(Elements, Present) /\ Present \subseteq Keys /\ Keys \subseteq Nat
    BY <2>1, ElementsIs, Sizes DEF Present
  <2>4. Keyed(o) /\ From(o, 1) = S /\ Keyed(Elements) /\ From(Elements, 1) = Present
    BY <2>2, <2>3, ListsKeyed
  <2>5. /\ o = <<>> <=> S = {}
        /\ o # <<>> => /\ o[1] \in S /\ o[Len(o)] \in S
                       /\ \A k \in S : o[1] <= k /\ k <= o[Len(o)]
    BY <2>2, EndsAre
  <2>6. /\ Elements = <<>> <=> Present = {}
        /\ Elements # <<>> => Elements[1] \in Present /\ \A k \in Present : Elements[1] <= k
    BY <2>3, EndsAre
  <2>7. Elements # <<>> => SearchLast \in Present /\ \A k \in Present : k <= SearchLast
    BY <2>1, <2>6, SearchLastIs
  <2>8. /\ Lists(Union(Elements, o), Present \cup S)
        /\ Lists(SymmetricDifference(Elements, o), (Present \cup S) \ (Present \cap S))
    BY <2>4, UnionIs, SymmetricDifferenceIs
  <2>9. Lists(Difference(Elements, o), Present \ S)
    <3> DEFINE others == {k \in Keys : \A j \in DOMAIN o : o[j] # k}
    <3>1. From(Elements, 1) \cap others = Present \ S
      BY <2>3, <2>4
    <3> HIDE DEF others
    <3>2. Lists(Kept(Elements, others), From(Elements, 1) \cap others)
      BY <2>4, KeptIs
    <3> QED BY <3>1, <3>2 DEF Difference, others
  <2>10. Lists(Intersection(Elements, o), Present \cap S)
    BY <2>1, <2>2, IntersectionIs
  <2>11. ASSUME IsDisjoint(Elements, o), NEW k \in Present, k \in S PROVE FALSE
    <3>1. Elements # <<>> /\ o # <<>>
      BY <2>5, <2>6, <2>11
    <3>2. /\ Elements[1] <= k /\ k <= SearchLast /\ o[1] <= k /\ k <= o[Len(o)]
          /\ Elements[1] \in Keys /\ SearchLast \in Keys /\ o[1] \in Keys /\ o[Len(o)] \in Keys
      BY <2>2, <2>3, <2>5, <2>6, <2>7, <2>11, <3>1
    <3>3. Elements[1] > o[Len(o)] \/ SearchLast < o[1]
      BY <2>11, <3>1 DEF IsDisjoint
    <3>4. k \in Int
      BY <2>11, Sizes DEF Present
    <3>5. Elements[1] \in Int /\ SearchLast \in Int /\ o[1] \in Int /\ o[Len(o)] \in Int
      BY <3>2, Sizes
    <3>6. Elements[1] <= o[Len(o)] /\ o[1] <= SearchLast
      BY <3>2, <3>4, <3>5
    <3> QED BY <3>3, <3>5, <3>6
  <2>12. ASSUME Present \subseteq S PROVE IsSubset(Elements, o)
    BY <2>3, <2>5, <2>6, <2>7, <2>12 DEF IsSubset
  <2>13. ASSUME S \subseteq Present PROVE IsSuperset(Elements, o)
    BY <2>3, <2>5, <2>6, <2>7, <2>13 DEF IsSuperset
  <2> QED BY <2>8, <2>9, <2>10, <2>11, <2>12, <2>13
<1> QED
  BY <1>1, InvHolds, PTL
===============================================================================
