-------------------------- MODULE LockFreeListProofs --------------------------
(***************************************************************************)
(* The levels of the lock-free list stay sorted and complete, and no call  *)
(* uses a node that was freed: for any threads, keys and lists, as long as *)
(* there are at most two levels and clear does not overlap with writers.   *)
(*                                                                         *)
(* Exchanges that succeed tell little: a predecessor found by a search may *)
(* have been removed since, and its links lead through nodes that are gone *)
(* from the list.  What makes them safe is that links are never changed    *)
(* behind a mark.  The invariant has for each call a region of nodes it    *)
(* may come to: closed under the links, safe from being freed, and, for    *)
(* one that writes, of nodes that are on their level or marked there.      *)
(***************************************************************************)
EXTENDS LockFreeList, FiniteSetTheorems, WellFoundedInduction, TLAPS

Places == {"none", "own", "linked", "cut", "garbage", "freed"}
Ops == {"none", "insert", "remove", "clear", "get", "contains", "next", "prev", "first", "last", "iter"}
Labels == {"idle", "search", "check", "link", "exchange", "search_again", "unset", "count",
           "flag", "mark", "unlink", "retire", "entry", "after", "heads", "collect", "done"}

EntRec == [prec : Nodes \cup {Head, Null}, next : Nodes \cup {Null}, ok : BOOLEAN]
WalkRec == [at : Nodes \cup {Head, Null}, level : Levels, low : Levels,
          found : Nodes \cup {Null}, seen : SUBSET Nat]
LinkRec == [to : Nodes \cup {Null}, marked : BOOLEAN]
InfoRec == [key : Nat, height : 0 .. MaxHeight, linking : BOOLEAN, deleted : BOOLEAN, place : Places]
CallRec == [op : Ops, key : Nat]

TypeOK ==
  /\ cell \in [Nodes \cup {Head} -> [Levels -> LinkRec]]
  /\ info \in [Nodes -> InfoRec]
  /\ waits \in [Nodes -> SUBSET Threads]
  /\ pc \in [Threads -> Labels]
  /\ walk \in [Threads -> WalkRec]
  /\ ents \in [Threads -> [Levels -> EntRec]]
  /\ node \in [Threads -> Nodes \cup {Null}]
  /\ call \in [Threads -> CallRec]

-----------------------------------------------------------------------------
(* Where each thread is.                                                   *)

Linking == {"link", "exchange", "search_again", "unset"}

OpAt(l) ==
  CASE l \in {"idle", "done"} -> {"none"}
    [] l \in {"check", "link", "exchange", "unset", "count"} -> {"insert"}
    [] l \in {"flag", "mark", "unlink", "retire"} -> {"remove"}
    [] l = "search_again" -> {"insert", "remove"}
    [] l = "search" -> Ops \ {"none", "clear"}
    [] l \in {"entry", "after"} -> Ops \ {"none", "clear", "insert", "remove"}
    [] OTHER -> {"clear"}

\* A search: where it is, and that it began with nothing done.
SearchOk(t) ==
  Searching(t) =>
    /\ walk[t].at # Null /\ walk[t].low <= walk[t].level
    /\ pc[t] = "search" => walk[t].low = 0
    /\ pc[t] = "search_again" /\ call[t].op = "remove" => walk[t].low = 0

\* An insertion from the allocation of its node to the end of the linking.
InserterOk(t) ==
  (call[t].op = "insert" /\ pc[t] \in Linking) =>
    /\ node[t] = t /\ info[t].linking /\ info[t].key = call[t].key /\ info[t].height > 0
    /\ info[t].place = IF ents[t][0].ok THEN "linked" ELSE "own"
    /\ \A l \in Levels : ents[t][l].ok => l < info[t].height /\ ents[t][0].ok
    /\ pc[t] \in {"link", "exchange"} =>
         /\ walk[t].level < info[t].height /\ ~ents[t][walk[t].level].ok /\ walk[t].found = Null
         /\ \A l \in Levels : l < walk[t].level => ents[t][l].ok
    /\ pc[t] = "exchange" =>
         cell[t][walk[t].level] = [to |-> ents[t][walk[t].level].next, marked |-> FALSE]
    /\ pc[t] = "search_again" =>
         /\ walk[t].low < info[t].height /\ ~ents[t][walk[t].low].ok
         /\ \A l \in Levels : l < walk[t].low => ents[t][l].ok
    /\ pc[t] = "unset" => \A l \in Levels : l < info[t].height => ents[t][l].ok

\* A removal: the levels are unlinked from the top down.
RemoverOk(t) ==
  call[t].op = "remove" =>
    /\ pc[t] # "search" => node[t] # Null
    /\ pc[t] \in {"search", "flag", "mark"} => \A l \in Levels : ~ents[t][l].ok
    /\ pc[t] = "flag" => walk[t].level = 0
    /\ pc[t] \in {"unlink", "search_again"} => ~ents[t][0].ok
    /\ pc[t] = "retire" => \A l \in Levels : l < info[node[t]].height => ents[t][l].ok

\* Outside of these there is no node at hand, and nothing done.
RestOk(t) ==
  /\ pc[t] \notin Linking \cup {"count", "flag", "mark", "unlink", "retire"} =>
       node[t] = Null /\ \A l \in Levels : ~ents[t][l].ok
  /\ call[t].op # "insert" /\ pc[t] # "done" => ~info[t].linking /\ info[t].height = 0
  /\ call[t].op = "insert" /\ pc[t] \in {"search", "check"} =>
       (info[t].linking \/ info[t].height = 0) /\ info[t].place \in {"none", "freed"}
  /\ pc[t] = "count" => node[t] = t /\ ~info[t].linking /\ info[t].height > 0
  /\ pc[t] = "idle" => ents[t] = NoEnts /\ info[t].place = "none"
  /\ pc[t] = "check" => walk[t].found # Null
  /\ pc[t] \in {"entry", "after"} => walk[t].at \in Nodes
  /\ pc[t] = "collect" => walk[t].at # Head

Control(t) ==
  /\ call[t].op \in OpAt(pc[t])
  /\ call[t].op \in {"insert", "remove"} => call[t].key \in Keys
  /\ SearchOk(t) /\ InserterOk(t) /\ RemoverOk(t) /\ RestOk(t)

-----------------------------------------------------------------------------
(* The levels.                                                             *)

\* Nodes that are or have been on level l.
Was(l) == {n \in Nodes : l < info[n].height /\ (info[n].linking => ents[n][l].ok)}

\* Nodes that are on level l now.
Off(n, l) == \E t \in Threads : call[t].op = "remove" /\ node[t] = n /\ ents[t][l].ok
On(l) == {n \in Was(l) : info[n].place \in {"linked", "cut"} /\ ~Off(n, l)}

Below(n, m) == n = Head \/ info[n].key < info[m].key

\* All links that ever led somewhere lead to a node with a larger key.
Ascends(l) ==
  \A n \in Was(l) \cup {Head} :
    cell[n][l].to # Null => cell[n][l].to \in Was(l) /\ Below(n, cell[n][l].to)

\* The link of n leads to the next node on the level.
Leads(n, l) ==
  IF cell[n][l].to = Null THEN \A m \in On(l) : ~Below(n, m)
  ELSE /\ cell[n][l].to \in On(l)
       /\ \A m \in On(l) : Below(n, m) => info[cell[n][l].to].key <= info[m].key

\* Clear has taken level l away from the head.
HeadCut(l) == \E c \in Threads : pc[c] = "collect" \/ (pc[c] = "heads" /\ walk[c].level < l)

Chained(l) ==
  /\ \A n \in On(l) : Leads(n, l)
  /\ IF HeadCut(l) THEN cell[Head][l].to = Null ELSE Leads(Head, l)
  /\ \A m, n \in On(l) : info[m].key = info[n].key => m = n

\* Nodes at some time on a level have keys of the list; a mark is final and means
\* deleted; the head has none.
Marks(l) ==
  /\ ~cell[Head][l].marked
  /\ \A n \in Was(l) : info[n].key \in Keys /\ (cell[n][l].marked => info[n].deleted)

\* Only a thread's own node is being linked; what is in the list is on level 0.
Placed ==
  \A n \in Nodes : /\ (info[n].linking => n \in Threads)
                    /\ (info[n].place \in {"linked", "cut"} => n \in Was(0))

Graph == Placed /\ \A l \in Levels : Ascends(l) /\ Chained(l) /\ Marks(l)

\* A removal that won: nobody else removes its node, whose links are marked.
Active(t) == call[t].op = "remove" /\ pc[t] \in {"mark", "unlink", "search_again", "retire"}

RemovalOk(t) ==
  LET n == node[t] IN
  /\ n \in Was(0) /\ info[n].place = "linked" /\ info[n].deleted /\ ~info[n].linking
  /\ \A l \in Levels : (IF pc[t] = "mark" THEN l < walk[t].level ELSE l < info[n].height)
                         => cell[n][l].marked
  /\ pc[t] = "mark" => walk[t].level < info[n].height

Removals ==
  /\ \A t \in Threads : Active(t) => RemovalOk(t)
  /\ \A t, u \in Threads : Active(t) /\ Active(u) /\ node[t] = node[u] => t = u

\* Clear and the writers keep apart; what clear took is collected in its order.
Apart == \A t, c \in Threads : call[t].op \in {"insert", "remove"} => call[c].op # "clear"

Clears ==
  /\ Apart
  /\ \A c \in Threads : pc[c] = "collect" => \A n \in Nodes : info[n].place # "linked"
  /\ \A c \in Threads : pc[c] = "collect" /\ walk[c].at # Null => walk[c].at \in On(0)
  /\ \A n \in Nodes : info[n].place = "cut" =>
       \E c \in Threads : /\ pc[c] = "collect" /\ walk[c].at # Null
                          /\ info[walk[c].at].key <= info[n].key
  /\ \A c, d \in Threads :
       (pc[c] = "collect" /\ walk[c].at # Null /\ pc[d] = "collect" /\ walk[d].at # Null) => c = d

-----------------------------------------------------------------------------
(* What a call may come to.                                                *)

Safe(t, n) ==
  \/ info[n].place \in {"linked", "cut"}
  \/ info[n].place = "garbage" /\ t \in waits[n]

Region(t, Q) ==
  /\ \A l \in Levels : /\ On(l) \subseteq Q[l] /\ Q[l] \subseteq Was(l) /\ Q[l] \subseteq Q[0]
                       /\ \A n \in Q[l] : cell[n][l].to # Null => cell[n][l].to \in Q[l]
  /\ \A n \in Q[0] : Safe(t, n)
  /\ call[t].op \in {"insert", "remove"} =>
       \A l \in Levels : \A n \in Q[l] : n \in On(l) \/ cell[n][l].marked

\* The levels on which its PrecVec is to be used.
Ready(t) ==
  {l \in Levels :
     /\ ~ents[t][l].ok
     /\ \/ Searching(t) /\ l > walk[t].level
        \/ pc[t] \in {"link", "exchange", "flag", "mark", "unlink"} /\ l < info[node[t]].height}

EntOk(t, Q, l) ==
  LET e == ents[t][l] IN
  /\ e.prec # Null
  /\ e.prec # Head => e.prec \in Q[l] /\ info[e.prec].key < call[t].key
  /\ e.next # Null => e.next \in Q[l]
  /\ e.next # Null /\ call[t].op = "insert" /\ walk[t].found = Null => info[e.next].key > call[t].key

Holds(t, Q) ==
  /\ walk[t].at \in Nodes =>
       /\ walk[t].at \in Q[IF Searching(t) THEN walk[t].level ELSE 0]
       /\ Searching(t) => info[walk[t].at].key < call[t].key
  /\ walk[t].found # Null => walk[t].found \in Q[0]
  /\ call[t].op = "insert" => walk[t].found # t
  /\ call[t].op = "remove" /\ node[t] # Null => node[t] \in Q[0]
  /\ pc[t] = "count" => t \in Q[0]
  /\ \A l \in Ready(t) : EntOk(t, Q, l)

Regions ==
  \A t \in Threads : InCall(t) =>
    \E Q \in [Levels -> SUBSET Nodes] : Region(t, Q) /\ Holds(t, Q)

Inv ==
  /\ TypeOK
  /\ (\A t \in Threads : Control(t))
  /\ Graph /\ Removals /\ Clears /\ Regions

-----------------------------------------------------------------------------
(* The setting.                                                            *)

\* What the theorems assume besides ListAssumption.
Setting == MaxHeight <= 2 /\ ~ClearOverlaps

\* Threads and keys name nodes, and none of them is the head, null or another.
LEMMA Names ==
  /\ Head \notin Nodes /\ Null \notin Nodes /\ Head # Null
  /\ Threads \subseteq Nodes /\ Keys \subseteq Nodes /\ Keys \subseteq Nat \ {0}
  /\ \A t \in Threads : t \notin Keys
BY ListAssumption DEF Nodes

\* There are one or two levels.
LEMMA LevelsAre ==
  ASSUME Setting
  PROVE  /\ 0 \in Levels /\ MaxHeight - 1 \in Levels /\ MaxHeight \in {1, 2}
         /\ \A l \in Levels : l \in {0, 1} /\ l < MaxHeight
         /\ \A l \in Int : 0 <= l /\ l < MaxHeight => l \in Levels
<1>1. MaxHeight \in Nat \ {0} /\ MaxHeight <= 2
  BY ListAssumption DEF Setting
<1> QED
  BY <1>1 DEF Levels

\* The least and the greatest of a set of levels.
LEMMA EndsOfLevels ==
  ASSUME Setting, NEW S, S \subseteq Levels, S # {}
  PROVE  /\ Min(S) \in S /\ \A l \in S : Min(S) <= l
         /\ Max(S) \in S /\ \A l \in S : l <= Max(S)
<1>1. \A l \in S : l \in {0, 1}
  BY LevelsAre
<1>2. \E x \in S : \A y \in S : x <= y
  <2>1. CASE 0 \in S
    BY <1>1, <2>1
  <2>2. CASE 0 \notin S
    BY <1>1, <2>2
  <2> QED BY <2>1, <2>2
<1>3. \E x \in S : \A y \in S : x >= y
  <2>1. CASE 1 \in S
    BY <1>1, <2>1
  <2>2. CASE 1 \notin S
    BY <1>1, <2>2
  <2> QED BY <2>1, <2>2
<1>4. Min(S) \in S /\ \A y \in S : Min(S) <= y
  BY <1>2 DEF Min
<1>5. Max(S) \in S /\ \A y \in S : Max(S) >= y
  BY <1>3 DEF Max
<1> QED
  BY <1>1, <1>4, <1>5

\* A nonempty set of numbers has a least one.
LEMMA LeastNumber ==
  ASSUME NEW S, S \subseteq Nat, S # {}
  PROVE  \E x \in S : \A y \in S : x <= y
<1> DEFINE R == OpToRel(<, Nat)
<1>1. IsWellFoundedOn(R, Nat)
  BY NatLessThanWellFounded
<1>2. \A x, y \in Nat : <<x, y>> \in R <=> x < y
  BY DEF OpToRel
<1> HIDE DEF R
<1>3. PICK x \in S : \A y \in S : ~(<<y, x>> \in R)
  BY <1>1, WFMin
<1>4. ASSUME NEW y \in S PROVE x <= y
  <2>1. ~(y < x)
    BY <1>2, <1>3
  <2> QED BY <2>1
<1> QED
  BY <1>4

\* A nonempty finite set of numbers has a greatest one.
LEMMA GreatestOf ==
  ASSUME NEW S, IsFiniteSet(S), S \subseteq Nat, S # {}
  PROVE  \E m \in S : \A j \in S : m >= j
<1> DEFINE Has(T) == \E m \in T : \A j \in T : m >= j
           Sizes == {n \in Nat : \E T \in SUBSET S : T # {} /\ Cardinality(T) = n /\ ~Has(T)}
<1>1. \A T \in SUBSET S : IsFiniteSet(T) /\ Cardinality(T) \in Nat
  BY FS_Subset, FS_CardinalityType
<1>2. SUFFICES ASSUME ~Has(S) PROVE FALSE
  OBVIOUS
<1>3. Cardinality(S) \in Sizes
  BY <1>1, <1>2
<1>4. PICK n \in Sizes : \A y \in Sizes : n <= y
  <2>1. Sizes \subseteq Nat /\ Sizes # {}
    BY <1>3
  <2> HIDE DEF Sizes
  <2> QED BY <2>1, LeastNumber
<1>5. PICK T \in SUBSET S : T # {} /\ Cardinality(T) = n /\ ~Has(T)
  BY <1>4
<1>6. PICK x \in T : TRUE
  BY <1>5
<1> DEFINE R == T \ {x}
<1>7. Cardinality(R) = n - 1 /\ Cardinality(R) \in Nat /\ n \in Nat
  BY <1>1, <1>5, <1>6, FS_RemoveElement
<1>8. x \in Nat /\ R \in SUBSET S /\ T = R \cup {x} /\ T \subseteq Nat
  BY <1>5, <1>6
<1>9. CASE R = {}
  BY <1>5, <1>8, <1>9
<1>10. CASE R # {}
  <2>1. Cardinality(R) \notin Sizes
    BY SMTT(60), <1>4, <1>7
  <2>2. Has(R)
    BY <1>7, <1>8, <1>10, <2>1
  <2>3. PICK m \in R : \A j \in R : m >= j
    BY <2>2
  <2>4. m \in Nat /\ R \subseteq Nat
    BY <1>8
  <2>5. CASE x >= m
    <3>1. \A j \in T : x >= j
      BY <1>8, <2>3, <2>4, <2>5
    <3> QED BY <1>5, <1>6, <3>1
  <2>6. CASE m >= x
    <3>1. \A j \in T : m >= j
      BY <1>8, <2>3, <2>4, <2>6
    <3> QED BY <1>5, <1>8, <3>1
  <2> QED BY <1>8, <2>4, <2>5, <2>6
<1> QED
  BY <1>9, <1>10

-----------------------------------------------------------------------------
(* Types.                                                                  *)

\* The types of what a thread has at hand.
LEMMA Typed ==
  ASSUME Setting, TypeOK, NEW t \in Threads
  PROVE  /\ t \in Nodes /\ t \in Nodes \cup {Head} /\ Head \in Nodes \cup {Head}
         /\ walk[t].at \in Nodes \cup {Head, Null} /\ walk[t].found \in Nodes \cup {Null}
         /\ walk[t].level \in Levels /\ walk[t].low \in Levels /\ walk[t].seen \subseteq Nat
         /\ walk[t] = [at |-> walk[t].at, level |-> walk[t].level, low |-> walk[t].low,
                       found |-> walk[t].found, seen |-> walk[t].seen]
         /\ ents[t] \in [Levels -> EntRec]
         /\ \A l \in Levels : /\ ents[t][l].prec \in Nodes \cup {Head, Null}
                              /\ ents[t][l].next \in Nodes \cup {Null} /\ ents[t][l].ok \in BOOLEAN
         /\ node[t] \in Nodes \cup {Null}
         /\ call[t].op \in Ops /\ call[t].key \in Nat
<1>1. walk[t] \in WalkRec /\ ents[t] \in [Levels -> EntRec] /\ call[t] \in CallRec /\ node[t] \in Nodes \cup {Null}
  BY DEF TypeOK
<1>2. \A l \in Levels : ents[t][l] \in EntRec
  BY <1>1
<1> QED
  BY <1>1, <1>2, Names DEF WalkRec, EntRec, CallRec

\* A link is a record of where it leads and its mark.
LEMMA LinksTyped ==
  ASSUME TypeOK, NEW n \in Nodes \cup {Head}, NEW l \in Levels
  PROVE  /\ cell[n] \in [Levels -> LinkRec] /\ cell[n][l] \in LinkRec
         /\ cell[n][l].to \in Nodes \cup {Null} /\ cell[n][l].marked \in BOOLEAN
         /\ cell[n][l] = [to |-> cell[n][l].to, marked |-> cell[n][l].marked]
<1>1. cell[n] \in [Levels -> LinkRec]
  BY DEF TypeOK
<1>2. cell[n][l] \in LinkRec
  BY <1>1
<1> QED
  BY <1>1, <1>2 DEF LinkRec

\* The types of the fields of a node.
LEMMA NodesTyped ==
  ASSUME TypeOK, NEW n \in Nodes
  PROVE  /\ info[n] \in InfoRec
         /\ info[n].key \in Nat /\ info[n].height \in Nat /\ info[n].height <= MaxHeight
         /\ info[n].linking \in BOOLEAN /\ info[n].deleted \in BOOLEAN /\ info[n].place \in Places
<1>1. info[n] \in InfoRec
  BY DEF TypeOK
<1> QED
  BY <1>1, ListAssumption DEF InfoRec

\* What a thread remembers of one level.
LEMMA EntryTyped ==
  ASSUME Setting, TypeOK, NEW t \in Threads, NEW l \in Levels
  PROVE  /\ ents[t][l].prec \in Nodes \cup {Head, Null}
         /\ ents[t][l].next \in Nodes \cup {Null} /\ ents[t][l].ok \in BOOLEAN
BY Typed

\* A node that reaches a level reaches the lowest one.
LEMMA HasBottom ==
  ASSUME Setting, TypeOK, NEW n \in Nodes, NEW l \in Levels, l < info[n].height
  PROVE  0 < info[n].height
<1>1. info[n].height \in Nat
  BY NodesTyped
<1>2. l \in {0, 1}
  BY LevelsAre
<1> QED BY <1>1, <1>2

\* The values a call begins and ends with have their types.
LEMMA Constants ==
  ASSUME Setting
  PROVE  /\ NoEnts \in [Levels -> EntRec] /\ NoWalk \in WalkRec
         /\ \A low \in Levels : FromTop(low) \in WalkRec
         /\ \A l \in Levels : NoEnts[l] = [prec |-> Head, next |-> Null, ok |-> FALSE]
         /\ Promise!NoCall \in CallRec
BY LevelsAre DEF NoEnts, NoWalk, FromTop, EntRec, WalkRec, CallRec, Ops, Promise!NoCall

\* A walk stays one when it moves on.
LEMMA WalkMoves ==
  ASSUME NEW w \in WalkRec
  PROVE  /\ \A n \in Nodes \cup {Head, Null} : [w EXCEPT !.at = n] \in WalkRec
         /\ \A l \in Levels : [w EXCEPT !.level = l] \in WalkRec
         /\ \A l \in Levels, f \in Nodes \cup {Null} : [w EXCEPT !.level = l, !.found = f] \in WalkRec
         /\ \A f \in Nodes \cup {Null} : [w EXCEPT !.found = f] \in WalkRec
         /\ \A S \in SUBSET Nat : [w EXCEPT !.seen = S] \in WalkRec
         /\ \A n \in Nodes \cup {Head, Null}, S \in SUBSET Nat : [w EXCEPT !.at = n, !.seen = S] \in WalkRec
BY DEF WalkRec

\* What a search meets and records.
LEMMA Searched ==
  ASSUME Setting, TypeOK, NEW t \in Threads, Control(t), Searching(t)
  PROVE  /\ walk[t].at \in Nodes \cup {Head} /\ Met(t) \in Nodes \cup {Null}
         /\ NewFound(t) \in Nodes \cup {Null}
         /\ NewEnts(t) \in [Levels -> EntRec]
         /\ \A l \in Levels : /\ NewEnts(t)[l].ok = ents[t][l].ok
                              /\ l # walk[t].level \/ ents[t][l].ok => NewEnts(t)[l] = ents[t][l]
                              /\ l = walk[t].level /\ ~ents[t][l].ok =>
                                   NewEnts(t)[l] = [prec |-> walk[t].at, next |-> Met(t), ok |-> FALSE]
         /\ walk[t].low <= walk[t].level
<1>1. walk[t].at \in Nodes \cup {Head} /\ walk[t].level \in Levels /\ walk[t].low <= walk[t].level
  BY Typed DEF Control, SearchOk
<1>2. Met(t) \in Nodes \cup {Null}
  BY <1>1, LinksTyped DEF Met
<1>3. NewFound(t) \in Nodes \cup {Null}
  BY <1>2, Typed DEF NewFound
<1>4. ents[t] \in [Levels -> EntRec] /\ \A l \in Levels : ents[t][l].ok \in BOOLEAN
  BY Typed
<1> DEFINE e == [prec |-> walk[t].at, next |-> Met(t), ok |-> FALSE]
<1>5. e \in EntRec /\ e.ok = FALSE
  BY <1>1, <1>2 DEF EntRec
<1>6. NewEnts(t) = IF ents[t][walk[t].level].ok THEN ents[t] ELSE [ents[t] EXCEPT ![walk[t].level] = e]
  BY DEF NewEnts
<1> HIDE DEF e
<1>7. /\ NewEnts(t) \in [Levels -> EntRec]
      /\ \A l \in Levels : /\ l # walk[t].level \/ ents[t][l].ok => NewEnts(t)[l] = ents[t][l]
                           /\ l = walk[t].level /\ ~ents[t][l].ok => NewEnts(t)[l] = e
  BY <1>1, <1>4, <1>5, <1>6
<1>8. \A l \in Levels : NewEnts(t)[l].ok = ents[t][l].ok
  BY <1>4, <1>5, <1>7
<1> QED
  BY <1>1, <1>2, <1>3, <1>7, <1>8 DEF e

\* Below a level that is not the last there is another.
LEMMA LevelBelow ==
  ASSUME Setting, NEW l \in Levels, NEW m \in Levels, l > m
  PROVE  l - 1 \in Levels /\ m <= l - 1
<1>1. l \in {0, 1} /\ m \in {0, 1} /\ 0 \in Levels
  BY LevelsAre
<1> QED BY <1>1

-----------------------------------------------------------------------------
(* What each action does, thread by thread.                                *)

ListTypes ==
  /\ cell \in [Nodes \cup {Head} -> [Levels -> LinkRec]]
  /\ info \in [Nodes -> InfoRec]
  /\ waits \in [Nodes -> SUBSET Threads]

Others(t) ==
  \A u \in Threads : u # t =>
    /\ pc'[u] = pc[u] /\ walk'[u] = walk[u] /\ ents'[u] = ents[u]
    /\ node'[u] = node[u] /\ call'[u] = call[u]

Own(t, p, w, e, n, c) ==
  pc'[t] = p /\ walk'[t] = w /\ ents'[t] = e /\ node'[t] = n /\ call'[t] = c

\* t goes on to label p, with these local variables; the others stay.
Moves(t, p, w, e, n, c) == Others(t) /\ Own(t, p, w, e, n, c)

\* Its pin may go.
Unpinned(t) == \A n \in Nodes : waits'[n] \subseteq waits[n] /\ waits[n] \ {t} \subseteq waits'[n]

Updates1(t, p, w, e, n, c) ==
  /\ pc' = [pc EXCEPT ![t] = p] /\ walk' = [walk EXCEPT ![t] = w]
  /\ ents' = [ents EXCEPT ![t] = e] /\ node' = [node EXCEPT ![t] = n]
  /\ call' = [call EXCEPT ![t] = c]

\* A step that gives one thread new values keeps the types of all.
LEMMA Moving ==
  ASSUME TypeOK, NEW t \in Threads, NEW p \in Labels, NEW w \in WalkRec, NEW e \in [Levels -> EntRec],
         NEW n \in Nodes \cup {Null}, NEW c \in CallRec, Updates1(t, p, w, e, n, c), ListTypes'
  PROVE  TypeOK' /\ Moves(t, p, w, e, n, c)
BY DEF TypeOK, ListTypes, Moves, Others, Own, Updates1

\* Updating with what is there already changes nothing.
LEMMA Staying ==
  ASSUME TypeOK, NEW t \in Threads
  PROVE  /\ pc = [pc EXCEPT ![t] = pc[t]] /\ walk = [walk EXCEPT ![t] = walk[t]]
         /\ ents = [ents EXCEPT ![t] = ents[t]] /\ node = [node EXCEPT ![t] = node[t]]
         /\ call = [call EXCEPT ![t] = call[t]]
         /\ pc[t] \in Labels /\ walk[t] \in WalkRec /\ ents[t] \in [Levels -> EntRec]
         /\ node[t] \in Nodes \cup {Null} /\ call[t] \in CallRec
         /\ ListTypes
BY DEF TypeOK, ListTypes

\* Steps that change neither links nor nodes.
ListSame(t) == cell' = cell /\ info' = info /\ Unpinned(t)

\* The list keeps its types and its nodes when at most a pin ends.
LEMMA SameTypes ==
  ASSUME TypeOK, NEW t \in Threads, cell' = cell, info' = info, waits' = waits \/ Unpin(t)
  PROVE  ListTypes' /\ ListSame(t)
BY DEF TypeOK, ListTypes, ListSame, Unpin, Unpinned

\* A search that goes on along a level changes its position alone.
LEMMA SearchOnIs ==
  ASSUME Setting, TypeOK, NEW t \in Threads, Control(t), SearchOn(t)
  PROVE  /\ TypeOK' /\ ListSame(t) /\ waits' = waits
         /\ Moves(t, pc[t], [walk[t] EXCEPT !.at = Met(t)], ents[t], node[t], call[t])
<1>1. walk[t] \in WalkRec /\ Met(t) \in Nodes \cup {Head, Null}
  BY Searched DEF SearchOn, TypeOK
<1>2. [walk[t] EXCEPT !.at = Met(t)] \in WalkRec
  BY <1>1, WalkMoves
<1>3. Updates1(t, pc[t], [walk[t] EXCEPT !.at = Met(t)], ents[t], node[t], call[t])
  BY Staying DEF SearchOn, Updates1
<1>4. ListTypes' /\ ListSame(t) /\ waits' = waits
  BY SameTypes DEF SearchOn, list
<1> QED
  BY <1>2, <1>3, <1>4, Moving, Staying

\* A search that goes down notes what it met, and changes nothing else.
LEMMA SearchDownIs ==
  ASSUME Setting, TypeOK, NEW t \in Threads, Control(t), SearchDown(t)
  PROVE  /\ TypeOK' /\ ListSame(t) /\ waits' = waits
         /\ Moves(t, pc[t], [walk[t] EXCEPT !.level = walk[t].level - 1, !.found = NewFound(t)],
                  IF call[t].op \in {"insert", "remove"} THEN NewEnts(t) ELSE NoEnts, node[t], call[t])
         /\ walk[t].level - 1 \in Levels /\ walk[t].low <= walk[t].level - 1
<1>1. Searching(t) /\ walk[t].level # walk[t].low
  BY DEF SearchDown, MetEnough, SearchEnds
<1>2. walk[t].level - 1 \in Levels /\ walk[t].low <= walk[t].level - 1
  <2>1. walk[t].level \in Levels /\ walk[t].low \in Levels /\ walk[t].low <= walk[t].level
    BY <1>1, Typed, Searched
  <2>2. walk[t].low < walk[t].level
    BY <1>1, <2>1, LevelsAre
  <2> QED BY <2>1, <2>2, LevelBelow
<1> DEFINE w == [walk[t] EXCEPT !.level = walk[t].level - 1, !.found = NewFound(t)]
           e == IF call[t].op \in {"insert", "remove"} THEN NewEnts(t) ELSE NoEnts
<1>3. w \in WalkRec
  <2>1. walk[t] \in WalkRec /\ NewFound(t) \in Nodes \cup {Null}
    BY <1>1, Searched DEF TypeOK
  <2> QED BY <1>2, <2>1, WalkMoves
<1>4. e \in [Levels -> EntRec]
  BY <1>1, Searched, Constants
<1>5. Updates1(t, pc[t], w, e, node[t], call[t])
  BY Staying DEF SearchDown, Updates1
<1>6. ListTypes' /\ ListSame(t) /\ waits' = waits
  BY SameTypes DEF SearchDown, list
<1> HIDE DEF w, e
<1>7. TypeOK' /\ Moves(t, pc[t], w, e, node[t], call[t])
  BY <1>3, <1>4, <1>5, <1>6, Moving, Staying
<1> QED
  BY <1>2, <1>6, <1>7 DEF w, e

\* The node found is looked at; or another is made.
LEMMA InsertSearchedIs ==
  ASSUME Setting, TypeOK, NEW t \in Threads, Control(t), InsertSearched(t)
  PROVE  \/ /\ NewFound(t) # Null /\ TypeOK' /\ ListSame(t) /\ waits' = waits
            /\ Moves(t, "check", [NoWalk EXCEPT !.found = NewFound(t)], NoEnts, node[t], call[t])
         \/ /\ NewFound(t) = Null /\ TypeOK' /\ waits' = waits
            /\ \E h \in 1 .. MaxHeight :
                 /\ info' = [info EXCEPT ![t] = [key |-> call[t].key, height |-> h, linking |-> TRUE,
                                                deleted |-> FALSE, place |-> "own"]]
                 /\ cell' = [cell EXCEPT ![t] = [l \in Levels |-> NoLink]]
                 /\ Moves(t, "link", NoWalk, [l \in Levels |-> IF l < h THEN NewEnts(t)[l] ELSE NoEnts[l]],
                          t, call[t])
<1>1. Searching(t)
  BY DEF InsertSearched, MetEnough
<1>2. CASE NewFound(t) # Null
  <2> DEFINE w == [NoWalk EXCEPT !.found = NewFound(t)]
  <2>1. w \in WalkRec
    BY <1>1, Searched, WalkMoves, Constants
  <2>2. Updates1(t, "check", w, NoEnts, node[t], call[t])
    BY <1>2, Staying DEF InsertSearched, Goto, Updates1
  <2>3. ListTypes' /\ ListSame(t) /\ waits' = waits
    BY <1>2, SameTypes DEF InsertSearched, list
  <2> HIDE DEF w
  <2>4. TypeOK' /\ Moves(t, "check", w, NoEnts, node[t], call[t])
    BY <2>1, <2>2, <2>3, Moving, Staying, Constants DEF Labels
  <2> QED BY <1>2, <2>3, <2>4 DEF w
<1>3. CASE NewFound(t) = Null
  <2>1. NewNode(t) /\ waits' = waits
    BY <1>3 DEF InsertSearched
  <2>2. PICK h \in 1 .. MaxHeight :
          /\ info' = [info EXCEPT ![t] = [key |-> call[t].key, height |-> h, linking |-> TRUE,
                                         deleted |-> FALSE, place |-> "own"]]
          /\ cell' = [cell EXCEPT ![t] = [l \in Levels |-> NoLink]]
          /\ ents' = [ents EXCEPT ![t] = [l \in Levels |-> IF l < h THEN NewEnts(t)[l] ELSE NoEnts[l]]]
    BY <2>1 DEF NewNode
  <2> DEFINE e == [l \in Levels |-> IF l < h THEN NewEnts(t)[l] ELSE NoEnts[l]]
             i == [key |-> call[t].key, height |-> h, linking |-> TRUE, deleted |-> FALSE, place |-> "own"]
             c == [l \in Levels |-> NoLink]
  <2>3. e \in [Levels -> EntRec]
    BY <1>1, Searched, Constants
  <2>4. i \in InfoRec /\ c \in [Levels -> LinkRec]
    <3>1. call[t].key \in Nat /\ h \in 0 .. MaxHeight /\ "own" \in Places
      <4>1. MaxHeight \in Nat
        BY ListAssumption
      <4>2. h \in 0 .. MaxHeight
        BY <4>1
      <4>3. call[t].key \in Nat
        BY Typed
      <4> QED BY <4>2, <4>3 DEF Places
    <3>2. NoLink \in LinkRec
      BY DEF LinkRec, NoLink
    <3> QED BY <3>1, <3>2 DEF InfoRec
  <2>5. Updates1(t, "link", NoWalk, e, t, call[t])
    BY <1>3, <2>2, Staying DEF InsertSearched, Goto, Updates1
  <2>6. info' = [info EXCEPT ![t] = i] /\ cell' = [cell EXCEPT ![t] = c]
    BY <2>2
  <2> HIDE DEF e, i, c
  <2>7. ListTypes'
    BY <2>1, <2>4, <2>6, Names DEF ListTypes, TypeOK
  <2>8. TypeOK' /\ Moves(t, "link", NoWalk, e, t, call[t])
    BY <2>3, <2>5, <2>7, Moving, Staying, Constants, Names DEF Labels
  <2> QED BY <1>3, <2>1, <2>6, <2>8 DEF e, i, c
<1> QED
  BY <1>2, <1>3

\* A call that ends has nothing at hand.
LEMMA FinishIs ==
  ASSUME Setting, TypeOK, NEW t \in Threads, Finish(t), ListTypes'
  PROVE  TypeOK' /\ Moves(t, "done", NoWalk, NoEnts, Null, Promise!NoCall)
<1>1. Updates1(t, "done", NoWalk, NoEnts, Null, Promise!NoCall)
  BY DEF Finish, Goto, Updates1
<1> QED
  BY <1>1, Moving, Constants DEF Labels

\* A call that ends with an answer leaves the list as it is.
LEMMA FinishWithIs ==
  ASSUME Setting, TypeOK, NEW t \in Threads, NEW a, FinishWith(t, a)
  PROVE  /\ TypeOK' /\ ListSame(t)
         /\ Moves(t, "done", NoWalk, NoEnts, Null, Promise!NoCall)
<1>1. ListTypes' /\ ListSame(t)
  BY SameTypes DEF FinishWith
<1> QED
  BY <1>1, FinishIs DEF FinishWith

\* An insertion that begins anew has nothing at hand, and its own key.
LEMMA InsertAgainIs ==
  ASSUME Setting, TypeOK, NEW t \in Threads, InsertAgain(t), info' \in [Nodes -> InfoRec]
  PROVE  /\ TypeOK' /\ cell' = cell /\ Unpinned(t)
         /\ Moves(t, "search", FromTop(0), NoEnts, Null, call[t])
<1>1. Updates1(t, "search", FromTop(0), NoEnts, Null, call[t])
  BY Staying DEF InsertAgain, Goto, Updates1
<1>2. ListTypes' /\ cell' = cell /\ Unpinned(t)
  BY DEF InsertAgain, ListTypes, TypeOK, Unpin, Unpinned
<1> QED
  BY <1>1, <1>2, Moving, Staying, Constants, LevelsAre DEF Labels

\* An insertion that found its key ends, or searches again if the node is deleted.
LEMMA InsertCheckIs ==
  ASSUME Setting, TypeOK, NEW t \in Threads, InsertCheck(t)
  PROVE  /\ TypeOK' /\ ListSame(t)
         /\ \/ Moves(t, "done", NoWalk, NoEnts, Null, Promise!NoCall)
            \/ Moves(t, "search", FromTop(0), NoEnts, Null, call[t])
<1>1. CASE FinishWith(t, {call[t].key})
  BY <1>1, FinishWithIs
<1>2. CASE InsertAgain(t) /\ UNCHANGED info
  <2>1. info' \in [Nodes -> InfoRec]
    BY <1>2 DEF TypeOK
  <2> QED BY <1>2, <2>1, InsertAgainIs DEF ListSame
<1> QED
  BY <1>1, <1>2 DEF InsertCheck

\* The new node is freed, or the process ends.
LEMMA GiveUpIs ==
  ASSUME Setting, TypeOK, NEW t \in Threads, GiveUp(t)
  PROVE  /\ TypeOK' /\ cell' = cell /\ Unpinned(t)
         /\ \/ /\ info[t].place # "linked" /\ info' = [info EXCEPT ![t].place = "freed"]
               /\ Moves(t, "search", FromTop(0), NoEnts, Null, call[t])
            \/ UNCHANGED <<list, pc, local, call>>
<1>1. CASE InsertAgain(t) /\ info' = [info EXCEPT ![t].place = "freed"] /\ info[t].place # "linked"
  <2>1. info' \in [Nodes -> InfoRec]
    <3>1. info[t] \in InfoRec
      BY Typed, NodesTyped
    <3>2. [info[t] EXCEPT !.place = "freed"] \in InfoRec
      BY <3>1 DEF InfoRec, Places
    <3> QED BY <1>1, <3>2 DEF TypeOK
  <2> QED BY <1>1, <2>1, InsertAgainIs
<1>2. CASE UNCHANGED <<list, pc, local, call>>
  BY <1>2 DEF list, local, TypeOK, Unpinned
<1> QED
  BY <1>1, <1>2 DEF GiveUp

\* The levels of a node on which its insertion or removal is not done.
LEMMA UndoneLevels ==
  ASSUME Setting, TypeOK, NEW es, NEW n \in Nodes
  PROVE  Undone(es, n) = {l \in Levels : l < info[n].height /\ ~es[l].ok}
<1>1. info[n].height \in Nat /\ info[n].height <= MaxHeight /\ MaxHeight \in Nat
  BY NodesTyped, ListAssumption
<1>2. \A l : l \in 0 .. info[n].height - 1 <=> l \in Levels /\ l < info[n].height
  BY <1>1 DEF Levels
<1> QED
  BY <1>2 DEF Undone

\* On to the next level, to another search, or done.
After(t, l, es) ==
  \/ \E m \in Undone(es, t) :
       /\ es[0].ok /\ m > l /\ (\A i \in Undone(es, t) : i > l => m <= i) /\ waits' = waits
       /\ Moves(t, "link", [walk[t] EXCEPT !.level = m], es, node[t], call[t])
  \/ \E m \in Undone(es, t) :
       /\ \A i \in Undone(es, t) : m <= i /\ (es[0].ok => i <= l)
       /\ Unpin(t)
       /\ Moves(t, "search_again", FromTop(m), es, node[t], call[t])
  \/ /\ Undone(es, t) = {} /\ waits' = waits
     /\ Moves(t, "unset", NoWalk, es, node[t], call[t])

\* Where an insertion goes when it is done with a level.
LEMMA AfterLevelIs ==
  ASSUME Setting, TypeOK, NEW t \in Threads, NEW l \in Levels, NEW es \in [Levels -> EntRec],
         AfterLevel(t, l, es), UNCHANGED <<node, call>>,
         cell' \in [Nodes \cup {Head} -> [Levels -> LinkRec]], info' \in [Nodes -> InfoRec]
  PROVE  /\ TypeOK' /\ Unpinned(t)
         /\ After(t, l, es)
<1> DEFINE missing == Undone(es, t)
           rest == IF es[0].ok THEN {i \in missing : i > l} ELSE {}
<1>0. t \in Nodes /\ missing \subseteq Levels /\ rest \subseteq missing
  <2>1. t \in Nodes
    BY Names
  <2>2. missing = {j \in Levels : j < info[t].height /\ ~es[j].ok}
    BY <2>1, UndoneLevels
  <2> HIDE DEF missing
  <2> QED BY <2>1, <2>2
<1>a. /\ ents' = [ents EXCEPT ![t] = es]
      /\ IF rest # {}
         THEN walk' = [walk EXCEPT ![t].level = Min(rest)] /\ Goto(t, "link") /\ UNCHANGED waits
         ELSE IF missing # {}
         THEN walk' = [walk EXCEPT ![t] = FromTop(Min(missing))] /\ Goto(t, "search_again") /\ Unpin(t)
         ELSE walk' = [walk EXCEPT ![t] = NoWalk] /\ Goto(t, "unset") /\ UNCHANGED waits
  BY DEF AfterLevel
<1>b. waits' = waits \/ Unpin(t)
  BY <1>a
<1>c. ListTypes' /\ Unpinned(t)
  BY <1>b DEF TypeOK, ListTypes, Unpin, Unpinned
<1>1. CASE rest # {}
  <2>1. Min(rest) \in rest /\ \A i \in rest : Min(rest) <= i
    BY <1>0, <1>1, EndsOfLevels
  <2>2. Min(rest) \in missing /\ es[0].ok /\ Min(rest) > l /\ Min(rest) \in Levels
    BY <1>0, <2>1
  <2>3. \A i \in missing : i > l => Min(rest) <= i
    BY <2>1, <2>2
  <2>4. [walk[t] EXCEPT !.level = Min(rest)] \in WalkRec
    BY <2>2, Staying, WalkMoves
  <2>5. Updates1(t, "link", [walk[t] EXCEPT !.level = Min(rest)], es, node[t], call[t])
    BY <1>1, <1>a, Staying DEF Goto, Updates1
  <2>6. TypeOK' /\ Moves(t, "link", [walk[t] EXCEPT !.level = Min(rest)], es, node[t], call[t])
    BY ZenonT(60), SMTT(60), <1>c, <2>4, <2>5, Moving, Staying DEF Labels
  <2>7. waits' = waits
    BY <1>1, <1>a
  <2> HIDE DEF missing, rest
  <2> QED BY <1>c, <2>2, <2>3, <2>6, <2>7 DEF missing, After
<1>2. CASE rest = {} /\ missing # {}
  <2>1. Min(missing) \in missing /\ \A i \in missing : Min(missing) <= i
    BY <1>0, <1>2, EndsOfLevels
  <2>2. \A i \in missing : es[0].ok => i <= l
    BY <1>0, <1>2, LevelsAre
  <2>4. FromTop(Min(missing)) \in WalkRec
    BY <1>0, <2>1, Constants
  <2>5. Updates1(t, "search_again", FromTop(Min(missing)), es, node[t], call[t])
    BY <1>2, <1>a, Staying DEF Goto, Updates1
  <2>6. TypeOK' /\ Moves(t, "search_again", FromTop(Min(missing)), es, node[t], call[t])
    BY <1>c, <2>4, <2>5, Moving, Staying DEF Labels
  <2>7. Unpin(t)
    BY <1>2, <1>a
  <2> HIDE DEF missing, rest
  <2> QED BY <1>c, <2>1, <2>2, <2>6, <2>7 DEF missing, After
<1>3. CASE missing = {}
  <2>5. Updates1(t, "unset", NoWalk, es, node[t], call[t])
    BY <1>3, <1>a, Staying DEF Goto, Updates1
  <2>6. TypeOK' /\ Moves(t, "unset", NoWalk, es, node[t], call[t])
    BY <1>c, <2>5, Moving, Staying, Constants DEF Labels
  <2> QED BY <1>3, <1>a, <1>c, <2>6 DEF After
<1> QED
  BY <1>1, <1>2, <1>3

\* One link is changed.
CellAt(n, l, c) ==
  \A m \in Nodes \cup {Head}, j \in Levels :
    cell'[m][j] = IF m = n /\ j = l THEN c ELSE cell[m][j]

\* Storing a link changes that link.
LEMMA CellSet ==
  ASSUME TypeOK, NEW n \in Nodes \cup {Head}, NEW l \in Levels, NEW c \in LinkRec,
         cell' = [cell EXCEPT ![n][l] = c]
  PROVE  CellAt(n, l, c) /\ cell' \in [Nodes \cup {Head} -> [Levels -> LinkRec]]
<1>1. cell \in [Nodes \cup {Head} -> [Levels -> LinkRec]]
  BY DEF TypeOK
<1>2. cell' \in [Nodes \cup {Head} -> [Levels -> LinkRec]]
  BY <1>1
<1>3. ASSUME NEW m \in Nodes \cup {Head}, NEW j \in Levels
      PROVE  cell'[m][j] = IF m = n /\ j = l THEN c ELSE cell[m][j]
  BY <1>1
<1> QED
  BY <1>2, <1>3 DEF CellAt

\* The other links keep what they hold.
LEMMA LinkChanged ==
  ASSUME NEW n \in Nodes \cup {Head}, NEW l \in Levels, NEW c, CellAt(n, l, c)
  PROVE  /\ cell'[n][l] = c
         /\ \A m \in Nodes \cup {Head}, j \in Levels : m # n \/ j # l => cell'[m][j] = cell[m][j]
BY DEF CellAt

\* A link that is put together is a link.
LEMMA LinkTyped ==
  ASSUME NEW q \in Nodes \cup {Null}, NEW b \in BOOLEAN
  PROVE  [to |-> q, marked |-> b] \in LinkRec
BY DEF LinkRec

\* Marking a link keeps where it leads, and leading it elsewhere keeps the mark.
LEMMA LinkFields ==
  ASSUME NEW c \in LinkRec
  PROVE  /\ [c EXCEPT !.marked = TRUE] = [to |-> c.to, marked |-> TRUE]
         /\ \A q \in Nodes \cup {Null} : [c EXCEPT !.to = q] = [to |-> q, marked |-> c.marked]
<1>1. PICK a \in Nodes \cup {Null}, b \in BOOLEAN : c = [to |-> a, marked |-> b]
  BY DEF LinkRec
<1>2. c.to = a /\ c.marked = b
  BY <1>1
<1>3. ASSUME NEW d \in BOOLEAN PROVE [c EXCEPT !.marked = d] = [to |-> a, marked |-> d]
  BY <1>1
<1>4. ASSUME NEW q \in Nodes \cup {Null} PROVE [c EXCEPT !.to = q] = [to |-> q, marked |-> b]
  BY <1>1
<1> QED
  <2>1. TRUE \in BOOLEAN
    OBVIOUS
  <2> QED BY <1>2, <1>3, <1>4, <2>1

\* The store before the exchange changes the new node's own link.
LEMMA StoreIs ==
  ASSUME Setting, TypeOK, NEW t \in Threads, Store(t)
  PROVE  /\ TypeOK' /\ waits' = waits /\ info' = info
         /\ CellAt(t, walk[t].level, [to |-> ents[t][walk[t].level].next, marked |-> FALSE])
         /\ Moves(t, "exchange", walk[t], ents[t], node[t], call[t])
<1> DEFINE l == walk[t].level
           c == [to |-> ents[t][l].next, marked |-> FALSE]
<1>1. c \in LinkRec /\ l \in Levels
  BY Typed, LinkTyped
<1>2. cell' = [cell EXCEPT ![t][l] = c]
  BY DEF Store
<1>3. CellAt(t, l, c) /\ cell' \in [Nodes \cup {Head} -> [Levels -> LinkRec]]
  <2> HIDE DEF l, c
  <2> QED BY <1>1, <1>2, CellSet, Typed
<1>4. Updates1(t, "exchange", walk[t], ents[t], node[t], call[t])
  BY Staying DEF Store, Goto, local, Updates1
<1>5. ListTypes' /\ waits' = waits /\ info' = info
  BY <1>3 DEF Store, TypeOK, ListTypes
<1> HIDE DEF l, c
<1>6. TypeOK' /\ Moves(t, "exchange", walk[t], ents[t], node[t], call[t])
  BY ZenonT(60), SMTT(60), <1>4, <1>5, Moving, Staying DEF Labels
<1> QED BY <1>3, <1>5, <1>6 DEF l, c

\* The node in front now links to the new one.
LEMMA LinkIs ==
  ASSUME Setting, TypeOK, NEW t \in Threads, Control(t), Link(t),
         ents[t][walk[t].level].prec # Null
  PROVE  LET l == walk[t].level  e == ents[t][l] IN
         /\ TypeOK' /\ Unpinned(t)
         /\ cell[e.prec][l] = [to |-> e.next, marked |-> FALSE]
         /\ CellAt(e.prec, l, [to |-> t, marked |-> FALSE])
         /\ info' = [info EXCEPT ![t].place = "linked"]
         /\ [ents[t] EXCEPT ![l].ok = TRUE] \in [Levels -> EntRec]
         /\ After(t, l, [ents[t] EXCEPT ![l].ok = TRUE])
<1> DEFINE l == walk[t].level
           e == ents[t][l]
           c == [to |-> t, marked |-> FALSE]
           es == [ents[t] EXCEPT ![l].ok = TRUE]
<1>1. l \in Levels /\ e.prec \in Nodes \cup {Head} /\ c \in LinkRec
  <2>1. l \in Levels /\ t \in Nodes
    BY Typed
  <2>2. e.prec \in Nodes \cup {Head}
    BY <2>1, EntryTyped
  <2>3. c \in LinkRec
    BY <2>1, LinkTyped
  <2> QED BY <2>1, <2>2, <2>3
<1>2. /\ ExpectedLink(e, l)
      /\ cell' = [cell EXCEPT ![e.prec][l] = c]
      /\ info' = [info EXCEPT ![t].place = "linked"]
      /\ AfterLevel(t, l, es)
      /\ UNCHANGED <<node, call>>
  BY DEF Link
<1>3. CellAt(e.prec, l, c) /\ cell' \in [Nodes \cup {Head} -> [Levels -> LinkRec]]
  <2> HIDE DEF l, e, c, es
  <2> QED BY <1>1, <1>2, CellSet
<1>4. info' \in [Nodes -> InfoRec]
  <2>1. info[t] \in InfoRec
    BY Typed, NodesTyped
  <2>2. [info[t] EXCEPT !.place = "linked"] \in InfoRec
    BY <2>1 DEF InfoRec, Places
  <2> QED BY <1>2, <2>2 DEF TypeOK
<1>5. es \in [Levels -> EntRec]
  <2>1. ents[t] \in [Levels -> EntRec] /\ ents[t][l] \in EntRec
    BY ZenonT(60), SMTT(60), <1>1, Typed
  <2>2. [ents[t][l] EXCEPT !.ok = TRUE] \in EntRec
    BY <2>1 DEF EntRec
  <2> QED BY <1>1, <2>1, <2>2
<1> HIDE DEF es
<1>6. TypeOK' /\ Unpinned(t) /\ After(t, l, es)
  BY ZenonT(60), SMTT(60), <1>1, <1>2, <1>3, <1>4, <1>5, AfterLevelIs
<1> QED
  BY ZenonT(60), SMTT(60), <1>2, <1>3, <1>5, <1>6 DEF ExpectedLink, es

\* An exchange that fails gives up the node, or leaves at most its own link changed.
LEMMA LinkRaceIs ==
  ASSUME Setting, TypeOK, NEW t \in Threads, Control(t), LinkRace(t),
         ents[t][walk[t].level].prec # Null
  PROVE  LET l == walk[t].level  race == cell[ents[t][l].prec][l].to IN
         \/ UNCHANGED <<list, pc, local, call>>
         \/ GiveUp(t)
         \/ /\ TypeOK' /\ Unpinned(t) /\ info' = info
            /\ CellAt(t, l, [to |-> race, marked |-> FALSE]) \/ cell' = cell
            /\ After(t, l, ents[t])
<1> DEFINE l == walk[t].level
           race == cell[ents[t][l].prec][l].to
           c == [to |-> race, marked |-> FALSE]
<1>1. l \in Levels /\ ents[t][l].prec \in Nodes \cup {Head}
  <2>1. l \in Levels
    BY Typed
  <2> QED BY <2>1, EntryTyped
<1>2. race \in Nodes \cup {Null}
  BY <1>1, LinksTyped
<1>3. c \in LinkRec
  BY ZenonT(60), SMTT(60), <1>2, LinkTyped
<1>4. \/ UNCHANGED <<list, pc, local, call>>
      \/ GiveUp(t)
      \/ /\ cell' = [cell EXCEPT ![t][l] = c] \/ cell' = cell
         /\ AfterLevel(t, l, ents[t])
         /\ UNCHANGED <<info, node, call>>
  BY ZenonT(60), SMTT(60) DEF LinkRace
<1>5. ASSUME cell' = [cell EXCEPT ![t][l] = c] \/ cell' = cell,
             AfterLevel(t, l, ents[t]), UNCHANGED <<info, node, call>>
      PROVE  /\ TypeOK' /\ Unpinned(t) /\ info' = info
             /\ CellAt(t, l, c) \/ cell' = cell
             /\ After(t, l, ents[t])
  <2> HIDE DEF l, c
  <2>1. (CellAt(t, l, c) \/ cell' = cell) /\ cell' \in [Nodes \cup {Head} -> [Levels -> LinkRec]]
    <3>1. CASE cell' = [cell EXCEPT ![t][l] = c]
      <4>1. t \in Nodes \cup {Head}
        BY Typed
      <4> QED BY <1>1, <1>3, <3>1, <4>1, CellSet
    <3>2. CASE cell' = cell
      BY <3>2 DEF TypeOK
    <3> QED BY <1>5, <3>1, <3>2
  <2>2. info' \in [Nodes -> InfoRec] /\ ents[t] \in [Levels -> EntRec]
    BY <1>5 DEF TypeOK
  <2> QED BY <1>1, <1>5, <2>1, <2>2, AfterLevelIs
<1> QED
  BY <1>4, <1>5

\* The search of a retry ends with the lowest level not done, or the node is given up.
LEMMA LinkSearchedIs ==
  ASSUME Setting, TypeOK, NEW t \in Threads, Control(t), LinkSearched(t)
  PROVE  \/ GiveUp(t)
         \/ /\ NewFound(t) \in {Null, t} /\ TypeOK' /\ ListSame(t) /\ waits' = waits
            /\ \E m \in Undone(NewEnts(t), t) :
                 /\ \A i \in Undone(NewEnts(t), t) : m <= i
                 /\ Moves(t, "link", [NoWalk EXCEPT !.level = m], NewEnts(t), node[t], call[t])
<1>1. SUFFICES ASSUME ~GiveUp(t)
               PROVE  /\ NewFound(t) \in {Null, t} /\ TypeOK' /\ ListSame(t) /\ waits' = waits
                      /\ \E m \in Undone(NewEnts(t), t) :
                           /\ \A i \in Undone(NewEnts(t), t) : m <= i
                           /\ Moves(t, "link", [NoWalk EXCEPT !.level = m], NewEnts(t), node[t], call[t])
  OBVIOUS
<1> DEFINE U == Undone(NewEnts(t), t)
           m == Min(U)
<1>2. /\ NewFound(t) \in {Null, t} /\ Goto(t, "link")
      /\ ents' = [ents EXCEPT ![t] = NewEnts(t)]
      /\ walk' = [walk EXCEPT ![t] = [NoWalk EXCEPT !.level = m]]
      /\ UNCHANGED <<list, node, call>>
      /\ Searching(t) /\ pc[t] = "search_again" /\ call[t].op = "insert"
  BY <1>1 DEF LinkSearched, MetEnough
<1>3. U \subseteq Levels /\ U # {}
  <2>1. walk[t].low \in Levels /\ walk[t].low < info[t].height /\ ~ents[t][walk[t].low].ok
    BY <1>2, Typed DEF Control, InserterOk, Linking
  <2>2. NewEnts(t)[walk[t].low].ok = ents[t][walk[t].low].ok
    BY <1>2, <2>1, Searched
  <2>3. U = {i \in Levels : i < info[t].height /\ ~NewEnts(t)[i].ok}
    BY UndoneLevels, Names
  <2>4. walk[t].low \in U
    BY <2>1, <2>2, <2>3
  <2> QED BY <2>3, <2>4
<1>4. m \in U /\ \A i \in U : m <= i
  BY <1>3, EndsOfLevels
<1>5. m \in Levels /\ [NoWalk EXCEPT !.level = m] \in WalkRec
  BY <1>3, <1>4, WalkMoves, Constants
<1>6. Updates1(t, "link", [NoWalk EXCEPT !.level = m], NewEnts(t), node[t], call[t])
  BY <1>2, Staying DEF Goto, Updates1
<1>7. ListTypes' /\ ListSame(t) /\ waits' = waits
  BY <1>2, SameTypes DEF list
<1>8. NewEnts(t) \in [Levels -> EntRec]
  BY <1>2, Searched
<1>9. TypeOK' /\ Moves(t, "link", [NoWalk EXCEPT !.level = m], NewEnts(t), node[t], call[t])
  <2> HIDE DEF m
  <2> QED BY <1>5, <1>6, <1>7, <1>8, Moving, Staying DEF Labels
<1> HIDE DEF m
<1> QED
  BY <1>2, <1>4, <1>7, <1>9

\* A node stays one when its flags or its place change.
LEMMA InfoFields ==
  ASSUME NEW i \in InfoRec, NEW b \in BOOLEAN, NEW p \in Places
  PROVE  /\ [i EXCEPT !.linking = b] \in InfoRec /\ [i EXCEPT !.deleted = b] \in InfoRec
         /\ [i EXCEPT !.place = p] \in InfoRec /\ [i EXCEPT !.place = p, !.deleted = b] \in InfoRec
BY DEF InfoRec

\* A node put into the garbage keeps its key, its height and its linking flag.
LEMMA InfoGarbage ==
  ASSUME NEW i \in InfoRec, NEW p
  PROVE  LET j == [i EXCEPT !.place = p, !.deleted = TRUE] IN
         /\ j.key = i.key /\ j.height = i.height /\ j.linking = i.linking
         /\ j.deleted = TRUE /\ j.place = p
<1>1. ASSUME NEW b \in BOOLEAN
      PROVE  LET j == [i EXCEPT !.place = p, !.deleted = b] IN
             /\ j.key = i.key /\ j.height = i.height /\ j.linking = i.linking
             /\ j.deleted = b /\ j.place = p
  BY DEF InfoRec
<1>2. TRUE \in BOOLEAN
  OBVIOUS
<1> QED
  BY <1>1, <1>2

\* Clearing the flag of the linking changes that flag.
LEMMA InsertUnsetIs ==
  ASSUME Setting, TypeOK, NEW t \in Threads, InsertUnset(t)
  PROVE  /\ TypeOK' /\ cell' = cell /\ waits' = waits
         /\ info' = [info EXCEPT ![t].linking = FALSE]
         /\ Moves(t, "count", walk[t], ents[t], node[t], call[t])
<1>1. info' = [info EXCEPT ![t] = [info[t] EXCEPT !.linking = FALSE]] /\ [info[t] EXCEPT !.linking = FALSE] \in InfoRec
  BY Typed, NodesTyped, InfoFields DEF InsertUnset
<1>2. ListTypes' /\ cell' = cell /\ waits' = waits
  BY <1>1, Typed DEF InsertUnset, TypeOK, ListTypes
<1>3. Updates1(t, "count", walk[t], ents[t], node[t], call[t])
  BY Staying DEF InsertUnset, Goto, local, Updates1
<1>4. TypeOK' /\ Moves(t, "count", walk[t], ents[t], node[t], call[t])
  BY <1>2, <1>3, Moving, Staying DEF Labels
<1> QED
  BY <1>2, <1>4 DEF InsertUnset

\* Counting a new entry leaves the links alone.
LEMMA InsertCountIs ==
  ASSUME Setting, TypeOK, NEW t \in Threads, InsertCount(t)
  PROVE  /\ TypeOK' /\ ListSame(t)
         /\ Moves(t, "done", NoWalk, NoEnts, Null, Promise!NoCall)
<1>1. ListTypes' /\ ListSame(t)
  BY SameTypes DEF InsertCount
<1> QED
  BY <1>1, FinishIs DEF InsertCount

\* The search of a removal ends the call, or has found a node.
LEMMA RemoveSearchedIs ==
  ASSUME Setting, TypeOK, NEW t \in Threads, Control(t), RemoveSearched(t)
  PROVE  /\ TypeOK' /\ ListSame(t)
         /\ \/ Moves(t, "done", NoWalk, NoEnts, Null, Promise!NoCall)
            \/ /\ NewFound(t) # Null /\ waits' = waits
               /\ Moves(t, "flag", NoWalk, NewEnts(t), NewFound(t), call[t])
<1>1. CASE FinishWith(t, {})
  BY <1>1, FinishWithIs
<1>2. CASE ~FinishWith(t, {})
  <2>1. /\ NewFound(t) # Null /\ Goto(t, "flag") /\ node' = [node EXCEPT ![t] = NewFound(t)]
        /\ ents' = [ents EXCEPT ![t] = NewEnts(t)] /\ walk' = [walk EXCEPT ![t] = NoWalk]
        /\ UNCHANGED <<list, call>> /\ Searching(t)
    BY <1>2 DEF RemoveSearched, MetEnough
  <2>2. Updates1(t, "flag", NoWalk, NewEnts(t), NewFound(t), call[t])
    BY <2>1, Staying DEF Goto, Updates1
  <2>3. ListTypes' /\ ListSame(t) /\ waits' = waits
    BY <2>1, SameTypes DEF list
  <2>4. NewEnts(t) \in [Levels -> EntRec] /\ NewFound(t) \in Nodes \cup {Null}
    BY <2>1, Searched
  <2>5. TypeOK' /\ Moves(t, "flag", NoWalk, NewEnts(t), NewFound(t), call[t])
    BY <2>2, <2>3, <2>4, Moving, Staying, Constants DEF Labels
  <2> QED BY <2>1, <2>3, <2>5
<1> QED
  BY <1>1, <1>2

\* The exchange of the flags tells who removes the node; it is linked in full then.
LEMMA RemoveFlagIs ==
  ASSUME Setting, TypeOK, NEW t \in Threads, RemoveFlag(t), node[t] \in Nodes
  PROVE  \/ /\ TypeOK' /\ ListSame(t)
            /\ Moves(t, "done", NoWalk, NoEnts, Null, Promise!NoCall)
         \/ /\ TypeOK' /\ cell' = cell /\ waits' = waits
            /\ ~info[node[t]].deleted /\ ~info[node[t]].linking
            /\ info' = [info EXCEPT ![node[t]].deleted = TRUE]
            /\ Moves(t, "mark", walk[t], ents[t], node[t], call[t])
<1>1. CASE FinishWith(t, {})
  BY <1>1, FinishWithIs
<1>2. CASE ~FinishWith(t, {})
  <2>1. /\ ~info[node[t]].deleted /\ ~info[node[t]].linking
        /\ info' = [info EXCEPT ![node[t]].deleted = TRUE]
        /\ Goto(t, "mark") /\ UNCHANGED <<cell, waits, local, call>>
    BY <1>2 DEF RemoveFlag
  <2>2. info' = [info EXCEPT ![node[t]] = [info[node[t]] EXCEPT !.deleted = TRUE]] /\ [info[node[t]] EXCEPT !.deleted = TRUE] \in InfoRec
    BY <2>1, NodesTyped, InfoFields
  <2>3. ListTypes'
    BY <2>1, <2>2 DEF TypeOK, ListTypes
  <2>4. Updates1(t, "mark", walk[t], ents[t], node[t], call[t])
    BY <2>1, Staying DEF Goto, local, Updates1
  <2>5. TypeOK' /\ Moves(t, "mark", walk[t], ents[t], node[t], call[t])
    BY <2>3, <2>4, Moving, Staying DEF Labels
  <2> QED BY <2>1, <2>5
<1> QED
  BY <1>1, <1>2

\* Marking a level keeps where the link leads, and goes on to the next level or to the unlinking.
LEMMA MarkIs ==
  ASSUME Setting, TypeOK, NEW t \in Threads, Mark(t), node[t] \in Nodes
  PROVE  LET n == node[t]  l == walk[t].level IN
         /\ TypeOK' /\ info' = info /\ waits' = waits
         /\ CellAt(n, l, [to |-> cell[n][l].to, marked |-> TRUE])
         /\ \/ /\ l + 1 < info[n].height /\ l + 1 \in Levels
               /\ Moves(t, "mark", [walk[t] EXCEPT !.level = l + 1], ents[t], n, call[t])
            \/ /\ l + 1 >= info[n].height
               /\ Moves(t, "unlink", NoWalk, ents[t], n, call[t])
<1> DEFINE n == node[t]
           l == walk[t].level
           c == [to |-> cell[n][l].to, marked |-> TRUE]
<1>1. l \in Levels /\ n \in Nodes /\ n \in Nodes \cup {Head}
  BY Typed
<1>2. cell[n][l] \in LinkRec /\ c \in LinkRec
  BY <1>1, LinksTyped, LinkTyped
<1>3. [cell[n][l] EXCEPT !.marked = TRUE] = c
  BY <1>2, LinkFields
<1>4. cell' = [cell EXCEPT ![n][l] = c]
  BY <1>3 DEF Mark
<1>5. CellAt(n, l, c) /\ cell' \in [Nodes \cup {Head} -> [Levels -> LinkRec]]
  <2> HIDE DEF n, l, c
  <2> QED BY <1>1, <1>2, <1>4, CellSet
<1>6. ListTypes' /\ info' = info /\ waits' = waits
  BY <1>5 DEF Mark, TypeOK, ListTypes
<1>7. CASE l + 1 < info[n].height
  <2>1. l + 1 \in Levels
    <3>1. info[n].height \in Nat /\ info[n].height <= MaxHeight /\ l \in {0, 1}
      BY <1>1, NodesTyped, LevelsAre
    <3>2. l + 1 \in Int /\ 0 <= l + 1 /\ l + 1 < MaxHeight
      BY <1>7, <3>1, LevelsAre
    <3> QED BY <3>2, LevelsAre
  <2>2. [walk[t] EXCEPT !.level = l + 1] \in WalkRec
    BY <2>1, Staying, WalkMoves
  <2>3. Updates1(t, "mark", [walk[t] EXCEPT !.level = l + 1], ents[t], n, call[t])
    BY <1>7, Staying DEF Mark, Updates1
  <2>4. TypeOK' /\ Moves(t, "mark", [walk[t] EXCEPT !.level = l + 1], ents[t], n, call[t])
    BY <1>6, <2>2, <2>3, Moving, Staying DEF Labels
  <2> QED BY <1>5, <1>6, <1>7, <2>1, <2>4
<1>8. CASE ~(l + 1 < info[n].height)
  <2>3. Updates1(t, "unlink", NoWalk, ents[t], n, call[t])
    BY <1>8, Staying DEF Mark, Goto, Updates1
  <2>4. TypeOK' /\ Moves(t, "unlink", NoWalk, ents[t], n, call[t])
    BY <1>6, <2>3, Moving, Staying, Constants DEF Labels
  <2>5. l + 1 >= info[n].height
    BY <1>1, <1>8, NodesTyped, LevelsAre
  <2> QED BY <1>5, <1>6, <2>4, <2>5
<1> QED
  BY <1>7, <1>8

\* An exchange that succeeds leads the predecessor to where the node led.
LEMMA UnlinkIs ==
  ASSUME Setting, TypeOK, NEW t \in Threads, Unlink(t), node[t] \in Nodes,
         UnlinkLevel(t) \in Levels, ents[t][UnlinkLevel(t)].prec # Null
  PROVE  LET n == node[t]  l == UnlinkLevel(t)  e == ents[t][l] IN
         /\ TypeOK' /\ info' = info /\ waits' = waits
         /\ cell[e.prec][l] = [to |-> n, marked |-> FALSE]
         /\ CellAt(e.prec, l, [to |-> cell[n][l].to, marked |-> FALSE])
         /\ Moves(t, IF l = 0 THEN "retire" ELSE "unlink", walk[t], [ents[t] EXCEPT ![l].ok = TRUE],
                  n, call[t])
<1> DEFINE n == node[t]
           l == UnlinkLevel(t)
           e == ents[t][l]
           c == [to |-> cell[n][l].to, marked |-> FALSE]
           es == [ents[t] EXCEPT ![l].ok = TRUE]
<1>1. l \in Levels /\ n \in Nodes /\ n \in Nodes \cup {Head} /\ e.prec \in Nodes \cup {Head}
  <2>1. ents[t][l].prec \in Nodes \cup {Head, Null}
    BY Typed
  <2> QED BY <2>1
<1>2. c \in LinkRec
  BY <1>1, LinksTyped, LinkTyped
<1>3. cell[e.prec][l] = [to |-> n, marked |-> FALSE] /\ cell[e.prec][l] \in LinkRec
  BY ZenonT(60), SMTT(60), <1>1, LinksTyped DEF Unlink, ExpectedLink
<1>4. [cell[e.prec][l] EXCEPT !.to = cell[n][l].to] = c
  <2>1. cell[e.prec][l].marked = FALSE
    BY <1>3
  <2>2. cell[n][l].to \in Nodes \cup {Null}
    BY <1>1, LinksTyped
  <2>3. [cell[e.prec][l] EXCEPT !.to = cell[n][l].to]
          = [to |-> cell[n][l].to, marked |-> cell[e.prec][l].marked]
    <3> HIDE DEF n, l, e
    <3> QED BY <1>3, <2>2, LinkFields
  <2> QED BY <2>1, <2>3
<1>5. /\ cell' = [cell EXCEPT ![e.prec][l] = [cell[e.prec][l] EXCEPT !.to = cell[n][l].to]]
      /\ ents' = [ents EXCEPT ![t] = es]
      /\ IF l = 0 THEN Goto(t, "retire") ELSE UNCHANGED pc
      /\ UNCHANGED <<info, waits, walk, node, call>> /\ pc[t] = "unlink"
  BY DEF Unlink
<1>6. CellAt(e.prec, l, c) /\ cell' \in [Nodes \cup {Head} -> [Levels -> LinkRec]]
  <2>1. cell' = [cell EXCEPT ![e.prec][l] = c]
    BY <1>4, <1>5
  <2> HIDE DEF n, l, c, e
  <2> QED BY <1>1, <1>2, <2>1, CellSet
<1>7. es \in [Levels -> EntRec]
  <2>1. ents[t] \in [Levels -> EntRec] /\ ents[t][l] \in EntRec
    BY ZenonT(60), SMTT(60), <1>1, Typed
  <2>2. [ents[t][l] EXCEPT !.ok = TRUE] \in EntRec
    BY <2>1 DEF EntRec
  <2> QED BY <1>1, <2>1, <2>2
<1>8. ListTypes' /\ info' = info /\ waits' = waits
  BY <1>5, <1>6 DEF TypeOK, ListTypes
<1> HIDE DEF es
<1> DEFINE p == IF l = 0 THEN "retire" ELSE "unlink"
<1>9. Updates1(t, p, walk[t], es, n, call[t]) /\ p \in Labels
  BY <1>5, Staying DEF Goto, Updates1, Labels
<1> HIDE DEF p
<1>10. TypeOK' /\ Moves(t, p, walk[t], es, n, call[t])
  BY <1>7, <1>8, <1>9, Moving, Staying
<1> QED
  BY <1>3, <1>6, <1>8, <1>10 DEF p, es

\* An exchange that fails lets the removal search again.
LEMMA UnlinkFailsIs ==
  ASSUME Setting, TypeOK, NEW t \in Threads, UnlinkFails(t)
  PROVE  /\ TypeOK' /\ ListSame(t) /\ waits' = waits
         /\ Moves(t, "search_again", FromTop(0), ents[t], node[t], call[t])
<1>1. ListTypes' /\ ListSame(t) /\ waits' = waits
  BY SameTypes DEF UnlinkFails, list
<1>2. Updates1(t, "search_again", FromTop(0), ents[t], node[t], call[t])
  BY Staying DEF UnlinkFails, Goto, Updates1
<1> QED
  BY <1>1, <1>2, Moving, Staying, Constants, LevelsAre DEF Labels

\* The search of a removal that began anew changes what it noted alone.
LEMMA UnlinkSearchedIs ==
  ASSUME Setting, TypeOK, NEW t \in Threads, Control(t), UnlinkSearched(t)
  PROVE  /\ TypeOK' /\ ListSame(t) /\ waits' = waits
         /\ Moves(t, "unlink", NoWalk, NewEnts(t), node[t], call[t])
<1>1. ListTypes' /\ ListSame(t) /\ waits' = waits
  BY SameTypes DEF UnlinkSearched, list
<1>2. Updates1(t, "unlink", NoWalk, NewEnts(t), node[t], call[t])
  BY Staying DEF UnlinkSearched, Goto, Updates1
<1>3. NewEnts(t) \in [Levels -> EntRec]
  BY Searched DEF UnlinkSearched, MetEnough
<1> QED
  BY <1>1, <1>2, <1>3, Moving, Staying, Constants DEF Labels

\* A node gets into the garbage, for all calls in progress but perhaps that of t.
LEMMA CollectedIs ==
  ASSUME TypeOK, NEW n \in Nodes, NEW ws, Collected(n, ws), info[n].place # "garbage"
  PROVE  /\ info' \in [Nodes -> InfoRec]
         /\ info' = [info EXCEPT ![n].place = "garbage", ![n].deleted = TRUE]
         /\ waits' = ws
<1>1. info' = [info EXCEPT ![n].place = "garbage", ![n].deleted = TRUE] /\ waits' = ws
  BY DEF Collected
<1>2. info[n] \in InfoRec /\ "garbage" \in Places
  BY NodesTyped DEF Places
<1>3. [info[n] EXCEPT !.place = "garbage", !.deleted = TRUE] \in InfoRec
  BY <1>2, InfoFields
<1>4. info' = [info EXCEPT ![n] = [info[n] EXCEPT !.place = "garbage", !.deleted = TRUE]]
  BY <1>1
<1>5. info' \in [Nodes -> InfoRec]
  BY <1>3, <1>4 DEF TypeOK
<1> QED
  BY <1>1, <1>5

\* A retired node waits for the calls in progress but its own.
LEMMA RetireIs ==
  ASSUME Setting, TypeOK, NEW t \in Threads, Retire(t), node[t] \in Nodes,
         info[node[t]].place # "garbage"
  PROVE  /\ TypeOK' /\ cell' = cell
         /\ info' = [info EXCEPT ![node[t]].place = "garbage", ![node[t]].deleted = TRUE]
         /\ waits' = [[n \in Nodes |-> waits[n] \ {t}] EXCEPT ![node[t]] = {u \in Threads \ {t} : InCall(u)}]
         /\ Moves(t, "done", NoWalk, NoEnts, Null, Promise!NoCall)
<1> DEFINE ws == [[n \in Nodes |-> waits[n] \ {t}] EXCEPT ![node[t]] = {u \in Threads \ {t} : InCall(u)}]
<1>1. Collected(node[t], ws) /\ Finish(t) /\ cell' = cell
  BY DEF Retire
<1>2. ws \in [Nodes -> SUBSET Threads]
  BY DEF TypeOK
<1> HIDE DEF ws
<1>3. /\ info' \in [Nodes -> InfoRec] /\ waits' = ws
      /\ info' = [info EXCEPT ![node[t]].place = "garbage", ![node[t]].deleted = TRUE]
  BY <1>1, CollectedIs
<1>4. ListTypes'
  BY <1>1, <1>2, <1>3 DEF TypeOK, ListTypes
<1> QED
  BY <1>1, <1>3, <1>4, FinishIs DEF ws

\* What was found is taken, or there is nothing to take.
LEMMA TakeEntryIs ==
  ASSUME Setting, TypeOK, NEW t \in Threads, NEW n \in Nodes \cup {Head, Null}, TakeEntry(t, n)
  PROVE  /\ TypeOK' /\ ListSame(t)
         /\ \/ Moves(t, "done", NoWalk, NoEnts, Null, Promise!NoCall)
            \/ /\ n \in Nodes /\ waits' = waits
               /\ Moves(t, "entry", [NoWalk EXCEPT !.at = n, !.seen = walk[t].seen], ents[t], node[t], call[t])
<1>1. CASE FinishWith(t, walk[t].seen)
  BY <1>1, FinishWithIs
<1>2. CASE ~FinishWith(t, walk[t].seen)
  <2> DEFINE w == [NoWalk EXCEPT !.at = n, !.seen = walk[t].seen]
  <2>1. n \notin {Head, Null} /\ Goto(t, "entry") /\ walk' = [walk EXCEPT ![t] = w]
        /\ UNCHANGED <<list, ents, node, call>>
    BY <1>2 DEF TakeEntry
  <2>2. w \in WalkRec
    <3>1. NoWalk \in WalkRec /\ walk[t].seen \in SUBSET Nat
      BY Constants, Typed
    <3> QED BY <3>1, WalkMoves
  <2> HIDE DEF w
  <2>3. Updates1(t, "entry", w, ents[t], node[t], call[t])
    BY <2>1, Staying DEF Goto, Updates1
  <2>4. ListTypes' /\ ListSame(t) /\ waits' = waits
    BY <2>1, SameTypes DEF list
  <2>5. TypeOK' /\ Moves(t, "entry", w, ents[t], node[t], call[t])
    BY <2>2, <2>3, <2>4, Moving, Staying DEF Labels
  <2> QED BY <2>1, <2>4, <2>5 DEF w
<1> QED
  BY <1>1, <1>2

\* The search of a lookup ends the call, or has come to an entry or to a node in front of one.
LEMMA ReadSearchedIs ==
  ASSUME Setting, TypeOK, NEW t \in Threads, Control(t), ReadSearched(t)
  PROVE  /\ TypeOK' /\ ListSame(t)
         /\ \/ Moves(t, "done", NoWalk, NoEnts, Null, Promise!NoCall)
            \/ /\ NewFound(t) # Null /\ waits' = waits
               /\ Moves(t, "after", [NoWalk EXCEPT !.at = NewFound(t)], ents[t], node[t], call[t])
            \/ \E n \in Nodes \cap {NewFound(t), walk[t].at, Met(t)} :
                 /\ waits' = waits
                 /\ Moves(t, "entry", [NoWalk EXCEPT !.at = n, !.seen = walk[t].seen], ents[t], node[t], call[t])
<1>0. Searching(t)
  BY DEF ReadSearched, MetEnough
<1>1. CASE \E a : FinishWith(t, a)
  BY <1>1, FinishWithIs
<1>2. CASE /\ NewFound(t) # Null /\ Goto(t, "after")
           /\ walk' = [walk EXCEPT ![t] = [NoWalk EXCEPT !.at = NewFound(t)]]
           /\ UNCHANGED <<list, ents, node, call>>
  <2> DEFINE w == [NoWalk EXCEPT !.at = NewFound(t)]
  <2>2. w \in WalkRec
    <3>1. NoWalk \in WalkRec /\ NewFound(t) \in Nodes \cup {Head, Null}
      BY <1>0, Constants, Searched
    <3> QED BY <3>1, WalkMoves
  <2>3. Updates1(t, "after", w, ents[t], node[t], call[t])
    BY <1>2, Staying DEF Goto, Updates1
  <2>4. ListTypes' /\ ListSame(t) /\ waits' = waits
    BY <1>2, SameTypes DEF list
  <2> HIDE DEF w
  <2>5. TypeOK' /\ Moves(t, "after", w, ents[t], node[t], call[t])
    BY <2>2, <2>3, <2>4, Moving, Staying DEF Labels
  <2> QED BY <1>2, <2>4, <2>5 DEF w
<1>3. CASE TakeEntry(t, Candidate(t))
  <2>1. Candidate(t) \in {NewFound(t), walk[t].at, Met(t)}
    BY DEF Candidate
  <2>2. Candidate(t) \in Nodes \cup {Head, Null}
    BY <1>0, <2>1, Searched
  <2> QED BY <1>3, <2>1, <2>2, TakeEntryIs
<1> QED
  BY <1>1, <1>2, <1>3 DEF ReadSearched

\* Behind an entry comes the next one, or the end.
LEMMA ReadAfterIs ==
  ASSUME Setting, TypeOK, NEW t \in Threads, ReadAfter(t), walk[t].at \in Nodes
  PROVE  /\ TypeOK' /\ ListSame(t)
         /\ \/ Moves(t, "done", NoWalk, NoEnts, Null, Promise!NoCall)
            \/ LET n == cell[walk[t].at][0].to IN
               /\ n \in Nodes /\ waits' = waits
               /\ Moves(t, "entry", [NoWalk EXCEPT !.at = n, !.seen = walk[t].seen], ents[t], node[t], call[t])
<1>1. cell[walk[t].at][0].to \in Nodes \cup {Null}
  BY LinksTyped, LevelsAre
<1> QED
  BY <1>1, TakeEntryIs DEF ReadAfter

\* At an entry a lookup ends, goes on, or searches again if it was deleted.
LEMMA ReadEntryIs ==
  ASSUME Setting, TypeOK, NEW t \in Threads, ReadEntry(t), walk[t].at \in Nodes
  PROVE  /\ TypeOK' /\ ListSame(t)
         /\ \/ Moves(t, "done", NoWalk, NoEnts, Null, Promise!NoCall)
            \/ /\ waits' = waits
               /\ \E S \in SUBSET Nat :
                    Moves(t, "after", [walk[t] EXCEPT !.seen = S], ents[t], node[t], call[t])
            \/ waits' = waits /\ Moves(t, "search", FromTop(0), ents[t], node[t], call[t])
<1> DEFINE S == IF info[walk[t].at].deleted THEN walk[t].seen
                ELSE walk[t].seen \cup {info[walk[t].at].key}
<1>1. CASE \E a : FinishWith(t, a)
  BY <1>1, FinishWithIs
<1>2. CASE /\ Goto(t, "after")
           /\ walk' = [walk EXCEPT ![t] = [walk[t] EXCEPT !.seen = S]]
           /\ UNCHANGED <<list, ents, node, call>>
  <2>1. S \in SUBSET Nat
    BY Typed, NodesTyped
  <2>2. [walk[t] EXCEPT !.seen = S] \in WalkRec
    BY <2>1, Staying, WalkMoves
  <2> HIDE DEF S
  <2>3. Updates1(t, "after", [walk[t] EXCEPT !.seen = S], ents[t], node[t], call[t])
    BY <1>2, Staying DEF Goto, Updates1
  <2>4. ListTypes' /\ ListSame(t) /\ waits' = waits
    BY <1>2, SameTypes DEF list
  <2>5. TypeOK' /\ Moves(t, "after", [walk[t] EXCEPT !.seen = S], ents[t], node[t], call[t])
    BY <2>2, <2>3, <2>4, Moving, Staying DEF Labels
  <2> QED BY <2>1, <2>4, <2>5
<1>3. CASE /\ Goto(t, "search") /\ walk' = [walk EXCEPT ![t] = FromTop(0)]
           /\ UNCHANGED <<list, ents, node, call>>
  <2>3. Updates1(t, "search", FromTop(0), ents[t], node[t], call[t])
    BY <1>3, Staying DEF Goto, Updates1
  <2>4. ListTypes' /\ ListSame(t) /\ waits' = waits
    BY <1>3, SameTypes DEF list
  <2>5. TypeOK' /\ Moves(t, "search", FromTop(0), ents[t], node[t], call[t])
    BY <2>3, <2>4, Moving, Staying, Constants, LevelsAre DEF Labels
  <2> QED BY <2>4, <2>5
<1>4. \/ \E a : FinishWith(t, a)
      \/ /\ Goto(t, "after")
         /\ walk' = [walk EXCEPT ![t] = [walk[t] EXCEPT !.seen = S]]
         /\ UNCHANGED <<list, ents, node, call>>
      \/ /\ Goto(t, "search") /\ walk' = [walk EXCEPT ![t] = FromTop(0)]
         /\ UNCHANGED <<list, ents, node, call>>
  <2>1. \/ \E a : FinishWith(t, a)
        \/ /\ Goto(t, "after")
           /\ walk' = [walk EXCEPT ![t].seen = IF info[walk[t].at].deleted THEN @
                                                 ELSE @ \cup {info[walk[t].at].key}]
           /\ UNCHANGED <<list, ents, node, call>>
        \/ /\ Goto(t, "search") /\ walk' = [walk EXCEPT ![t] = FromTop(0)]
           /\ UNCHANGED <<list, ents, node, call>>
    BY DEF ReadEntry
  <2> QED BY <2>1
<1> QED
  BY <1>1, <1>2, <1>3, <1>4

\* Clear sets the links of the head from the top down.
LEMMA ClearHeadsIs ==
  ASSUME Setting, TypeOK, NEW t \in Threads, ClearHeads(t)
  PROVE  LET l == walk[t].level IN
         /\ TypeOK' /\ info' = info /\ waits' = waits
         /\ pc[t] = "heads" /\ l \in Levels /\ l - 1 \in Levels
         /\ CellAt(Head, l, NoLink)
         /\ Moves(t, "heads", [walk[t] EXCEPT !.level = l - 1], ents[t], node[t], call[t])
<1> DEFINE l == walk[t].level
<1>1. l \in Levels /\ l - 1 \in Levels
  <2>1. l \in Levels /\ 0 \in Levels /\ l > 0
    BY Typed, LevelsAre DEF ClearHeads
  <2> QED BY <2>1, LevelBelow
<1>2. NoLink \in LinkRec /\ Head \in Nodes \cup {Head}
  BY DEF LinkRec, NoLink
<1>3. cell' = [cell EXCEPT ![Head][l] = NoLink]
  BY DEF ClearHeads
<1>4. CellAt(Head, l, NoLink) /\ cell' \in [Nodes \cup {Head} -> [Levels -> LinkRec]]
  <2> HIDE DEF l
  <2> QED BY <1>1, <1>2, <1>3, CellSet
<1>5. ListTypes' /\ info' = info /\ waits' = waits
  BY <1>4 DEF ClearHeads, TypeOK, ListTypes
<1>6. [walk[t] EXCEPT !.level = l - 1] \in WalkRec
  BY <1>1, Staying, WalkMoves
<1>7. Updates1(t, "heads", [walk[t] EXCEPT !.level = l - 1], ents[t], node[t], call[t])
  BY Staying DEF ClearHeads, Updates1
<1>8. TypeOK' /\ Moves(t, "heads", [walk[t] EXCEPT !.level = l - 1], ents[t], node[t], call[t])
  BY <1>5, <1>6, <1>7, Moving, Staying DEF Labels
<1> QED
  BY <1>1, <1>4, <1>5, <1>8 DEF ClearHeads

\* With level 0 clear takes all nodes out of the list.
LEMMA ClearSwapIs ==
  ASSUME Setting, TypeOK, NEW t \in Threads, ClearSwap(t)
  PROVE  /\ TypeOK' /\ waits' = waits
         /\ pc[t] = "heads" /\ walk[t].level = 0
         /\ CellAt(Head, 0, NoLink)
         /\ info' = [n \in Nodes |-> [info[n] EXCEPT !.place = IF @ = "linked" THEN "cut" ELSE @]]
         /\ Moves(t, "collect", [walk[t] EXCEPT !.at = cell[Head][0].to], ents[t], node[t], call[t])
<1> DEFINE h == cell[Head][0].to
<1>1. 0 \in Levels /\ h \in Nodes \cup {Head, Null}
  BY LinksTyped, LevelsAre
<1>2. NoLink \in LinkRec /\ Head \in Nodes \cup {Head}
  BY DEF LinkRec, NoLink
<1>3. cell' = [cell EXCEPT ![Head][0] = NoLink]
  BY DEF ClearSwap
<1>4. CellAt(Head, 0, NoLink) /\ cell' \in [Nodes \cup {Head} -> [Levels -> LinkRec]]
  BY <1>1, <1>2, <1>3, CellSet
<1>5. info' = [n \in Nodes |-> [info[n] EXCEPT !.place = IF @ = "linked" THEN "cut" ELSE @]]
  BY DEF ClearSwap
<1>6. info' \in [Nodes -> InfoRec]
  <2>1. ASSUME NEW n \in Nodes
        PROVE  [info[n] EXCEPT !.place = IF @ = "linked" THEN "cut" ELSE @] \in InfoRec
    <3>1. info[n] \in InfoRec /\ info[n].place \in Places /\ "cut" \in Places
      BY NodesTyped DEF Places
    <3>2. (IF info[n].place = "linked" THEN "cut" ELSE info[n].place) \in Places
      BY <3>1
    <3>3. TRUE \in BOOLEAN
      OBVIOUS
    <3> QED BY <3>1, <3>2, <3>3, InfoFields
  <2> QED BY <1>5, <2>1
<1>7. ListTypes' /\ waits' = waits
  BY <1>4, <1>6 DEF ClearSwap, TypeOK, ListTypes
<1>8. [walk[t] EXCEPT !.at = h] \in WalkRec
  BY <1>1, Staying, WalkMoves
<1>9. Updates1(t, "collect", [walk[t] EXCEPT !.at = h], ents[t], node[t], call[t])
  BY Staying DEF ClearSwap, Goto, Updates1
<1>10. TypeOK' /\ Moves(t, "collect", [walk[t] EXCEPT !.at = h], ents[t], node[t], call[t])
  BY <1>7, <1>8, <1>9, Moving, Staying DEF Labels
<1> QED
  BY <1>4, <1>5, <1>7, <1>10 DEF ClearSwap

\* A node collected by clear waits for all calls in progress.
LEMMA ClearCollectIs ==
  ASSUME Setting, TypeOK, NEW t \in Threads, ClearCollect(t), walk[t].at \in Nodes,
         info[walk[t].at].place # "garbage"
  PROVE  LET n == walk[t].at IN
         /\ TypeOK' /\ cell' = cell /\ pc[t] = "collect"
         /\ info' = [info EXCEPT ![n].place = "garbage", ![n].deleted = TRUE]
         /\ waits' = [waits EXCEPT ![n] = {u \in Threads : InCall(u)}]
         /\ Moves(t, "collect", [walk[t] EXCEPT !.at = cell[n][0].to], ents[t], node[t], call[t])
<1> DEFINE n == walk[t].at
           ws == [waits EXCEPT ![n] = {u \in Threads : InCall(u)}]
<1>1. Collected(n, ws) /\ cell' = cell
  BY DEF ClearCollect
<1>2. ws \in [Nodes -> SUBSET Threads]
  BY DEF TypeOK
<1>3. cell[n][0].to \in Nodes \cup {Head, Null}
  BY LinksTyped, LevelsAre
<1>4. Updates1(t, "collect", [walk[t] EXCEPT !.at = cell[n][0].to], ents[t], node[t], call[t])
  BY Staying DEF ClearCollect, Updates1
<1> HIDE DEF n, ws
<1>5. /\ info' \in [Nodes -> InfoRec] /\ waits' = ws
      /\ info' = [info EXCEPT ![n].place = "garbage", ![n].deleted = TRUE]
  BY <1>1, CollectedIs DEF n
<1>6. ListTypes'
  BY <1>1, <1>2, <1>5 DEF TypeOK, ListTypes
<1>7. [walk[t] EXCEPT !.at = cell[n][0].to] \in WalkRec
  BY <1>3, Staying, WalkMoves
<1>8. TypeOK' /\ Moves(t, "collect", [walk[t] EXCEPT !.at = cell[n][0].to], ents[t], node[t], call[t])
  BY <1>4, <1>6, <1>7, Moving, Staying DEF Labels
<1> QED
  BY <1>1, <1>5, <1>8 DEF n, ws, ClearCollect

\* Clear ends behind the last node.
LEMMA ClearEndsIs ==
  ASSUME Setting, TypeOK, NEW t \in Threads, ClearEnds(t)
  PROVE  /\ TypeOK' /\ ListSame(t) /\ pc[t] = "collect" /\ walk[t].at = Null
         /\ Moves(t, "done", NoWalk, NoEnts, Null, Promise!NoCall)
<1>1. ListTypes' /\ ListSame(t)
  BY SameTypes DEF ClearEnds
<1> QED
  BY <1>1, FinishIs DEF ClearEnds

\* A call begins at the top level, or at level 0.
LEMMA BeginIs ==
  ASSUME Setting, TypeOK, NEW t \in Threads, NEW op \in Ops, NEW k \in Nat, NEW p \in Labels,
         NEW w \in WalkRec, Begin(t, op, k, p, w)
  PROVE  /\ TypeOK' /\ ListSame(t) /\ waits' = waits /\ pc[t] = "idle"
         /\ Moves(t, p, w, ents[t], node[t], [op |-> op, key |-> k])
<1>1. ListTypes' /\ ListSame(t) /\ waits' = waits
  BY SameTypes DEF Begin, list
<1>2. [op |-> op, key |-> k] \in CallRec
  BY DEF CallRec
<1>3. Updates1(t, p, w, ents[t], node[t], [op |-> op, key |-> k])
  BY Staying DEF Begin, Goto, Updates1
<1> QED
  BY <1>1, <1>2, <1>3, Moving, Staying DEF Begin

\* The calls that begin.
LEMMA StartIs ==
  ASSUME Setting, TypeOK, NEW t \in Threads, Write(t) \/ Read(t) \/ Clear(t)
  PROVE  /\ TypeOK' /\ ListSame(t) /\ waits' = waits /\ pc[t] = "idle" /\ MaxHeight - 1 \in Levels
         /\ \E op \in Ops, k \in Nat, l \in Levels :
              /\ op \in {"insert", "remove"} => k \in Keys /\ \A c \in Threads : call[c].op # "clear"
              /\ op = "clear" => \A c \in Threads : call[c].op \notin {"insert", "remove"}
              /\ op = "clear" => l = MaxHeight - 1
              /\ op # "none"
              /\ Moves(t, IF op = "clear" THEN "heads" ELSE "search", [FromTop(0) EXCEPT !.level = l],
                       ents[t], node[t], [op |-> op, key |-> k])
<1> DEFINE W(l) == [FromTop(0) EXCEPT !.level = l]
           Good(op, k) ==
             /\ op \in {"insert", "remove"} => k \in Keys /\ \A c \in Threads : call[c].op # "clear"
             /\ op = "clear" => \A c \in Threads : call[c].op \notin {"insert", "remove"}
             /\ op # "none"
           P(op) == IF op = "clear" THEN "heads" ELSE "search"
<1>1. /\ \A l \in Levels : W(l) \in WalkRec
      /\ MaxHeight - 1 \in Levels /\ W(MaxHeight - 1) = FromTop(0)
      /\ 0 \in Levels
  <2>1. FromTop(0) \in WalkRec /\ MaxHeight - 1 \in Levels /\ 0 \in Levels
    BY Constants, LevelsAre
  <2>2. \A l \in Levels : W(l) \in WalkRec
    BY <2>1, WalkMoves
  <2>3. W(MaxHeight - 1) = FromTop(0)
    BY DEF FromTop, NoWalk
  <2> QED BY <2>1, <2>2, <2>3
<1>2. ~ClearOverlaps
  BY DEF Setting
<1>3. \E op \in Ops, k \in Nat, l \in Levels :
         (op = "clear" => l = MaxHeight - 1) /\ Good(op, k) /\ Begin(t, op, k, P(op), W(l))
  <2> HIDE DEF W
  <2>1. CASE Write(t)
    <3>1. PICK w \in Writes[t] : Begin(t, w[1], w[2], "search", FromTop(0))
      BY <2>1 DEF Write
    <3>2. w[1] \in {"insert", "remove"} /\ w[2] \in Keys
      BY ListAssumption
    <3>3. \A c \in Threads : call[c].op # "clear"
      BY <1>2, <2>1 DEF Write
    <3>4. w[1] \in Ops /\ w[2] \in Nat /\ P(w[1]) = "search" /\ Good(w[1], w[2])
      BY <3>2, <3>3, Names DEF Ops
    <3> QED BY <1>1, <3>1, <3>4
  <2>2. CASE Read(t)
    <3>1. PICK op \in ReadOps :
            \/ /\ op \in {"get", "contains", "next", "prev"}
               /\ \E k \in Keys : Begin(t, op, k, "search", FromTop(0))
            \/ /\ op \in {"first", "iter"}
               /\ Begin(t, op, 0, "search", W(0))
            \/ op = "last" /\ Begin(t, op, Max(Keys) + 1, "search", FromTop(0))
      BY <2>2 DEF Read, W
    <3>2. op \in Ops /\ op \notin {"none", "insert", "remove", "clear"}
      BY <3>1, ListAssumption DEF Ops
    <3>3. P(op) = "search" /\ \A k : Good(op, k)
      BY <3>2
    <3>4. Max(Keys) + 1 \in Nat
      <4>1. Keys \subseteq Nat /\ IsFiniteSet(Keys) /\ Keys # {}
        BY ListAssumption
      <4>2. \E m \in Keys : \A j \in Keys : m >= j
        BY <4>1, GreatestOf
      <4>3. Max(Keys) \in Keys
        BY <4>2 DEF Max
      <4>4. \A x \in Nat : x + 1 \in Nat
        OBVIOUS
      <4>5. Max(Keys) \in Nat
        BY <4>1, <4>3
      <4> QED BY <4>4, <4>5
    <3>5. \E k \in Nat, l \in Levels : Begin(t, op, k, "search", W(l))
      <4>1. CASE op \in {"get", "contains", "next", "prev"}
        <5>1. PICK k \in Keys : Begin(t, op, k, "search", FromTop(0))
          BY <3>1, <4>1
        <5>2. k \in Nat /\ Begin(t, op, k, "search", W(MaxHeight - 1))
          BY <1>1, <5>1, Names
        <5> QED BY <1>1, <5>2
      <4>2. CASE op \in {"first", "iter"}
        <5>1. Begin(t, op, 0, "search", W(0))
          BY <3>1, <4>2
        <5> QED BY <1>1, <5>1
      <4>3. CASE op = "last"
        <5>1. Begin(t, op, Max(Keys) + 1, "search", W(MaxHeight - 1))
          BY <1>1, <3>1, <4>3
        <5> QED BY <1>1, <3>4, <5>1
      <4> QED BY <3>1, <4>1, <4>2, <4>3
    <3>6. PICK k \in Nat, l \in Levels : Begin(t, op, k, "search", W(l))
      BY <3>5
    <3> QED BY <3>2, <3>3, <3>6
  <2>3. CASE Clear(t)
    <3>1. Begin(t, "clear", 0, "heads", FromTop(0))
      BY <2>3 DEF Clear
    <3>2. \A w \in Threads : call[w].op \notin {"insert", "remove"}
      BY <1>2, <2>3 DEF Clear
    <3>3. "clear" \in Ops /\ 0 \in Nat /\ P("clear") = "heads" /\ Good("clear", 0)
      BY <3>2 DEF Ops
    <3> QED BY <1>1, <3>1, <3>3
  <2> QED BY <2>1, <2>2, <2>3
<1>4. PICK op \in Ops, k \in Nat, l \in Levels :
        (op = "clear" => l = MaxHeight - 1) /\ Good(op, k) /\ Begin(t, op, k, P(op), W(l))
  BY <1>3
<1>5. P(op) \in Labels /\ W(l) \in WalkRec
  BY <1>1 DEF Labels
<1> HIDE DEF W, P
<1>6. /\ TypeOK' /\ ListSame(t) /\ waits' = waits /\ pc[t] = "idle"
      /\ Moves(t, P(op), W(l), ents[t], node[t], [op |-> op, key |-> k])
  BY <1>4, <1>5, BeginIs
<1> QED
  BY <1>1, <1>4, <1>6 DEF P, W

-----------------------------------------------------------------------------
(* What the invariant says of the levels and of what calls may come to.    *)

Base == TypeOK /\ (\A t \in Threads : Control(t)) /\ Placed

\* Level 0 is the first to be linked.
LEMMA FirstLinked ==
  ASSUME Base, NEW t \in Threads, NEW l \in Levels, info[t].linking, ents[t][l].ok
  PROVE  call[t].op = "insert" /\ pc[t] \in Linking /\ ents[t][0].ok
<1>1. Control(t) /\ pc[t] \in Labels
  BY DEF Base, TypeOK
<1>2. pc[t] \in Linking \cup {"count", "flag", "mark", "unlink", "retire"}
  BY <1>1 DEF Control, RestOk
<1>3. pc[t] # "count"
  BY <1>1 DEF Control, RestOk
<1>4. call[t].op = "insert"
  <2>1. pc[t] # "done"
    BY <1>2 DEF Linking
  <2> QED BY <1>1, <2>1 DEF Control, RestOk
<1>5. pc[t] \in Linking
  BY <1>1, <1>2, <1>3, <1>4 DEF Control, OpAt
<1> QED
  BY <1>1, <1>4, <1>5 DEF Control, InserterOk

\* Level 0 is the last to be unlinked.
LEMMA LastUnlinked ==
  ASSUME Base, NEW t \in Threads, NEW l \in Levels, call[t].op = "remove", ents[t][l].ok
  PROVE  /\ Active(t) /\ pc[t] \in {"unlink", "search_again", "retire"}
         /\ ents[t][0].ok => pc[t] = "retire"
<1>1. Control(t) /\ pc[t] \in Labels
  BY DEF Base, TypeOK
<1>2. pc[t] \in {"search", "flag", "mark", "unlink", "search_again", "retire"}
  BY <1>1 DEF Control, OpAt, Labels
<1>3. pc[t] \in {"unlink", "search_again", "retire"}
  BY <1>1, <1>2 DEF Control, RemoverOk
<1> QED
  BY <1>1, <1>3 DEF Control, RemoverOk, Active

\* Each level is part of level 0.
LEMMA Nested ==
  Setting /\ Base => \A l \in Levels : Was(l) \subseteq Was(0) /\ On(l) \subseteq On(0)
<1> SUFFICES ASSUME Setting, Base, NEW l \in Levels
             PROVE  Was(l) \subseteq Was(0) /\ On(l) \subseteq On(0)
  OBVIOUS
<1>0. l \in {0, 1} /\ 0 \in Levels /\ TypeOK
  BY LevelsAre DEF Base
<1>1. ASSUME NEW n \in Was(l) PROVE n \in Was(0)
  <2>1. n \in Nodes /\ l < info[n].height /\ (info[n].linking => ents[n][l].ok)
    BY DEF Was
  <2>2. 0 < info[n].height
    BY <1>0, <2>1, NodesTyped
  <2>3. info[n].linking => ents[n][0].ok
    <3>1. info[n].linking => n \in Threads
      BY <2>1 DEF Base, Placed
    <3> QED BY <2>1, <3>1, FirstLinked
  <2> QED BY <2>1, <2>2, <2>3 DEF Was
<1>2. ASSUME NEW n \in On(l) PROVE n \in On(0)
  <2>1. n \in Was(l) /\ info[n].place \in {"linked", "cut"} /\ ~Off(n, l)
    BY DEF On
  <2>2. ~Off(n, 0)
    <3>1. SUFFICES ASSUME NEW t \in Threads, call[t].op = "remove", node[t] = n, ents[t][0].ok
                   PROVE  FALSE
      BY DEF Off
    <3>2. pc[t] = "retire"
      BY <1>0, <3>1, LastUnlinked
    <3>3. ents[t][l].ok
      BY <2>1, <3>1, <3>2 DEF Base, Control, RemoverOk, Was
    <3> QED BY <2>1, <3>1, <3>3 DEF Off
  <2> QED BY <1>1, <2>1, <2>2 DEF On
<1> QED
  BY <1>1, <1>2

\* What the head and the nodes of a level link to is on the level.
LEMMA LinksLead ==
  ASSUME Graph, NEW l \in Levels
  PROVE  /\ cell[Head][l].to # Null => cell[Head][l].to \in On(l)
         /\ \A n \in On(l) : cell[n][l].to # Null => cell[n][l].to \in On(l)
BY DEF Graph, Chained, Leads

\* A call that begins, or pins anew, may come to what is on the levels now.
LevelsAreRegions ==
  \A t \in Threads : /\ [l \in Levels |-> On(l)] \in [Levels -> SUBSET Nodes]
                     /\ Region(t, [l \in Levels |-> On(l)])

\* The levels as they are are a region for a call that begins now.
LEMMA FreshRegion ==
  Setting /\ Base /\ Graph => LevelsAreRegions
<1> SUFFICES ASSUME Setting, Base, Graph, NEW t \in Threads
             PROVE  /\ [l \in Levels |-> On(l)] \in [Levels -> SUBSET Nodes]
                    /\ Region(t, [l \in Levels |-> On(l)])
  BY DEF LevelsAreRegions
<1> DEFINE Q == [l \in Levels |-> On(l)]
<1>1. \A l \in Levels : Q[l] = On(l) /\ On(l) \subseteq Was(l) /\ On(l) \subseteq On(0) /\ Was(l) \subseteq Nodes
  BY Nested DEF On, Was
<1>2. Q \in [Levels -> SUBSET Nodes]
  BY <1>1
<1>3. 0 \in Levels
  BY LevelsAre
<1> HIDE DEF Q
<1>4. \A l \in Levels : /\ On(l) \subseteq Q[l] /\ Q[l] \subseteq Was(l) /\ Q[l] \subseteq Q[0]
                        /\ \A n \in Q[l] : cell[n][l].to # Null => cell[n][l].to \in Q[l]
  BY <1>1, <1>3, LinksLead
<1>5. \A n \in Q[0] : Safe(t, n)
  BY <1>1, <1>3 DEF On, Safe
<1>6. \A l \in Levels : \A n \in Q[l] : n \in On(l) \/ cell[n][l].marked
  BY <1>1
<1>7. Region(t, Q)
  BY <1>4, <1>5, <1>6 DEF Region
<1> QED
  BY <1>2, <1>7 DEF Q

\* The search meets nodes of its region.
LEMMA MeetsRegion ==
  ASSUME Setting, TypeOK, Graph, NEW t \in Threads, Control(t), Searching(t),
         NEW Q \in [Levels -> SUBSET Nodes], Region(t, Q), Holds(t, Q)
  PROVE  /\ Met(t) # Null => Met(t) \in Q[walk[t].level]
         /\ NewFound(t) # Null => NewFound(t) \in Q[0]
         /\ walk[t].at \in Nodes => walk[t].at \in Q[walk[t].level] /\ walk[t].at \in Q[0]
         /\ walk[t].level \in Levels /\ Q[walk[t].level] \subseteq Q[0]
<1>1. walk[t].level \in Levels /\ walk[t].at \in Nodes \cup {Head}
  BY Typed, Searched
<1>2. Q[walk[t].level] \subseteq Q[0]
  BY <1>1 DEF Region
<1>3. walk[t].at \in Nodes => walk[t].at \in Q[walk[t].level]
  BY DEF Holds
<1>4. Met(t) # Null => Met(t) \in Q[walk[t].level]
  <2>1. CASE walk[t].at = Head
    BY <1>1, <2>1, LinksLead DEF Region, Met
  <2>2. CASE walk[t].at \in Nodes
    BY <1>1, <1>3, <2>2 DEF Region, Met
  <2> QED BY <1>1, <2>1, <2>2
<1>5. NewFound(t) # Null => NewFound(t) \in Q[0]
  BY <1>2, <1>4 DEF NewFound, Holds
<1> QED
  BY <1>1, <1>2, <1>3, <1>4, <1>5

-----------------------------------------------------------------------------
(* Steps that leave the nodes on each level as they are.                   *)

InList(n) == info[n].place \in {"linked", "cut"}

SameLevels == \A l \in Levels : Was(l)' = Was(l) /\ On(l)' = On(l)

\* The links of the nodes of a level stay, and so do their marks.
LinksKept ==
  \A l \in Levels : \A n \in Was(l) :
    cell'[n][l].to = cell[n][l].to /\ (cell[n][l].marked => cell'[n][l].marked)

MarksKept == \A l \in Levels : \A n \in Was(l) : cell[n][l].marked => cell'[n][l].marked

\* A node keeps its name when it is or has been in the list, or is another thread's.
NamesKept(t) ==
  /\ \A n \in Was(0) : info'[n].key = info[n].key /\ info'[n].height = info[n].height
  /\ \A u \in Threads : u # t =>
       /\ info'[u].key = info[u].key /\ info'[u].height = info[u].height
       /\ info'[u].linking = info[u].linking
       /\ (call[u].op = "insert" /\ info[u].linking) \/ info[u].height = 0 =>
            info'[u].place = info[u].place
       /\ \A l \in Levels : u \notin Was(l) => cell'[u][l] = cell[u][l]

\* What t has marked as done says of the levels what it said before.
FlagsKept(t) ==
  \A n \in Nodes, l \in Levels :
    (call'[t].op = "remove" /\ node'[t] = n /\ ents'[t][l].ok)
      <=> (call[t].op = "remove" /\ node[t] = n /\ ents[t][l].ok)

\* Who is and was on a level depends on heights, flags and places alone.
LEMMA LevelsStay ==
  ASSUME Base, NEW t \in Threads, Others(t), FlagsKept(t),
         \A n \in Nodes : n # t => /\ info'[n].height = info[n].height
                                   /\ info'[n].linking = info[n].linking,
         \A n \in Nodes : InList(n)' <=> InList(n),
         \A l \in Levels : t \in Was(l)' <=> t \in Was(l)
  PROVE  SameLevels
<1>1. ASSUME NEW l \in Levels, NEW n \in Nodes
      PROVE  n \in Was(l)' <=> n \in Was(l)
  <2>1. CASE n # t
    <3>1. info[n].linking => n \in Threads /\ ents'[n] = ents[n]
      BY <2>1 DEF Base, Placed, Others
    <3> QED BY <2>1, <3>1 DEF Was
  <2> QED BY <2>1
<1>2. ASSUME NEW l \in Levels, NEW n \in Nodes
      PROVE  Off(n, l)' <=> Off(n, l)
  <2>1. \A u \in Threads : (call'[u].op = "remove" /\ node'[u] = n /\ ents'[u][l].ok)
                             <=> (call[u].op = "remove" /\ node[u] = n /\ ents[u][l].ok)
    <3>1. ASSUME NEW u \in Threads, u # t
          PROVE  call'[u] = call[u] /\ node'[u] = node[u] /\ ents'[u] = ents[u]
      BY <3>1 DEF Others
    <3> QED BY <3>1 DEF FlagsKept
  <2> QED BY <2>1 DEF Off
<1>3. ASSUME NEW l \in Levels PROVE Was(l)' = Was(l) /\ On(l)' = On(l)
  <2>1. Was(l) \subseteq Nodes /\ Was(l)' \subseteq Nodes
    BY DEF Was
  <2>2. Was(l)' = Was(l)
    BY <1>1, <2>1
  <2>3. \A n \in Was(l) : n \in On(l)' <=> n \in On(l)
    BY <1>2, <2>1, <2>2 DEF On, InList
  <2>4. On(l) \subseteq Was(l) /\ On(l)' \subseteq Was(l)'
    BY DEF On
  <2> QED BY <2>2, <2>3, <2>4
<1> QED
  BY <1>3 DEF SameLevels

\* The head stays as well, or clear takes it off the level, or the level is empty.
HeadsNext ==
  \A l \in Levels :
    \/ cell'[Head][l] = cell[Head][l] /\ (HeadCut(l)' <=> HeadCut(l))
    \/ /\ cell'[Head][l].to = Null /\ ~cell'[Head][l].marked
       /\ HeadCut(l)' \/ On(l) = {}

MarksNext == \A l \in Levels : \A n \in Was(l) : cell'[n][l].marked => info'[n].deleted

\* With the same nodes on the same levels, unchanged links keep what is said of them.
LEMMA GraphStays ==
  ASSUME Setting, Base, Graph, NEW t \in Threads, SameLevels, LinksKept, NamesKept(t),
         HeadsNext, MarksNext, Placed'
  PROVE  Graph'
<1> SUFFICES ASSUME NEW l \in Levels PROVE (Ascends(l) /\ Chained(l) /\ Marks(l))'
  BY DEF Graph
<1>1. /\ Was(l)' = Was(l) /\ On(l)' = On(l) /\ On(l) \subseteq Was(l) /\ Was(l) \subseteq Was(0)
      /\ Was(l) \subseteq Nodes
  BY Nested DEF SameLevels, On, Was
<1>2. /\ \A n \in Was(l) : info'[n].key = info[n].key /\ cell'[n][l].to = cell[n][l].to
      /\ \A n \in Was(l) : n # Head
  BY <1>1, Names DEF NamesKept, LinksKept
<1>3. \A n \in Was(l) \cup {Head}, m \in Was(l) : Below(n, m)' <=> Below(n, m)
  BY <1>2 DEF Below
<1>4. \A m : Below(Head, m) /\ Below(Head, m)'
  BY DEF Below
<1>5. Ascends(l) /\ Chained(l) /\ Marks(l)
  BY DEF Graph
<1>6. \/ cell'[Head][l] = cell[Head][l] /\ (HeadCut(l)' <=> HeadCut(l))
      \/ /\ cell'[Head][l].to = Null /\ ~cell'[Head][l].marked
         /\ HeadCut(l)' \/ On(l) = {}
  BY DEF HeadsNext
<1>7. Ascends(l)'
  <2>1. \A n \in Was(l) : cell'[n][l].to # Null =>
          cell'[n][l].to \in Was(l) /\ info'[n].key < info'[cell'[n][l].to].key
    <3>1. ASSUME NEW n \in Was(l), cell[n][l].to # Null
          PROVE  cell[n][l].to \in Was(l) /\ info[n].key < info[cell[n][l].to].key
      BY <1>2, <1>5, <3>1 DEF Ascends, Below
    <3> QED BY <1>2, <3>1
  <2>2. cell'[Head][l].to # Null => cell'[Head][l].to \in Was(l)
    BY <1>5, <1>6 DEF Ascends
  <2> QED BY <1>1, <2>1, <2>2 DEF Ascends, Below
<1>8. \A n \in On(l) : Leads(n, l)'
  <2>1. ASSUME NEW n \in On(l) PROVE Leads(n, l)'
    <3>1. Leads(n, l) /\ cell'[n][l].to = cell[n][l].to
      BY <1>1, <1>2, <1>5 DEF Chained
    <3>2. \A m \in On(l) : (Below(n, m)' <=> Below(n, m)) /\ info'[m].key = info[m].key
      BY <1>1, <1>2, <1>3
    <3> QED BY <1>1, <3>1, <3>2 DEF Leads
  <2> QED BY <2>1
<1>9. IF HeadCut(l)' THEN cell'[Head][l].to = Null ELSE Leads(Head, l)'
  <2>1. CASE cell'[Head][l] = cell[Head][l] /\ (HeadCut(l)' <=> HeadCut(l))
    <3>1. CASE HeadCut(l)
      BY <1>5, <2>1, <3>1 DEF Chained
    <3>2. CASE ~HeadCut(l)
      <4>1. Leads(Head, l)
        BY <1>5, <3>2 DEF Chained
      <4>2. \A m \in On(l) : info'[m].key = info[m].key
        BY <1>1, <1>2
      <4>3. Leads(Head, l)'
        BY <1>1, <1>4, <2>1, <4>1, <4>2 DEF Leads
      <4> QED BY <2>1, <3>2, <4>3
    <3> QED BY <3>1, <3>2
  <2>2. CASE cell'[Head][l].to = Null /\ (HeadCut(l)' \/ On(l) = {})
    BY <1>1, <2>2 DEF Leads
  <2> QED BY <1>6, <2>1, <2>2
<1>10. \A m, n \in On(l) : info'[m].key = info'[n].key => m = n
  BY <1>1, <1>2, <1>5 DEF Chained
<1>11. Chained(l)'
  BY <1>1, <1>8, <1>9, <1>10 DEF Chained
<1>12. Marks(l)'
  BY <1>1, <1>2, <1>5, <1>6 DEF Marks, MarksNext
<1> QED
  BY <1>7, <1>11, <1>12

-----------------------------------------------------------------------------
(* The other threads.                                                      *)

\* A step keeps where the other threads are, which their own values tell.
LEMMA OthersControl ==
  ASSUME Setting, Base, Removals, NEW t \in Threads, Others(t), NamesKept(t), NEW u \in Threads, u # t
  PROVE  Control(u)'
<1>1. /\ pc'[u] = pc[u] /\ walk'[u] = walk[u] /\ ents'[u] = ents[u]
      /\ node'[u] = node[u] /\ call'[u] = call[u]
  BY DEF Others
<1>2. Control(u) /\ pc[u] \in Labels
  BY DEF Base, TypeOK
<1>3. /\ info'[u].key = info[u].key /\ info'[u].height = info[u].height
      /\ info'[u].linking = info[u].linking
      /\ (call[u].op = "insert" /\ info[u].linking) \/ info[u].height = 0 =>
            info'[u].place = info[u].place
      /\ \A l \in Levels : u \notin Was(l) => cell'[u][l] = cell[u][l]
  BY DEF NamesKept
<1>4. SearchOk(u)'
  BY <1>1, <1>2 DEF Control, SearchOk, Searching
<1>5. InserterOk(u)'
  <2>1. CASE call[u].op = "insert" /\ pc[u] \in Linking
    <3>1. info[u].linking /\ info'[u].place = info[u].place
      BY <1>2, <1>3, <2>1 DEF Control, InserterOk
    <3>2. pc[u] = "exchange" => cell'[u][walk[u].level] = cell[u][walk[u].level]
      <4>1. walk[u].level \in Levels
        BY Typed DEF Base
      <4>2. pc[u] = "exchange" => ~ents[u][walk[u].level].ok
        BY <1>2, <2>1 DEF Control, InserterOk
      <4> QED BY <1>3, <3>1, <4>1, <4>2 DEF Was
    <3> QED BY <1>1, <1>2, <1>3, <2>1, <3>1, <3>2 DEF Control, InserterOk
  <2>2. CASE ~(call[u].op = "insert" /\ pc[u] \in Linking)
    BY <1>1, <2>2 DEF InserterOk
  <2> QED BY <2>1, <2>2
<1>6. RemoverOk(u)'
  <2>1. call[u].op = "remove" /\ pc[u] = "retire" => info'[node[u]].height = info[node[u]].height
    BY DEF Removals, RemovalOk, Active, NamesKept
  <2> QED BY <1>1, <1>2, <2>1 DEF Control, RemoverOk
<1>7. RestOk(u)'
  <2>1. RestOk(u) /\ (pc[u] = "idle" => call[u].op # "insert" /\ pc[u] # "done")
    BY <1>2 DEF Control, OpAt
  <2>2. pc[u] = "idle" => info[u].height = 0 /\ info'[u].place = "none"
    BY <1>3, <2>1 DEF RestOk
  <2>3. call[u].op = "insert" /\ pc[u] \in {"search", "check"} => info'[u].place \in {"none", "freed"}
    BY <1>3, <2>1 DEF RestOk
  <2> QED BY <1>1, <1>3, <2>1, <2>2, <2>3 DEF RestOk
<1>8. call'[u].op \in OpAt(pc'[u]) /\ (call'[u].op \in {"insert", "remove"} => call'[u].key \in Keys)
  BY <1>1, <1>2 DEF Control
<1> QED
  BY <1>4, <1>5, <1>6, <1>7, <1>8 DEF Control, OpAt

\* The removals of others go on.
LEMMA OthersRemoval ==
  ASSUME Setting, Base, Removals, NEW t \in Threads, Others(t), NamesKept(t), MarksKept,
         NEW u \in Threads, u # t, Active(u), Was(0) \subseteq Was(0)',
         LET n == node[u] IN info'[n].place = "linked" /\ info'[n].deleted /\ ~info'[n].linking
  PROVE  RemovalOk(u)'
<1>1. /\ pc'[u] = pc[u] /\ walk'[u] = walk[u] /\ node'[u] = node[u]
  BY DEF Others
<1> DEFINE n == node[u]
<1>2. RemovalOk(u) /\ n \in Was(0) /\ info'[n].height = info[n].height
  BY DEF Removals, RemovalOk, NamesKept
<1>3. \A l \in Levels : l < info[n].height => n \in Was(l)
  <2>1. n \in Nodes /\ ~info[n].linking
    BY <1>2 DEF RemovalOk, Was
  <2> QED BY <2>1 DEF Was
<1>4. \A l \in Levels : (IF pc[u] = "mark" THEN l < walk[u].level ELSE l < info[n].height) => l < info[n].height
  <2>1. pc[u] = "mark" => walk[u].level < info[n].height
    BY <1>2 DEF RemovalOk
  <2>2. n \in Nodes /\ TypeOK
    BY <1>2 DEF RemovalOk, Was, Base
  <2>3. walk[u].level \in Levels /\ info[n].height \in Nat
    BY <2>2, Typed, NodesTyped
  <2>4. \A l \in Levels : l \in Int
    BY LevelsAre
  <2> QED BY <2>1, <2>3, <2>4
<1>5. \A l \in Levels : (IF pc[u] = "mark" THEN l < walk[u].level ELSE l < info[n].height) => cell'[n][l].marked
  <2>1. \A l \in Levels : (IF pc[u] = "mark" THEN l < walk[u].level ELSE l < info[n].height) => cell[n][l].marked
    BY <1>2 DEF RemovalOk
  <2> QED BY <1>3, <1>4, <2>1 DEF MarksKept
<1>6. pc[u] = "mark" => walk[u].level < info[n].height
  BY <1>2 DEF RemovalOk
<1> QED
  BY <1>1, <1>2, <1>5, <1>6 DEF RemovalOk

\* What the entries to be used say of the nodes found.
LEMMA OthersHold ==
  ASSUME Setting, Base, NEW t \in Threads, Others(t), NamesKept(t), NEW u \in Threads, u # t,
         NEW Q \in [Levels -> SUBSET Nodes], NEW R \in [Levels -> SUBSET Nodes],
         \A l \in Levels : Q[l] \subseteq R[l] /\ Q[l] \subseteq Was(0), Holds(u, Q)
  PROVE  Holds(u, R)'
<1>1. /\ pc'[u] = pc[u] /\ walk'[u] = walk[u] /\ ents'[u] = ents[u]
      /\ node'[u] = node[u] /\ call'[u] = call[u]
  BY DEF Others
<1>2. 0 \in Levels /\ walk[u].level \in Levels /\ node[u] \in Nodes \cup {Null}
  BY LevelsAre, Typed DEF Base
<1>3. \A l \in Levels : \A n \in Q[l] : n \in R[l] /\ info'[n].key = info[n].key /\ info'[n].height = info[n].height
  BY DEF NamesKept
<1>4. Control(u)
  BY DEF Base
<1>5. ASSUME NEW l \in Ready(u)' PROVE l \in Ready(u)
  <2>1. CASE Searching(u)
    BY <1>1, <1>5, <2>1 DEF Ready, Searching
  <2>2. CASE pc[u] \in {"link", "exchange"}
    <3>1. node[u] = u
      BY <1>4, <2>2 DEF Control, InserterOk, OpAt, Linking
    <3> QED BY <1>1, <1>5, <2>2, <3>1 DEF Ready, Searching, NamesKept
  <2>3. CASE pc[u] \in {"flag", "mark", "unlink"}
    <3>1. call[u].op = "remove" /\ node[u] # Null
      BY <1>4, <2>3 DEF Control, RemoverOk, OpAt
    <3>2. node[u] \in Q[0]
      BY <3>1 DEF Holds
    <3>3. info'[node[u]].height = info[node[u]].height
      BY <1>2, <1>3, <3>2
    <3> QED BY <1>1, <1>5, <2>3, <3>3 DEF Ready, Searching
  <2>4. CASE ~Searching(u) /\ pc[u] \notin {"link", "exchange", "flag", "mark", "unlink"}
    BY <1>1, <1>5, <2>4 DEF Ready, Searching
  <2> QED BY <2>1, <2>2, <2>3, <2>4
<1>6. ASSUME NEW l \in Ready(u)' PROVE EntOk(u, R, l)'
  <2>1. EntOk(u, Q, l) /\ l \in Levels
    BY <1>5, <1>6 DEF Holds, Ready
  <2> QED BY <1>1, <1>3, <2>1 DEF EntOk
<1>7. walk[u].at \in Nodes =>
        /\ walk[u].at \in R[IF Searching(u) THEN walk[u].level ELSE 0]
        /\ Searching(u) => info'[walk[u].at].key < call[u].key
  BY <1>2, <1>3 DEF Holds
<1>8. /\ walk[u].found # Null => walk[u].found \in R[0]
      /\ call[u].op = "insert" => walk[u].found # u
      /\ call[u].op = "remove" /\ node[u] # Null => node[u] \in R[0]
      /\ pc[u] = "count" => u \in R[0]
  BY <1>2, <1>3 DEF Holds
<1> QED
  BY <1>1, <1>6, <1>7, <1>8 DEF Holds, Searching

\* A region stays one.
LEMMA RegionStays ==
  ASSUME Setting, Base, SameLevels, LinksKept, NEW u \in Threads,
         NEW Q \in [Levels -> SUBSET Nodes], Region(u, Q),
         call'[u].op \in {"insert", "remove"} => call[u].op \in {"insert", "remove"},
         \A n \in Was(0) : Safe(u, n) => Safe(u, n)'
  PROVE  Region(u, Q)'
<1>1. \A l \in Levels : /\ On(l)' = On(l) /\ Was(l)' = Was(l)
                        /\ On(l) \subseteq Q[l] /\ Q[l] \subseteq Was(l) /\ Q[l] \subseteq Q[0]
  BY DEF SameLevels, Region
<1>2. \A l \in Levels : \A n \in Q[l] : cell'[n][l].to # Null => cell'[n][l].to \in Q[l]
  BY <1>1 DEF Region, LinksKept
<1>3. \A n \in Q[0] : Safe(u, n)'
  <2>1. Q[0] \subseteq Was(0)
    BY <1>1, LevelsAre
  <2> QED BY <2>1 DEF Region
<1>4. call'[u].op \in {"insert", "remove"} => \A l \in Levels : \A n \in Q[l] : n \in On(l) \/ cell'[n][l].marked
  BY <1>1 DEF Region, LinksKept
<1> QED
  BY <1>1, <1>2, <1>3, <1>4 DEF Region

-----------------------------------------------------------------------------
(* What is to be shown of a step.                                          *)

\* What t may come to afterwards: a region it knows of, or whatever is in the list.
OwnRegion(t) ==
  InCall(t)' =>
    \/ \E Q \in [Levels -> SUBSET Nodes] : Region(t, Q)' /\ Holds(t, Q)'
    \/ \A Q \in [Levels -> SUBSET Nodes] : Holds(t, Q)'

\* A removal of t goes on, or it has begun and is the only one of its node.
OwnRemoval(t) ==
  Active(t)' => /\ RemovalOk(t)'
                /\ \A u \in Threads : u # t /\ Active(u) => node[u] # node'[t]

OthersRemove(t) ==
  \A u \in Threads : u # t /\ Active(u) =>
    LET n == node[u] IN info'[n].place = "linked" /\ info'[n].deleted /\ ~info'[n].linking

OthersSafe(t) ==
  \A u \in Threads : u # t /\ InCall(u) => \A n \in Was(0) : Safe(u, n) => Safe(u, n)'

\* Removals stay exclusive when a step keeps marks and makes none but its own.
LEMMA RemovalsNext ==
  ASSUME Setting, Inv, NEW t \in Threads, Others(t), MarksKept, NamesKept(t), Was(0) \subseteq Was(0)',
         OwnRemoval(t), OthersRemove(t)
  PROVE  Removals'
<1>0. Base /\ Removals
  BY DEF Inv, Base, Graph
<1>1. ASSUME NEW u \in Threads, u # t
      PROVE  (Active(u)' <=> Active(u)) /\ node'[u] = node[u]
  BY <1>1 DEF Others, Active
<1>2. ASSUME NEW u \in Threads, Active(u)' PROVE RemovalOk(u)'
  <2>1. CASE u = t
    BY <1>2, <2>1 DEF OwnRemoval
  <2>2. CASE u # t
    <3>1. Active(u)
      BY <1>1, <1>2, <2>2
    <3>2. LET n == node[u] IN info'[n].place = "linked" /\ info'[n].deleted /\ ~info'[n].linking
      BY <2>2, <3>1 DEF OthersRemove
    <3> QED BY <1>0, <2>2, <3>1, <3>2, OthersRemoval
  <2> QED BY <2>1, <2>2
<1>3. ASSUME NEW u \in Threads, NEW v \in Threads, Active(u)', Active(v)', node'[u] = node'[v]
      PROVE  u = v
  <2>1. CASE u # t /\ v # t
    BY <1>0, <1>1, <1>3, <2>1 DEF Removals
  <2>2. CASE u = t \/ v = t
    BY <1>1, <1>3, <2>2 DEF OwnRemoval
  <2> QED BY <2>1, <2>2
<1> QED
  BY <1>2, <1>3 DEF Removals

\* The regions, when the graph is as it should be again.
LEMMA RegionsNext ==
  ASSUME Setting, NEW t \in Threads, Base', Graph', OwnRegion(t),
         \A u \in Threads : u # t /\ InCall(u)' =>
           \E Q \in [Levels -> SUBSET Nodes] : Region(u, Q)' /\ Holds(u, Q)'
  PROVE  Regions'
<1>1. ASSUME NEW u \in Threads, InCall(u)'
      PROVE  \E Q \in [Levels -> SUBSET Nodes] : Region(u, Q)' /\ Holds(u, Q)'
  <2>1. CASE u # t
    BY <1>1, <2>1
  <2>2. CASE u = t /\ \A Q \in [Levels -> SUBSET Nodes] : Holds(t, Q)'
    <3>1. (Setting /\ Base /\ Graph)' => LevelsAreRegions'
      BY FreshRegion, PTL
    <3>2. Setting'
      BY DEF Setting
    <3> DEFINE F == [l \in Levels |-> On(l)]
    <3>3. F' \in [Levels -> SUBSET Nodes] /\ Region(t, F)'
      BY <3>1, <3>2 DEF LevelsAreRegions
    <3>4. \E Q \in [Levels -> SUBSET Nodes] : Q = F'
      BY <3>3
    <3>5. PICK Q \in [Levels -> SUBSET Nodes] : Q = F'
      BY <3>4
    <3>6. Region(t, Q)'
      BY <3>3, <3>5 DEF Region
    <3> QED BY <2>2, <3>6
  <2> QED BY <1>1, <2>1, <2>2 DEF OwnRegion
<1> QED
  BY <1>1 DEF Regions

\* All that is to be shown of a step.
LEMMA StepNext ==
  ASSUME Setting, Inv, NEW t \in Threads, TypeOK', Others(t), NamesKept(t), MarksKept,
         Was(0) \subseteq Was(0)', Graph', Clears', Control(t)', OwnRemoval(t), OthersRemove(t), OwnRegion(t),
         \A u \in Threads : u # t /\ InCall(u) =>
           \E Q \in [Levels -> SUBSET Nodes] : Region(u, Q)' /\ Holds(u, Q)'
  PROVE  Inv'
<1>0. Base /\ Removals
  BY DEF Inv, Base, Graph
<1>1. \A u \in Threads : Control(u)'
  BY <1>0, OthersControl
<1>2. Base'
  BY <1>1 DEF Base, Graph
<1>3. Removals'
  BY RemovalsNext
<1>4. \A u \in Threads : u # t /\ InCall(u)' => InCall(u)
  BY DEF Others, InCall
<1>5. Regions'
  BY <1>2, <1>4, RegionsNext
<1> QED
  BY <1>1, <1>3, <1>5 DEF Inv

\* A step that takes no node on or off a level keeps the invariant, if it keeps its own part.
LEMMA SameLevelsStep ==
  ASSUME Setting, Inv, NEW t \in Threads, TypeOK', Others(t), SameLevels, LinksKept, NamesKept(t),
         Placed', HeadsNext, MarksNext, Control(t)', OwnRemoval(t), OthersRemove(t), OthersSafe(t),
         OwnRegion(t), Clears'
  PROVE  Inv'
<1>0. Base /\ Graph /\ Regions
  BY DEF Inv, Base, Graph
<1>1. Graph'
  BY <1>0, GraphStays
<1>2. Was(0) \subseteq Was(0)' /\ MarksKept
  BY LevelsAre DEF SameLevels, LinksKept, MarksKept
<1>3. ASSUME NEW u \in Threads, u # t, InCall(u)
      PROVE  \E Q \in [Levels -> SUBSET Nodes] : Region(u, Q)' /\ Holds(u, Q)'
  <2>1. call'[u] = call[u]
    BY <1>3 DEF Others
  <2>2. PICK Q \in [Levels -> SUBSET Nodes] : Region(u, Q) /\ Holds(u, Q)
    BY <1>0, <1>3 DEF Regions
  <2>3. \A n \in Was(0) : Safe(u, n) => Safe(u, n)'
    BY <1>3 DEF OthersSafe
  <2>4. Region(u, Q)'
    BY <1>0, <2>1, <2>2, <2>3, RegionStays
  <2>5. \A l \in Levels : Q[l] \subseteq Was(0)
    BY <2>2, LevelsAre DEF Region
  <2>6. Holds(u, Q)'
    BY <1>0, <1>3, <2>2, <2>5, OthersHold
  <2> QED BY <2>4, <2>6
<1> QED
  BY <1>1, <1>2, <1>3, StepNext

\* Steps that change neither links nor nodes.
ActiveStays(t) ==
  Active(t)' => Active(t) /\ node'[t] = node[t] /\ pc[t] # "mark" /\ pc'[t] # "mark"

ClearStays(t) ==
  /\ pc[t] # "heads" /\ pc'[t] # "collect"
  /\ pc[t] = "collect" => walk[t].at = Null
  /\ pc'[t] = "heads" => \A l \in Levels : ~(walk'[t].level < l)

\* So does a step that leaves the list alone.
LEMMA QuietStep ==
  ASSUME Setting, Inv, NEW t \in Threads, TypeOK', ListSame(t), Others(t), FlagsKept(t),
         info[t].linking => \A l \in Levels : ents'[t][l].ok <=> ents[t][l].ok,
         ActiveStays(t), ClearStays(t), Apart', Control(t)', OwnRegion(t)
  PROVE  Inv'
<1>0. Base /\ Graph /\ Removals /\ Clears /\ cell' = cell /\ info' = info
  BY DEF Inv, Base, Graph, ListSame
<1>1. SameLevels
  <2>1. \A n \in Nodes : InList(n)' <=> InList(n)
    BY <1>0 DEF InList
  <2>2. \A l \in Levels : t \in Was(l)' <=> t \in Was(l)
    BY <1>0 DEF Was
  <2> QED BY <1>0, <2>1, <2>2, LevelsStay
<1>2. LinksKept /\ NamesKept(t)
  BY <1>0 DEF LinksKept, NamesKept
<1>3. Placed'
  BY <1>0, <1>1, LevelsAre DEF Base, Placed, SameLevels
<1>4. MarksNext
  BY <1>0 DEF MarksNext, Graph, Marks
<1>5. HeadsNext
  <2> SUFFICES ASSUME NEW l \in Levels
               PROVE  \/ HeadCut(l)' <=> HeadCut(l)
                      \/ /\ cell[Head][l].to = Null /\ ~cell[Head][l].marked
                         /\ HeadCut(l)' \/ On(l) = {}
    BY <1>0 DEF HeadsNext
  <2>1. ASSUME NEW c \in Threads, c # t
        PROVE  pc'[c] = pc[c] /\ walk'[c] = walk[c]
    BY <2>1 DEF Others
  <2>2. ~(pc'[t] = "collect" \/ (pc'[t] = "heads" /\ walk'[t].level < l))
    BY DEF ClearStays
  <2>3. CASE pc[t] # "collect"
    <3>1. ~(pc[t] = "collect" \/ (pc[t] = "heads" /\ walk[t].level < l))
      BY <2>3 DEF ClearStays
    <3>2. HeadCut(l)' <=> HeadCut(l)
      BY <2>1, <2>2, <3>1 DEF HeadCut
    <3> QED BY <3>2
  <2>4. CASE pc[t] = "collect"
    <3>1. HeadCut(l)
      BY <2>4 DEF HeadCut
    <3>2. cell[Head][l].to = Null /\ ~cell[Head][l].marked
      BY <1>0, <3>1 DEF Graph, Chained, Marks
    <3>3. HeadCut(l)' \/ On(l) = {}
      <4>1. SUFFICES ASSUME NEW n \in On(l) PROVE HeadCut(l)'
        OBVIOUS
      <4>2. n \in Nodes /\ info[n].place = "cut"
        BY <1>0, <2>4 DEF On, Was, Clears
      <4>3. PICK c \in Threads : pc[c] = "collect" /\ walk[c].at # Null
        BY <1>0, <4>2 DEF Clears
      <4>4. c # t
        BY <2>4, <4>3 DEF ClearStays
      <4> QED BY <2>1, <4>3, <4>4 DEF HeadCut
    <3> QED BY <3>2, <3>3
  <2> QED BY <2>3, <2>4
<1>6. OwnRemoval(t)
  <2> SUFFICES ASSUME Active(t)'
               PROVE  RemovalOk(t)' /\ \A u \in Threads : u # t /\ Active(u) => node[u] # node'[t]
    BY DEF OwnRemoval
  <2>1. Active(t) /\ node'[t] = node[t] /\ pc[t] # "mark" /\ pc'[t] # "mark"
    BY DEF ActiveStays
  <2>2. RemovalOk(t) /\ \A u \in Threads : u # t /\ Active(u) => node[u] # node[t]
    BY <1>0, <2>1 DEF Removals
  <2>3. Was(0)' = Was(0)
    BY <1>1, LevelsAre DEF SameLevels
  <2> QED BY <1>0, <2>1, <2>2, <2>3 DEF RemovalOk
<1>7. OthersRemove(t)
  BY <1>0 DEF OthersRemove, Removals, RemovalOk
<1>8. OthersSafe(t)
  <2> SUFFICES ASSUME NEW u \in Threads, u # t, NEW n \in Was(0), Safe(u, n)
               PROVE  Safe(u, n)'
    BY DEF OthersSafe
  <2>1. n \in Nodes
    BY DEF Was
  <2> QED BY <1>0, <2>1 DEF Safe, ListSame, Unpinned
<1>9. Clears'
  <2>1. On(0)' = On(0)
    BY <1>1, LevelsAre DEF SameLevels
  <2>2. \A c \in Threads : pc'[c] = "collect" =>
          c # t /\ pc[c] = "collect" /\ walk'[c] = walk[c]
    BY DEF Others, ClearStays
  <2>3. \A c \in Threads : pc[c] = "collect" /\ walk[c].at # Null =>
          pc'[c] = "collect" /\ walk'[c] = walk[c]
    BY DEF Others, ClearStays
  <2> QED BY <1>0, <2>1, <2>2, <2>3 DEF Clears
<1> QED
  BY <1>1, <1>2, <1>3, <1>4, <1>5, <1>6, <1>7, <1>8, <1>9, SameLevelsStep

-----------------------------------------------------------------------------
(* Steps that change neither links nor nodes.                              *)

\* The values of a walk at its beginning and end.
LEMMA Walks ==
  ASSUME Setting
  PROVE  /\ NoWalk.at = Null /\ NoWalk.level = 0 /\ NoWalk.low = 0 /\ NoWalk.found = Null
         /\ \A low : /\ FromTop(low).at = Head /\ FromTop(low).level = MaxHeight - 1
                     /\ FromTop(low).low = low /\ FromTop(low).found = Null
         /\ \A l \in Levels : ~(MaxHeight - 1 < l) /\ ~(l > MaxHeight - 1) /\ l <= MaxHeight - 1
         /\ \A l \in Levels : ~NoEnts[l].ok /\ NoEnts[l].prec = Head /\ NoEnts[l].next = Null
<1>1. \A l \in Levels : l \in {0, 1} /\ l < MaxHeight /\ MaxHeight \in {1, 2}
  BY LevelsAre
<1>2. \A l \in Levels : ~(MaxHeight - 1 < l) /\ ~(l > MaxHeight - 1) /\ l <= MaxHeight - 1
  BY <1>1
<1>3. NoWalk.at = Null /\ NoWalk.level = 0 /\ NoWalk.low = 0 /\ NoWalk.found = Null
  BY DEF NoWalk
<1>4. \A low : /\ FromTop(low).at = Head /\ FromTop(low).level = MaxHeight - 1
              /\ FromTop(low).low = low /\ FromTop(low).found = Null
  BY DEF NoWalk, FromTop
<1>5. \A l \in Levels : ~NoEnts[l].ok /\ NoEnts[l].prec = Head /\ NoEnts[l].next = Null
  BY Constants
<1> QED
  BY <1>2, <1>3, <1>4, <1>5

\* The fields of a walk that moved on.
LEMMA WalkFields ==
  ASSUME NEW w \in WalkRec
  PROVE  /\ \A n : /\ [w EXCEPT !.at = n].at = n /\ [w EXCEPT !.at = n].level = w.level
                   /\ [w EXCEPT !.at = n].low = w.low /\ [w EXCEPT !.at = n].found = w.found
         /\ \A l : /\ [w EXCEPT !.level = l].level = l /\ [w EXCEPT !.level = l].at = w.at
                   /\ [w EXCEPT !.level = l].low = w.low /\ [w EXCEPT !.level = l].found = w.found
         /\ \A l, f : LET v == [w EXCEPT !.level = l, !.found = f] IN
                      v.level = l /\ v.at = w.at /\ v.low = w.low /\ v.found = f
         /\ \A f : LET v == [w EXCEPT !.found = f] IN
                   v.level = w.level /\ v.at = w.at /\ v.low = w.low /\ v.found = f
         /\ \A S : LET v == [w EXCEPT !.seen = S] IN
                   v.level = w.level /\ v.at = w.at /\ v.low = w.low /\ v.found = w.found
         /\ \A n, S : LET v == [w EXCEPT !.at = n, !.seen = S] IN
                      v.level = w.level /\ v.at = n /\ v.low = w.low /\ v.found = w.found
BY DEF WalkRec

Quiet(t) ==
  /\ ListSame(t) /\ Others(t) /\ FlagsKept(t)
  /\ info[t].linking => \A l \in Levels : ents'[t][l].ok <=> ents[t][l].ok
  /\ ActiveStays(t) /\ ClearStays(t) /\ Apart'

\* A step that leaves the list alone keeps levels, links and names.
LEMMA QuietLevels ==
  ASSUME Setting, Base, NEW t \in Threads, Quiet(t)
  PROVE  SameLevels /\ LinksKept /\ NamesKept(t)
<1>1. cell' = cell /\ info' = info /\ Others(t) /\ FlagsKept(t)
  BY DEF Quiet, ListSame
<1>2. \A n \in Nodes : InList(n)' <=> InList(n)
  BY <1>1 DEF InList
<1>3. \A l \in Levels : t \in Was(l)' <=> t \in Was(l)
  BY <1>1 DEF Was, Quiet
<1>4. SameLevels
  BY <1>1, <1>2, <1>3, LevelsStay
<1> QED
  BY <1>1, <1>4 DEF LinksKept, NamesKept

\* Goes on with the same call and pin.
LEMMA QuietRegion ==
  ASSUME Setting, Base, NEW t \in Threads, Quiet(t), waits' = waits, call'[t] = call[t],
         NEW Q \in [Levels -> SUBSET Nodes], Region(t, Q)
  PROVE  Region(t, Q)'
<1>1. SameLevels /\ LinksKept /\ NamesKept(t)
  BY QuietLevels
<1>2. \A n \in Was(0) : Safe(t, n) => Safe(t, n)'
  BY DEF Quiet, ListSame, Safe
<1> QED
  BY <1>1, <1>2, RegionStays

\* The same levels are done as before.
LEMMA QuietSame ==
  ASSUME Setting, Inv, NEW t \in Threads, NEW p, NEW w, NEW e, ListSame(t),
         Moves(t, p, w, e, node[t], call[t]),
         \A l \in Levels : e[l].ok <=> ents[t][l].ok,
         p \notin {"mark", "heads", "collect"}, pc[t] \notin {"mark", "heads", "collect"},
         p \in {"unlink", "search_again", "retire"} => pc[t] \in {"unlink", "search_again", "retire", "link", "exchange"}
  PROVE  Quiet(t)
<1>1. pc'[t] = p /\ walk'[t] = w /\ ents'[t] = e /\ node'[t] = node[t] /\ call'[t] = call[t] /\ Others(t)
  BY DEF Moves, Own
<1>2. Control(t)
  BY DEF Inv
<1>3. FlagsKept(t)
  BY <1>1 DEF FlagsKept
<1>4. ActiveStays(t)
  BY <1>1, <1>2 DEF ActiveStays, Active, Control, OpAt
<1>5. ClearStays(t)
  BY <1>1 DEF ClearStays
<1>6. Apart'
  BY <1>1 DEF Inv, Clears, Apart, Others
<1> QED
  BY <1>1, <1>3, <1>4, <1>5, <1>6 DEF Quiet

\* Nothing is done on any level, before or afterwards.
LEMMA QuietNew ==
  ASSUME Setting, Inv, NEW t \in Threads, NEW p, NEW w, NEW e, NEW n, NEW c, ListSame(t),
         Moves(t, p, w, e, n, c), c.op \in {call[t].op, "none"},
         \A l \in Levels : /\ ~e[l].ok
                           /\ ~(call[t].op = "remove" /\ ents[t][l].ok)
                           /\ ~(info[t].linking /\ ents[t][l].ok),
         p \notin {"mark", "unlink", "search_again", "retire", "heads", "collect"},
         pc[t] # "heads", pc[t] = "collect" => walk[t].at = Null
  PROVE  Quiet(t)
<1>1. pc'[t] = p /\ walk'[t] = w /\ ents'[t] = e /\ node'[t] = n /\ call'[t] = c /\ Others(t)
  BY DEF Moves, Own
<1>3. FlagsKept(t)
  BY <1>1 DEF FlagsKept
<1>4. ActiveStays(t)
  BY <1>1 DEF ActiveStays, Active
<1>5. ClearStays(t)
  BY <1>1 DEF ClearStays
<1>6. Apart'
  BY <1>1 DEF Inv, Clears, Apart, Others
<1> QED
  BY <1>1, <1>3, <1>4, <1>5, <1>6 DEF Quiet

\* A step that leaves the list alone keeps the invariant.
LEMMA QuietNext ==
  ASSUME Setting, Inv, NEW t \in Threads, TypeOK', Quiet(t), Control(t)', OwnRegion(t)
  PROVE  Inv'
BY QuietStep DEF Quiet

\* A call returns.
LEMMA FinishNext ==
  ASSUME Setting, Inv, NEW t \in Threads, TypeOK', ListSame(t),
         Moves(t, "done", NoWalk, NoEnts, Null, Promise!NoCall),
         pc[t] # "heads", pc[t] = "collect" => walk[t].at = Null,
         pc[t] = "count" \/ \A l \in Levels : ~ents[t][l].ok
  PROVE  Inv'
<1>1. /\ pc'[t] = "done" /\ ents'[t] = NoEnts /\ node'[t] = Null /\ call'[t] = Promise!NoCall
  BY DEF Moves, Own
<1>2. Promise!NoCall.op = "none" /\ \A l \in Levels : ~NoEnts[l].ok
  BY Walks DEF Promise!NoCall
<1>3. \A l \in Levels : /\ ~(call[t].op = "remove" /\ ents[t][l].ok)
                        /\ ~(info[t].linking /\ ents[t][l].ok)
  BY DEF Inv, Control, RestOk, OpAt
<1>4. Quiet(t)
  BY <1>2, <1>3, QuietNew
<1>5. Control(t)'
  BY <1>1, <1>2 DEF Control, OpAt, SearchOk, Searching, InserterOk, RemoverOk, RestOk, Linking
<1>6. OwnRegion(t)
  BY <1>1 DEF OwnRegion, InCall
<1> QED
  BY <1>4, <1>5, <1>6, QuietNext

\* Nothing is at hand at the head of the list.
LEMMA FromTopHolds ==
  ASSUME Setting, NEW t \in Threads, NEW p, NEW low \in Levels, NEW e, NEW n, NEW c,
         Own(t, p, FromTop(low), e, n, c), p \in {"search", "search_again"},
         c.op = "remove" => n = Null
  PROVE  \A Q \in [Levels -> SUBSET Nodes] : Holds(t, Q)'
<1>1. /\ pc'[t] = p /\ walk'[t].at = Head /\ walk'[t].level = MaxHeight - 1 /\ walk'[t].found = Null
      /\ node'[t] = n /\ call'[t] = c
  BY Walks DEF Own
<1>2. Ready(t)' = {}
  BY <1>1, Walks DEF Ready, Searching
<1> QED
  BY <1>1, <1>2, Names DEF Holds, Searching

\* Back to the main loop of insert, or of next and prev.
LEMMA SearchNext ==
  ASSUME Setting, Inv, NEW t \in Threads, TypeOK', ListSame(t), NEW e, NEW n,
         Moves(t, "search", FromTop(0), e, n, call[t]),
         pc[t] \in {"check", "entry"}, n = Null, \A l \in Levels : ~e[l].ok
  PROVE  Inv'
<1>1. /\ pc'[t] = "search" /\ walk'[t] = FromTop(0) /\ ents'[t] = e /\ node'[t] = n
      /\ call'[t] = call[t] /\ info' = info
  BY DEF Moves, Own, ListSame
<1>2. Control(t) /\ 0 \in Levels
  BY LevelsAre DEF Inv
<1>3. \A l \in Levels : ~ents[t][l].ok
  BY <1>2 DEF Control, RestOk, Linking
<1>4. Quiet(t)
  BY <1>3, QuietNew
<1>5. /\ call[t].op \in Ops \ {"none", "clear", "remove"}
      /\ pc[t] = "check" => call[t].op = "insert"
      /\ pc[t] = "entry" => call[t].op # "insert"
  BY <1>2 DEF Control, OpAt, Ops
<1>6. SearchOk(t)'
  BY <1>1, <1>2, Walks, Names DEF SearchOk
<1>7. RestOk(t)'
  BY <1>1, <1>2, <1>5 DEF Control, RestOk, Linking
<1>8. Control(t)'
  BY <1>1, <1>2, <1>5, <1>6, <1>7 DEF Control, InserterOk, RemoverOk, OpAt, Linking
<1>9. \A Q \in [Levels -> SUBSET Nodes] : Holds(t, Q)'
  <2>1. Own(t, "search", FromTop(0), e, n, call[t])
    BY DEF Moves
  <2> QED BY <1>2, <1>5, <2>1, FromTopHolds
<1> QED
  BY <1>4, <1>8, <1>9, QuietNext DEF OwnRegion

\* What a search has recorded down to its level.
LEMMA Recorded ==
  ASSUME Setting, TypeOK, Graph, NEW t \in Threads, Control(t), MetEnough(t),
         NEW Q \in [Levels -> SUBSET Nodes], Region(t, Q), Holds(t, Q),
         NEW l \in Levels, l >= walk[t].level, ~ents[t][l].ok
  PROVE  LET e == NewEnts(t)[l] IN
         /\ e.prec # Null
         /\ e.prec # Head => e.prec \in Q[l] /\ info[e.prec].key < call[t].key
         /\ e.next # Null => e.next \in Q[l]
         /\ e.next # Null /\ call[t].op = "insert" /\ NewFound(t) = Null => info[e.next].key > call[t].key
<1>0. Searching(t) /\ (Met(t) # Null => info[Met(t)].key >= call[t].key)
  BY DEF MetEnough
<1>1. CASE l = walk[t].level
  <2>1. NewEnts(t)[l] = [prec |-> walk[t].at, next |-> Met(t), ok |-> FALSE]
    BY <1>0, <1>1, Searched
  <2>2. walk[t].at # Null /\ (walk[t].at # Head => walk[t].at \in Q[l] /\ info[walk[t].at].key < call[t].key)
    <3>1. walk[t].at \in Nodes \cup {Head}
      BY <1>0, Searched
    <3> QED BY <1>0, <1>1, <3>1, Names DEF Holds
  <2>3. Met(t) # Null => Met(t) \in Q[l]
    BY <1>0, <1>1, MeetsRegion
  <2>4. Met(t) # Null /\ NewFound(t) = Null => info[Met(t)].key > call[t].key
    <3>1. Met(t) # Null => info[Met(t)].key \in Nat /\ call[t].key \in Nat
      BY <1>0, Searched, NodesTyped, Typed
    <3> QED BY <1>0, <3>1 DEF NewFound
  <2> QED BY <2>1, <2>2, <2>3, <2>4
<1>2. CASE l > walk[t].level
  <2>1. NewEnts(t)[l] = ents[t][l]
    <3>1. l # walk[t].level
      BY <1>2, Typed, LevelsAre
    <3> QED BY <1>0, <3>1, Searched
  <2>2. l \in Ready(t)
    BY <1>0, <1>2 DEF Ready
  <2>3. NewFound(t) = Null => walk[t].found = Null
    BY DEF NewFound
  <2> QED BY <2>1, <2>2, <2>3 DEF Holds, EntOk
<1>3. l = walk[t].level \/ l > walk[t].level
  <2>1. walk[t].level \in Levels
    BY Typed
  <2>2. l \in {0, 1} /\ walk[t].level \in {0, 1}
    BY <2>1, LevelsAre
  <2> QED BY <2>2
<1> QED
  BY <1>1, <1>2, <1>3

\* No insertion meets its own node: that is not on the levels it searches.
LEMMA MeetsOther ==
  ASSUME Setting, Base, Graph, NEW t \in Threads, Searching(t), call[t].op = "insert",
         NEW Q \in [Levels -> SUBSET Nodes], Region(t, Q), Holds(t, Q)
  PROVE  NewFound(t) # t
<1>0. TypeOK /\ Control(t)
  BY DEF Base
<1>l. walk[t].level \in Levels /\ 0 \in Levels /\ \A l \in Levels : l \in {0, 1}
  BY <1>0, Typed, LevelsAre
<1>1. SUFFICES ASSUME Met(t) = t, Met(t) # Null PROVE FALSE
  BY Names DEF NewFound, Holds
<1> DEFINE l == walk[t].level
<1>2. t \in Was(l)
  BY <1>0, <1>1, MeetsRegion DEF Region
<1>3. info[t].height > l /\ (info[t].linking => ents[t][l].ok) /\ info[t].height # 0
  <2>1. info[t].height > l /\ (info[t].linking => ents[t][l].ok)
    BY <1>2 DEF Was
  <2> QED BY <1>l, <2>1
<1>4. CASE pc[t] = "search"
  <2>1. info[t].linking /\ ~ents[t][l].ok
    BY <1>0, <1>l, <1>3, <1>4 DEF Control, RestOk, Linking
  <2> QED BY <1>3, <2>1
<1>5. CASE pc[t] = "search_again"
  <2>1. info[t].linking /\ ents[t][l].ok /\ ents[t][0].ok /\ ~ents[t][walk[t].low].ok
    BY <1>0, <1>l, <1>3, <1>5 DEF Control, InserterOk, Linking
  <2>2. walk[t].low \in {0, 1} /\ walk[t].low <= l /\ l \in {0, 1}
    BY <1>0, <1>l, Typed, Searched
  <2> QED BY <2>1, <2>2
<1> QED
  BY <1>4, <1>5 DEF Searching

\* Going on along a level keeps the invariant: the link leads on in the region.
LEMMA SearchOnNext ==
  ASSUME Setting, Inv, NEW t \in Threads, SearchOn(t)
  PROVE  Inv'
<1>0. Base /\ TypeOK /\ Graph /\ Control(t) /\ Searching(t) /\ InCall(t) /\ walk[t] \in WalkRec
  BY DEF Inv, Base, Graph, SearchOn, Searching, InCall, TypeOK
<1> DEFINE w == [walk[t] EXCEPT !.at = Met(t)]
<1>1. TypeOK' /\ ListSame(t) /\ waits' = waits /\ Moves(t, pc[t], w, ents[t], node[t], call[t])
  BY <1>0, SearchOnIs
<1>2. w.at = Met(t) /\ w.level = walk[t].level /\ w.low = walk[t].low /\ w.found = walk[t].found
  BY <1>0, WalkFields
<1> HIDE DEF w
<1>3. Met(t) # Null /\ info[Met(t)].key < call[t].key
  BY DEF SearchOn
<1>4. Quiet(t)
  BY <1>0, <1>1, QuietSame DEF Searching
<1>5. /\ pc'[t] = pc[t] /\ walk'[t] = w /\ ents'[t] = ents[t] /\ node'[t] = node[t]
      /\ call'[t] = call[t] /\ info' = info
  BY <1>1 DEF Moves, Own, ListSame
<1>6. Control(t)'
  <2>1. SearchOk(t)' /\ RemoverOk(t)'
    BY <1>0, <1>2, <1>3, <1>5 DEF Control, SearchOk, RemoverOk, Searching
  <2>2. InserterOk(t)'
    BY <1>0, <1>2, <1>5 DEF Control, InserterOk, Searching
  <2>3. RestOk(t)'
    BY <1>0, <1>2, <1>5 DEF Control, RestOk, Searching
  <2> QED BY <1>0, <1>5, <2>1, <2>2, <2>3 DEF Control, OpAt
<1>7. PICK Q \in [Levels -> SUBSET Nodes] : Region(t, Q) /\ Holds(t, Q)
  BY <1>0 DEF Inv, Regions
<1>8. Region(t, Q)'
  BY <1>0, <1>1, <1>4, <1>5, <1>7, QuietRegion
<1>9. Holds(t, Q)'
  <2>1. Met(t) \in Q[walk[t].level]
    BY <1>0, <1>3, <1>7, MeetsRegion
  <2>2. Ready(t)' = Ready(t)
    BY <1>2, <1>5 DEF Ready, Searching
  <2>3. \A l \in Ready(t) : EntOk(t, Q, l)'
    BY <1>2, <1>5, <1>7 DEF Holds, EntOk
  <2> QED BY <1>0, <1>2, <1>3, <1>5, <1>7, <2>1, <2>2, <2>3 DEF Holds, Searching
<1> QED
  BY <1>1, <1>4, <1>6, <1>8, <1>9, QuietNext DEF OwnRegion

\* Going down keeps the invariant: a node on a level is on the one below, too.
LEMMA SearchDownNext ==
  ASSUME Setting, Inv, NEW t \in Threads, SearchDown(t)
  PROVE  Inv'
<1>0. Base /\ TypeOK /\ Graph /\ Control(t) /\ MetEnough(t) /\ Searching(t) /\ InCall(t) /\ walk[t] \in WalkRec
  BY DEF Inv, Base, Graph, SearchDown, MetEnough, Searching, InCall, TypeOK
<1> DEFINE w == [walk[t] EXCEPT !.level = walk[t].level - 1, !.found = NewFound(t)]
           e == IF call[t].op \in {"insert", "remove"} THEN NewEnts(t) ELSE NoEnts
<1>1. /\ TypeOK' /\ ListSame(t) /\ waits' = waits /\ Moves(t, pc[t], w, e, node[t], call[t])
      /\ walk[t].level - 1 \in Levels /\ walk[t].low <= walk[t].level - 1
  BY <1>0, SearchDownIs
<1>2. w.at = walk[t].at /\ w.level = walk[t].level - 1 /\ w.low = walk[t].low /\ w.found = NewFound(t)
  BY <1>0, WalkFields
<1>3. \A l \in Levels : e[l].ok <=> ents[t][l].ok
  <2>1. CASE call[t].op \in {"insert", "remove"}
    BY <1>0, <2>1, Searched
  <2>2. CASE call[t].op \notin {"insert", "remove"}
    <3>1. pc[t] = "search"
      BY <1>0, <2>2 DEF Control, OpAt, Searching
    <3>2. \A l \in Levels : ~ents[t][l].ok
      BY <1>0, <3>1 DEF Control, RestOk, Linking
    <3> QED BY <2>2, <3>2, Walks
  <2> QED BY <2>1, <2>2
<1>x. call[t].op \in {"insert", "remove"} => e = NewEnts(t)
  OBVIOUS
<1>y. call[t].op \notin {"insert", "remove"} => e = NoEnts
  OBVIOUS
<1> HIDE DEF w, e
<1>4. Quiet(t)
  BY <1>0, <1>1, <1>3, QuietSame DEF Searching
<1>5. /\ pc'[t] = pc[t] /\ walk'[t] = w /\ ents'[t] = e /\ node'[t] = node[t]
      /\ call'[t] = call[t] /\ info' = info
  BY <1>1 DEF Moves, Own, ListSame
<1>l. 0 \in Levels /\ \A l \in Levels : l \in {0, 1}
  BY LevelsAre
<1>6. Control(t)'
  <2>1. SearchOk(t)'
    BY <1>0, <1>1, <1>2, <1>5 DEF Control, SearchOk, Searching
  <2>2. RemoverOk(t)'
    BY <1>0, <1>3, <1>5, <1>l DEF Control, RemoverOk, Searching
  <2>3. InserterOk(t)'
    <3>1. walk[t].low \in Levels
      BY <1>0, Typed
    <3> QED BY <1>0, <1>2, <1>3, <1>5, <1>l, <3>1 DEF Control, InserterOk, Searching
  <2>4. RestOk(t)'
    BY <1>0, <1>2, <1>3, <1>5 DEF Control, RestOk, Searching
  <2> QED BY <1>0, <1>5, <2>1, <2>2, <2>3, <2>4 DEF Control, OpAt
<1>7. PICK Q \in [Levels -> SUBSET Nodes] : Region(t, Q) /\ Holds(t, Q)
  BY <1>0 DEF Inv, Regions
<1>8. Region(t, Q)'
  BY <1>0, <1>1, <1>4, <1>5, <1>7, QuietRegion
<1>9. Holds(t, Q)'
  <2>1. walk[t].level = 1 /\ walk[t].level - 1 = 0
    <3>1. walk[t].level \in Levels
      BY <1>0, Typed
    <3> QED BY <1>1, <1>l, <3>1
  <2>2. walk[t].at \in Nodes => walk[t].at \in Q[0] /\ info[walk[t].at].key < call[t].key
    BY <1>0, <1>7, MeetsRegion DEF Holds
  <2>3. NewFound(t) # Null => NewFound(t) \in Q[0]
    BY <1>0, <1>7, MeetsRegion
  <2>4. call[t].op = "insert" => NewFound(t) # t
    BY <1>0, <1>7, MeetsOther
  <2>5. ASSUME NEW l \in Ready(t)' PROVE EntOk(t, Q, l)'
    <3>1. l \in Levels /\ ~ents[t][l].ok /\ l > 0
      BY <1>0, <1>2, <1>3, <1>5, <2>1 DEF Ready, Searching
    <3>2. CASE call[t].op \in {"insert", "remove"}
      <4>1. l >= walk[t].level
        BY <1>l, <2>1, <3>1
      <4>2. LET x == NewEnts(t)[l] IN
            /\ x.prec # Null
            /\ x.prec # Head => x.prec \in Q[l] /\ info[x.prec].key < call[t].key
            /\ x.next # Null => x.next \in Q[l]
            /\ x.next # Null /\ call[t].op = "insert" /\ NewFound(t) = Null => info[x.next].key > call[t].key
        BY <1>0, <1>7, <3>1, <4>1, Recorded
      <4> QED BY <1>x, <1>2, <1>5, <3>2, <4>2 DEF EntOk
    <3>3. CASE call[t].op \notin {"insert", "remove"}
      BY <1>y, <1>5, <3>1, <3>3, Walks, Names DEF EntOk
    <3> QED BY <3>2, <3>3
  <2> QED BY <1>0, <1>2, <1>5, <1>7, <2>1, <2>2, <2>3, <2>4, <2>5 DEF Holds, Searching
<1> QED
  BY <1>1, <1>4, <1>6, <1>8, <1>9, QuietNext DEF OwnRegion

\* An insertion that found its key keeps the invariant.
LEMMA FoundNext ==
  ASSUME Setting, Inv, NEW t \in Threads, InsertSearched(t), NewFound(t) # Null
  PROVE  Inv'
<1>0. /\ Base /\ TypeOK /\ Graph /\ Control(t) /\ MetEnough(t) /\ Searching(t) /\ InCall(t)
      /\ pc[t] = "search" /\ call[t].op = "insert"
  BY DEF Inv, Base, Graph, InsertSearched, MetEnough, InCall
<1> DEFINE w == [NoWalk EXCEPT !.found = NewFound(t)]
<1>1. /\ TypeOK' /\ ListSame(t) /\ waits' = waits /\ Moves(t, "check", w, NoEnts, node[t], call[t])
  BY <1>0, InsertSearchedIs
<1>2. w.at = Null /\ w.found = NewFound(t)
  BY WalkFields, Constants, Walks
<1> HIDE DEF w
<1>3. \A l \in Levels : ~ents[t][l].ok /\ ~NoEnts[l].ok
  BY <1>0, Walks DEF Control, RestOk, Linking
<1>4. Quiet(t)
  BY <1>0, <1>1, <1>3, QuietNew
<1>5. /\ pc'[t] = "check" /\ walk'[t] = w /\ ents'[t] = NoEnts /\ node'[t] = node[t]
      /\ call'[t] = call[t] /\ info' = info
  BY <1>1 DEF Moves, Own, ListSame
<1>6. Control(t)'
  <2>1. RestOk(t)'
    BY <1>0, <1>2, <1>3, <1>5 DEF Control, RestOk, Linking
  <2> QED BY <1>0, <1>5, <2>1 DEF Control, OpAt, SearchOk, Searching, InserterOk, RemoverOk, Linking
<1>7. PICK Q \in [Levels -> SUBSET Nodes] : Region(t, Q) /\ Holds(t, Q)
  BY <1>0 DEF Inv, Regions
<1>8. Region(t, Q)'
  BY <1>0, <1>1, <1>4, <1>5, <1>7, QuietRegion
<1>9. Holds(t, Q)'
  <2>1. NewFound(t) \in Q[0]
    BY <1>0, <1>7, MeetsRegion
  <2>2. NewFound(t) # t
    BY <1>0, <1>7, MeetsOther
  <2>3. Ready(t)' = {}
    BY <1>5 DEF Ready, Searching
  <2> QED BY <1>0, <1>2, <1>5, <2>1, <2>2, <2>3, Names DEF Holds, Searching
<1> QED
  BY <1>1, <1>4, <1>6, <1>8, <1>9, QuietNext DEF OwnRegion

\* After the search for the levels that failed.
LEMMA FoundAgainNext ==
  ASSUME Setting, Inv, NEW t \in Threads, LinkSearched(t), ~GiveUp(t)
  PROVE  Inv'
<1>0. /\ Base /\ TypeOK /\ Graph /\ Control(t) /\ MetEnough(t) /\ Searching(t) /\ InCall(t)
      /\ pc[t] = "search_again" /\ call[t].op = "insert" /\ SearchEnds(t)
  BY DEF Inv, Base, Graph, LinkSearched, MetEnough, InCall
<1> DEFINE e == NewEnts(t)
<1>1. /\ NewFound(t) \in {Null, t} /\ TypeOK' /\ ListSame(t) /\ waits' = waits
      /\ \E m \in Undone(e, t) :
           /\ \A i \in Undone(e, t) : m <= i
           /\ Moves(t, "link", [NoWalk EXCEPT !.level = m], e, node[t], call[t])
  BY <1>0, LinkSearchedIs
<1>2. PICK m \in Undone(e, t) :
           /\ \A i \in Undone(e, t) : m <= i
           /\ Moves(t, "link", [NoWalk EXCEPT !.level = m], e, node[t], call[t])
  BY <1>1
<1> DEFINE w == [NoWalk EXCEPT !.level = m]
<1>3. w.at = Null /\ w.found = Null /\ w.level = m
  BY WalkFields, Constants, Walks
<1>x. \A l \in Levels : e[l].ok <=> ents[t][l].ok
  BY <1>0, Searched
<1>u. Undone(e, t) = {i \in Levels : i < info[t].height /\ ~e[i].ok}
  BY <1>0, UndoneLevels, Names
<1> HIDE DEF w
<1>l. 0 \in Levels /\ \A l \in Levels : l \in {0, 1}
  BY LevelsAre
<1>4. Quiet(t)
  <2> HIDE DEF e
  <2>1. ListSame(t) /\ Moves(t, "link", w, e, node[t], call[t])
    BY <1>1, <1>2 DEF w
  <2>2. /\ "link" \notin {"mark", "heads", "collect"} /\ pc[t] \notin {"mark", "heads", "collect"}
        /\ "link" \notin {"unlink", "search_again", "retire"}
    BY <1>0
  <2> QED BY <1>x, <2>1, <2>2, QuietSame
<1>5. /\ pc'[t] = "link" /\ walk'[t] = w /\ ents'[t] = e /\ node'[t] = node[t]
      /\ call'[t] = call[t] /\ info' = info
  BY <1>1, <1>2 DEF Moves, Own, ListSame, w
<1>6. Control(t)'
  <2> HIDE DEF e
  <2>1. m \in Levels /\ m < info[t].height /\ ~e[m].ok
    BY <1>2, <1>u
  <2>2. \A l \in Levels : l < m => e[l].ok
    <3>1. ASSUME NEW l \in Levels, l < m, ~e[l].ok PROVE FALSE
      <4>1. l < info[t].height
        BY <1>l, <2>1, <3>1, <1>0, NodesTyped, Names
      <4>2. l \in Undone(e, t)
        BY <1>u, <3>1, <4>1
      <4>3. m <= l
        BY <1>2, <4>2
      <4> QED BY <1>l, <2>1, <3>1, <4>3
    <3> QED BY <3>1
  <2>3. InserterOk(t)'
    BY <1>0, <1>3, <1>x, <1>5, <1>l, <2>1, <2>2 DEF Control, InserterOk, Linking
  <2>4. RestOk(t)'
    BY <1>0, <1>3, <1>5 DEF Control, RestOk, Linking
  <2> QED BY <1>0, <1>5, <2>3, <2>4 DEF Control, OpAt, SearchOk, Searching, RemoverOk, Linking
<1>7. PICK Q \in [Levels -> SUBSET Nodes] : Region(t, Q) /\ Holds(t, Q)
  BY <1>0 DEF Inv, Regions
<1>8. Region(t, Q)'
  BY <1>0, <1>1, <1>4, <1>5, <1>7, QuietRegion
<1>9. Holds(t, Q)'
  <2>1. NewFound(t) = Null
    BY <1>0, <1>1, <1>7, MeetsOther
  <2>2. ASSUME NEW l \in Ready(t)' PROVE EntOk(t, Q, l)'
    <3>1. l \in Levels /\ ~e[l].ok /\ ~ents[t][l].ok
      BY <1>5, <1>x DEF Ready
    <3>2. l >= walk[t].level
      <4>1. walk[t].level = walk[t].low /\ walk[t].low \in Levels
        BY <1>0, Typed DEF SearchEnds
      <4>2. \A i \in Levels : i < walk[t].low => ents[t][i].ok
        BY <1>0 DEF Control, InserterOk, Linking
      <4> QED BY <1>l, <3>1, <4>1, <4>2
    <3>3. LET x == e[l] IN
          /\ x.prec # Null
          /\ x.prec # Head => x.prec \in Q[l] /\ info[x.prec].key < call[t].key
          /\ x.next # Null => x.next \in Q[l]
          /\ x.next # Null /\ call[t].op = "insert" /\ NewFound(t) = Null => info[x.next].key > call[t].key
      BY <1>0, <1>7, <3>1, <3>2, Recorded
    <3> QED BY <1>5, <2>1, <3>3 DEF EntOk
  <2> HIDE DEF e
  <2> QED BY <1>0, <1>3, <1>5, <2>2, Names DEF Holds, Searching
<1> QED
  BY <1>1, <1>4, <1>6, <1>8, <1>9, QuietNext DEF OwnRegion

\* A removal that searched keeps the invariant.
LEMMA RemoveSearchedNext ==
  ASSUME Setting, Inv, NEW t \in Threads, RemoveSearched(t)
  PROVE  Inv'
<1>0. /\ Base /\ TypeOK /\ Graph /\ Control(t) /\ MetEnough(t) /\ Searching(t) /\ InCall(t)
      /\ pc[t] = "search" /\ call[t].op = "remove" /\ SearchEnds(t)
  BY DEF Inv, Base, Graph, RemoveSearched, MetEnough, InCall
<1>d. \A l \in Levels : ~ents[t][l].ok
  BY <1>0 DEF Control, RestOk, Linking
<1> DEFINE e == NewEnts(t)
<1>1. /\ TypeOK' /\ ListSame(t)
      /\ \/ Moves(t, "done", NoWalk, NoEnts, Null, Promise!NoCall)
         \/ /\ NewFound(t) # Null /\ waits' = waits
            /\ Moves(t, "flag", NoWalk, e, NewFound(t), call[t])
  BY <1>0, RemoveSearchedIs
<1>2. CASE Moves(t, "done", NoWalk, NoEnts, Null, Promise!NoCall)
  BY <1>0, <1>1, <1>2, <1>d, FinishNext
<1>3. CASE /\ NewFound(t) # Null /\ waits' = waits
           /\ Moves(t, "flag", NoWalk, e, NewFound(t), call[t])
  <2>x. \A l \in Levels : ~e[l].ok
    BY <1>0, <1>d, Searched
  <2>r. ASSUME NEW Q \in [Levels -> SUBSET Nodes], Region(t, Q), Holds(t, Q), NEW l \in Levels
        PROVE  LET x == e[l] IN
               /\ x.prec # Null
               /\ x.prec # Head => x.prec \in Q[l] /\ info[x.prec].key < call[t].key
               /\ x.next # Null => x.next \in Q[l]
    <3>1. walk[t].level = 0
      BY <1>0 DEF SearchEnds, Control, SearchOk
    <3>2. l >= walk[t].level
      BY <3>1, LevelsAre
    <3> QED BY <1>0, <1>d, <2>r, <3>2, Recorded
  <2> HIDE DEF e
  <2>4. Quiet(t)
    BY <1>0, <1>1, <1>3, <1>d, <2>x, QuietNew
  <2>5. /\ pc'[t] = "flag" /\ walk'[t] = NoWalk /\ ents'[t] = e /\ node'[t] = NewFound(t)
        /\ call'[t] = call[t] /\ info' = info
    BY <1>1, <1>3 DEF Moves, Own, ListSame
  <2>6. Control(t)'
    <3>1. RemoverOk(t)'
      BY <1>3, <2>5, <2>x, Walks DEF RemoverOk
    <3>2. RestOk(t)'
      BY <1>0, <2>5 DEF Control, RestOk, Linking
    <3> QED BY <1>0, <2>5, <3>1, <3>2 DEF Control, OpAt, SearchOk, Searching, InserterOk
  <2>7. PICK Q \in [Levels -> SUBSET Nodes] : Region(t, Q) /\ Holds(t, Q)
    BY <1>0 DEF Inv, Regions
  <2>8. Region(t, Q)'
    BY <1>0, <1>3, <2>4, <2>5, <2>7, QuietRegion
  <2>9. Holds(t, Q)'
    <3>1. NewFound(t) \in Q[0]
      BY <1>0, <1>3, <2>7, MeetsRegion
    <3>2. ASSUME NEW l \in Ready(t)' PROVE EntOk(t, Q, l)'
      <4>1. l \in Levels
        BY DEF Ready
      <4> QED BY <1>0, <2>5, <2>7, <2>r, <4>1 DEF EntOk
    <3> QED BY <1>0, <2>5, <3>1, <3>2, Walks, Names DEF Holds, Searching
  <2> QED BY <1>1, <2>4, <2>6, <2>8, <2>9, QuietNext DEF OwnRegion
<1> QED
  BY <1>1, <1>2, <1>3

\* A removal that searched anew keeps the invariant.
LEMMA UnlinkSearchedNext ==
  ASSUME Setting, Inv, NEW t \in Threads, UnlinkSearched(t)
  PROVE  Inv'
<1>0. /\ Base /\ TypeOK /\ Graph /\ Control(t) /\ MetEnough(t) /\ Searching(t) /\ InCall(t)
      /\ pc[t] = "search_again" /\ call[t].op = "remove" /\ SearchEnds(t)
  BY DEF Inv, Base, Graph, UnlinkSearched, MetEnough, InCall
<1> DEFINE e == NewEnts(t)
<1>1. TypeOK' /\ ListSame(t) /\ waits' = waits /\ Moves(t, "unlink", NoWalk, e, node[t], call[t])
  BY <1>0, UnlinkSearchedIs
<1>x. \A l \in Levels : e[l].ok <=> ents[t][l].ok
  BY <1>0, Searched
<1>l. 0 \in Levels
  BY LevelsAre
<1>r. ASSUME NEW Q \in [Levels -> SUBSET Nodes], Region(t, Q), Holds(t, Q), NEW l \in Levels, ~ents[t][l].ok
      PROVE  LET x == e[l] IN
             /\ x.prec # Null
             /\ x.prec # Head => x.prec \in Q[l] /\ info[x.prec].key < call[t].key
             /\ x.next # Null => x.next \in Q[l]
  <2>1. walk[t].level = 0
    BY <1>0 DEF SearchEnds, Control, SearchOk
  <2>2. l >= walk[t].level
    BY <2>1, LevelsAre
  <2> QED BY <1>0, <1>r, <2>2, Recorded
<1> HIDE DEF e
<1>4. Quiet(t)
  <2>1. ListSame(t) /\ Moves(t, "unlink", NoWalk, e, node[t], call[t])
    BY <1>1
  <2>2. /\ "unlink" \notin {"mark", "heads", "collect"} /\ pc[t] \notin {"mark", "heads", "collect"}
        /\ pc[t] \in {"unlink", "search_again", "retire", "link", "exchange"}
    BY <1>0
  <2> QED BY <1>x, <2>1, <2>2, QuietSame
<1>5. /\ pc'[t] = "unlink" /\ walk'[t] = NoWalk /\ ents'[t] = e /\ node'[t] = node[t]
      /\ call'[t] = call[t] /\ info' = info
  BY <1>1 DEF Moves, Own, ListSame
<1>6. Control(t)'
  <2>1. RemoverOk(t)'
    BY <1>0, <1>5, <1>x, <1>l DEF Control, RemoverOk
  <2>2. RestOk(t)'
    BY <1>0, <1>5 DEF Control, RestOk, Linking
  <2> QED BY <1>0, <1>5, <2>1, <2>2 DEF Control, OpAt, SearchOk, Searching, InserterOk
<1>7. PICK Q \in [Levels -> SUBSET Nodes] : Region(t, Q) /\ Holds(t, Q)
  BY <1>0 DEF Inv, Regions
<1>8. Region(t, Q)'
  BY <1>0, <1>1, <1>4, <1>5, <1>7, QuietRegion
<1>9. Holds(t, Q)'
  <2>2. ASSUME NEW l \in Ready(t)' PROVE EntOk(t, Q, l)'
    <3>1. l \in Levels /\ ~ents[t][l].ok
      BY <1>5, <1>x DEF Ready
    <3> QED BY <1>0, <1>5, <1>7, <1>r, <3>1 DEF EntOk
  <2> QED BY <1>0, <1>5, <1>7, <2>2, Walks, Names DEF Holds, Searching
<1> QED
  BY <1>1, <1>4, <1>6, <1>8, <1>9, QuietNext DEF OwnRegion

\* A failed exchange of a removal keeps the invariant: it searches again in its region.
LEMMA UnlinkFailsNext ==
  ASSUME Setting, Inv, NEW t \in Threads, UnlinkFails(t)
  PROVE  Inv'
<1>0. Base /\ TypeOK /\ Graph /\ Control(t) /\ InCall(t) /\ pc[t] = "unlink" /\ call[t].op = "remove"
  BY DEF Inv, Base, Graph, UnlinkFails, InCall, Control, OpAt
<1>1. /\ TypeOK' /\ ListSame(t) /\ waits' = waits
      /\ Moves(t, "search_again", FromTop(0), ents[t], node[t], call[t])
  BY <1>0, UnlinkFailsIs
<1>4. Quiet(t)
  <2>1. ListSame(t) /\ Moves(t, "search_again", FromTop(0), ents[t], node[t], call[t])
    BY <1>1
  <2>2. /\ "search_again" \notin {"mark", "heads", "collect"} /\ pc[t] \notin {"mark", "heads", "collect"}
        /\ pc[t] \in {"unlink", "search_again", "retire", "link", "exchange"}
    BY <1>0
  <2> QED BY <2>1, <2>2, QuietSame
<1>5. /\ pc'[t] = "search_again" /\ walk'[t] = FromTop(0) /\ ents'[t] = ents[t] /\ node'[t] = node[t]
      /\ call'[t] = call[t] /\ info' = info
  BY <1>1 DEF Moves, Own, ListSame
<1>6. Control(t)'
  <2>1. RemoverOk(t)'
    BY <1>0, <1>5 DEF Control, RemoverOk
  <2>2. RestOk(t)'
    BY <1>0, <1>5 DEF Control, RestOk, Linking
  <2>3. SearchOk(t)'
    BY <1>5, Walks, Names, LevelsAre DEF SearchOk
  <2> QED BY <1>0, <1>5, <2>1, <2>2, <2>3 DEF Control, OpAt, InserterOk
<1>7. PICK Q \in [Levels -> SUBSET Nodes] : Region(t, Q) /\ Holds(t, Q)
  BY <1>0 DEF Inv, Regions
<1>8. Region(t, Q)'
  BY <1>0, <1>1, <1>4, <1>5, <1>7, QuietRegion
<1>9. Holds(t, Q)'
  <2>1. Ready(t)' = {}
    BY <1>5, Walks DEF Ready, Searching
  <2> QED BY <1>0, <1>5, <1>7, <2>1, Walks, Names DEF Holds, Searching
<1> QED
  BY <1>1, <1>4, <1>6, <1>8, <1>9, QuietNext DEF OwnRegion

\* A lookup goes on to a node that it may come to.
LEMMA LookupNext ==
  ASSUME Setting, Inv, NEW t \in Threads, TypeOK', ListSame(t), waits' = waits, NEW p, NEW w,
         Moves(t, p, w, ents[t], node[t], call[t]), p \in {"entry", "after"},
         pc[t] \in {"search", "entry", "after"}, call[t].op \notin {"insert", "remove"},
         NEW Q \in [Levels -> SUBSET Nodes], Region(t, Q),
         w.at \in Q[0], w.found # Null => w.found \in Q[0]
  PROVE  Inv'
<1>0. Base /\ TypeOK /\ Graph /\ Control(t)
  BY DEF Inv, Base, Graph
<1>1. /\ pc'[t] = p /\ walk'[t] = w /\ ents'[t] = ents[t] /\ node'[t] = node[t]
      /\ call'[t] = call[t] /\ info' = info
  BY DEF Moves, Own, ListSame
<1>2. Quiet(t)
  BY QuietSame
<1>3. w.at \in Nodes
  <2>1. 0 \in Levels
    BY LevelsAre
  <2> QED BY <2>1
<1>4. call[t].op \in Ops \ {"none", "clear", "insert", "remove"}
  BY <1>0 DEF Control, OpAt
<1>5. Control(t)'
  <2>1. RestOk(t)'
    BY <1>0, <1>1, <1>3, <1>4 DEF Control, RestOk, Linking
  <2> QED BY <1>1, <1>4, <2>1 DEF Control, OpAt, SearchOk, Searching, InserterOk, RemoverOk
<1>6. Region(t, Q)'
  BY <1>0, <1>1, <1>2, QuietRegion
<1>7. Holds(t, Q)'
  <2>1. Ready(t)' = {}
    BY ZenonT(60), SMTT(60), <1>1 DEF Ready, Searching
  <2> QED BY <1>1, <1>4, <2>1, Names DEF Holds, Searching
<1> QED
  BY <1>2, <1>5, <1>6, <1>7, QuietNext DEF OwnRegion

\* A lookup that searched keeps the invariant.
LEMMA ReadSearchedNext ==
  ASSUME Setting, Inv, NEW t \in Threads, ReadSearched(t)
  PROVE  Inv'
<1>0. /\ Base /\ TypeOK /\ Graph /\ Control(t) /\ Searching(t) /\ InCall(t)
      /\ pc[t] = "search" /\ call[t].op \notin {"insert", "remove"}
  BY DEF Inv, Base, Graph, ReadSearched, MetEnough, InCall
<1>1. \A l \in Levels : ~ents[t][l].ok
  BY <1>0 DEF Control, RestOk, Linking
<1>2. PICK Q \in [Levels -> SUBSET Nodes] : Region(t, Q) /\ Holds(t, Q)
  BY <1>0 DEF Inv, Regions
<1>3. \A n \in Nodes \cap {NewFound(t), walk[t].at, Met(t)} : n \in Q[0]
  BY ZenonT(60), SMTT(60), <1>0, <1>2, MeetsRegion, Names
<1>4. /\ TypeOK' /\ ListSame(t)
      /\ \/ Moves(t, "done", NoWalk, NoEnts, Null, Promise!NoCall)
         \/ /\ NewFound(t) # Null /\ waits' = waits
            /\ Moves(t, "after", [NoWalk EXCEPT !.at = NewFound(t)], ents[t], node[t], call[t])
         \/ \E n \in Nodes \cap {NewFound(t), walk[t].at, Met(t)} :
              /\ waits' = waits
              /\ Moves(t, "entry", [NoWalk EXCEPT !.at = n, !.seen = walk[t].seen], ents[t], node[t], call[t])
  BY ZenonT(60), SMTT(60), <1>0, ReadSearchedIs
<1>5. CASE Moves(t, "done", NoWalk, NoEnts, Null, Promise!NoCall)
  BY <1>0, <1>1, <1>4, <1>5, FinishNext
<1>6. ASSUME NewFound(t) # Null, waits' = waits,
             Moves(t, "after", [NoWalk EXCEPT !.at = NewFound(t)], ents[t], node[t], call[t])
      PROVE  Inv'
  <2> DEFINE w == [NoWalk EXCEPT !.at = NewFound(t)]
  <2>1. w.at = NewFound(t) /\ w.found = Null
    BY Constants, Walks, WalkFields
  <2>2. NewFound(t) \in Q[0]
    BY <1>0, <1>2, <1>6, MeetsRegion
  <2> HIDE DEF w
  <2>3. Moves(t, "after", w, ents[t], node[t], call[t]) /\ waits' = waits
    BY <1>6 DEF w
  <2>4. TypeOK' /\ ListSame(t)
    BY ZenonT(60), SMTT(60), <1>4
  <2> QED BY <1>0, <1>2, <2>1, <2>2, <2>3, <2>4, LookupNext
<1>7. ASSUME NEW n \in Nodes \cap {NewFound(t), walk[t].at, Met(t)}, waits' = waits,
             Moves(t, "entry", [NoWalk EXCEPT !.at = n, !.seen = walk[t].seen], ents[t], node[t], call[t])
      PROVE  Inv'
  <2> DEFINE w == [NoWalk EXCEPT !.at = n, !.seen = walk[t].seen]
  <2>1. w.at = n /\ w.found = Null
    BY Constants, Walks, WalkFields
  <2> HIDE DEF w
  <2>3. Moves(t, "entry", w, ents[t], node[t], call[t])
    BY <1>7 DEF w
  <2> QED BY <1>0, <1>2, <1>3, <1>4, <1>7, <2>1, <2>3, LookupNext
<1> QED
  BY <1>4, <1>5, <1>6, <1>7

\* Coming to the next entry keeps the invariant.
LEMMA ReadAfterNext ==
  ASSUME Setting, Inv, NEW t \in Threads, ReadAfter(t)
  PROVE  Inv'
<1>0. /\ Base /\ TypeOK /\ Graph /\ Control(t) /\ InCall(t) /\ pc[t] = "after" /\ 0 \in Levels
      /\ call[t].op \notin {"insert", "remove"} /\ walk[t].at \in Nodes
  BY LevelsAre DEF Inv, Base, Graph, ReadAfter, InCall, Control, OpAt, RestOk
<1>1. \A l \in Levels : ~ents[t][l].ok
  BY <1>0 DEF Control, RestOk, Linking
<1>2. PICK Q \in [Levels -> SUBSET Nodes] : Region(t, Q) /\ Holds(t, Q)
  BY ZenonT(60), SMTT(60), <1>0 DEF Inv, Regions
<1> DEFINE n == cell[walk[t].at][0].to
           w == [NoWalk EXCEPT !.at = n, !.seen = walk[t].seen]
<1>3. /\ TypeOK' /\ ListSame(t)
      /\ \/ Moves(t, "done", NoWalk, NoEnts, Null, Promise!NoCall)
         \/ n \in Nodes /\ waits' = waits /\ Moves(t, "entry", w, ents[t], node[t], call[t])
  BY <1>0, ReadAfterIs
<1>4. w.at = n /\ w.found = Null
  BY Constants, Walks, WalkFields
<1>5. n \in Nodes => n \in Q[0]
  <2>1. walk[t].at \in Q[0]
    BY <1>0, <1>2 DEF Holds, Searching
  <2> QED BY <1>0, <1>2, <2>1, Names DEF Region
<1> HIDE DEF n, w
<1>6. CASE Moves(t, "done", NoWalk, NoEnts, Null, Promise!NoCall)
  BY <1>0, <1>1, <1>3, <1>6, FinishNext
<1>7. CASE n \in Nodes /\ waits' = waits /\ Moves(t, "entry", w, ents[t], node[t], call[t])
  BY <1>0, <1>2, <1>3, <1>4, <1>5, <1>7, LookupNext
<1> QED
  BY <1>3, <1>6, <1>7

\* Leaving an entry keeps the invariant.
LEMMA ReadEntryNext ==
  ASSUME Setting, Inv, NEW t \in Threads, ReadEntry(t)
  PROVE  Inv'
<1>0. /\ Base /\ TypeOK /\ Graph /\ Control(t) /\ InCall(t) /\ pc[t] = "entry" /\ walk[t] \in WalkRec
      /\ call[t].op \notin {"insert", "remove"} /\ walk[t].at \in Nodes
  BY DEF Inv, Base, Graph, ReadEntry, InCall, Control, OpAt, RestOk, TypeOK
<1>1. node[t] = Null /\ \A l \in Levels : ~ents[t][l].ok
  BY <1>0 DEF Control, RestOk, Linking
<1>2. PICK Q \in [Levels -> SUBSET Nodes] : Region(t, Q) /\ Holds(t, Q)
  BY <1>0 DEF Inv, Regions
<1>3. /\ TypeOK' /\ ListSame(t)
      /\ \/ Moves(t, "done", NoWalk, NoEnts, Null, Promise!NoCall)
         \/ /\ waits' = waits
            /\ \E S \in SUBSET Nat :
                 Moves(t, "after", [walk[t] EXCEPT !.seen = S], ents[t], node[t], call[t])
         \/ waits' = waits /\ Moves(t, "search", FromTop(0), ents[t], node[t], call[t])
  BY <1>0, ReadEntryIs
<1>4. walk[t].at \in Q[0] /\ (walk[t].found # Null => walk[t].found \in Q[0])
  BY <1>0, <1>2 DEF Holds, Searching
<1>5. CASE Moves(t, "done", NoWalk, NoEnts, Null, Promise!NoCall)
  BY <1>0, <1>1, <1>3, <1>5, FinishNext
<1>6. ASSUME NEW S \in SUBSET Nat, waits' = waits,
             Moves(t, "after", [walk[t] EXCEPT !.seen = S], ents[t], node[t], call[t])
      PROVE  Inv'
  <2> DEFINE w == [walk[t] EXCEPT !.seen = S]
  <2>1. w.at = walk[t].at /\ w.found = walk[t].found
    BY <1>0, WalkFields
  <2> HIDE DEF w
  <2>3. Moves(t, "after", w, ents[t], node[t], call[t])
    BY <1>6 DEF w
  <2> QED BY <1>0, <1>2, <1>3, <1>4, <1>6, <2>1, <2>3, LookupNext
<1>7. CASE Moves(t, "search", FromTop(0), ents[t], node[t], call[t])
  BY <1>0, <1>1, <1>3, <1>7, SearchNext
<1> QED
  BY <1>3, <1>5, <1>6, <1>7

\* Looking at the node found keeps the invariant.
LEMMA InsertCheckNext ==
  ASSUME Setting, Inv, NEW t \in Threads, InsertCheck(t)
  PROVE  Inv'
<1>0. TypeOK /\ Control(t) /\ pc[t] = "check"
  BY DEF Inv, InsertCheck
<1>1. \A l \in Levels : ~ents[t][l].ok /\ ~NoEnts[l].ok
  BY <1>0, Walks DEF Control, RestOk, Linking
<1>2. /\ TypeOK' /\ ListSame(t)
      /\ \/ Moves(t, "done", NoWalk, NoEnts, Null, Promise!NoCall)
         \/ Moves(t, "search", FromTop(0), NoEnts, Null, call[t])
  BY <1>0, InsertCheckIs
<1>3. CASE Moves(t, "done", NoWalk, NoEnts, Null, Promise!NoCall)
  BY <1>0, <1>1, <1>2, <1>3, FinishNext
<1>4. CASE Moves(t, "search", FromTop(0), NoEnts, Null, call[t])
  BY <1>0, <1>1, <1>2, <1>4, SearchNext
<1> QED
  BY <1>2, <1>3, <1>4

\* Counting keeps the invariant.
LEMMA InsertCountNext ==
  ASSUME Setting, Inv, NEW t \in Threads, InsertCount(t)
  PROVE  Inv'
<1>1. /\ TypeOK' /\ ListSame(t) /\ pc[t] = "count"
      /\ Moves(t, "done", NoWalk, NoEnts, Null, Promise!NoCall)
  BY InsertCountIs DEF Inv, InsertCount
<1> QED
  BY <1>1, FinishNext

\* The end of clear keeps the invariant.
LEMMA ClearEndsNext ==
  ASSUME Setting, Inv, NEW t \in Threads, ClearEnds(t)
  PROVE  Inv'
<1>0. TypeOK /\ Control(t)
  BY DEF Inv
<1>1. /\ TypeOK' /\ ListSame(t) /\ pc[t] = "collect" /\ walk[t].at = Null
      /\ Moves(t, "done", NoWalk, NoEnts, Null, Promise!NoCall)
  BY <1>0, ClearEndsIs
<1>2. \A l \in Levels : ~ents[t][l].ok
  BY <1>0, <1>1 DEF Control, RestOk, Linking
<1> QED
  BY <1>1, <1>2, FinishNext

\* A call that begins keeps the invariant: its region are the levels.
LEMMA StartNext ==
  ASSUME Setting, Inv, NEW t \in Threads, Write(t) \/ Read(t) \/ Clear(t)
  PROVE  Inv'
<1>0. Base /\ TypeOK /\ Control(t) /\ 0 \in Levels
  BY LevelsAre DEF Inv, Base, Graph
<1>1. /\ TypeOK' /\ ListSame(t) /\ waits' = waits /\ pc[t] = "idle"
      /\ \E op \in Ops, k \in Nat, l \in Levels :
           /\ op \in {"insert", "remove"} => k \in Keys /\ \A c \in Threads : call[c].op # "clear"
           /\ op = "clear" => \A c \in Threads : call[c].op \notin {"insert", "remove"}
           /\ op = "clear" => l = MaxHeight - 1
           /\ op # "none"
           /\ Moves(t, IF op = "clear" THEN "heads" ELSE "search", [FromTop(0) EXCEPT !.level = l],
                    ents[t], node[t], [op |-> op, key |-> k])
  BY <1>0, StartIs
<1>2. PICK op \in Ops, k \in Nat, l \in Levels :
           /\ op \in {"insert", "remove"} => k \in Keys /\ \A c \in Threads : call[c].op # "clear"
           /\ op = "clear" => \A c \in Threads : call[c].op \notin {"insert", "remove"}
           /\ op = "clear" => l = MaxHeight - 1
           /\ op # "none"
           /\ Moves(t, IF op = "clear" THEN "heads" ELSE "search", [FromTop(0) EXCEPT !.level = l],
                    ents[t], node[t], [op |-> op, key |-> k])
  BY <1>1
<1> DEFINE w == [FromTop(0) EXCEPT !.level = l]
           p == IF op = "clear" THEN "heads" ELSE "search"
<1>3. w.at = Head /\ w.level = l /\ w.low = 0 /\ w.found = Null
  BY <1>0, Constants, Walks, WalkFields
<1>4. /\ pc'[t] = p /\ walk'[t] = w /\ ents'[t] = ents[t] /\ node'[t] = node[t]
      /\ call'[t].op = op /\ call'[t].key = k /\ info' = info /\ Others(t)
  BY <1>1, <1>2 DEF Moves, Own, ListSame
<1>5. /\ call[t].op = "none" /\ node[t] = Null /\ ents[t] = NoEnts
      /\ ~info[t].linking /\ info[t].height = 0 /\ info[t].place = "none"
  BY <1>0, <1>1 DEF Control, OpAt, RestOk, Linking
<1>6. \A i \in Levels : ~ents[t][i].ok /\ ents[t][i].prec = Head /\ ents[t][i].next = Null
  BY <1>5, Walks
<1>7. Quiet(t)
  <2>1. FlagsKept(t)
    BY <1>4, <1>6 DEF FlagsKept
  <2>2. ActiveStays(t)
    BY <1>4 DEF ActiveStays, Active
  <2>3. ClearStays(t)
    BY <1>1, <1>2, <1>3, <1>4, Walks DEF ClearStays
  <2>4. Apart'
    <3> HIDE DEF w, p
    <3>1. \A u \in Threads : u # t => call'[u] = call[u]
      BY <1>4 DEF Others
    <3>2. Apart
      BY DEF Inv, Clears
    <3> QED BY <1>2, <1>4, <3>1, <3>2 DEF Apart
  <2> QED BY <1>1, <1>4, <2>1, <2>2, <2>3, <2>4 DEF Quiet
<1>8. Control(t)'
  <2> HIDE DEF w
  <2>1. SearchOk(t)'
    <3>1. 0 <= l
      BY LevelsAre
    <3> QED BY <1>3, <1>4, <3>1, Names DEF SearchOk
  <2>2. RestOk(t)'
    BY <1>4, <1>5, <1>6 DEF RestOk, Linking
  <2>3. InserterOk(t)' /\ RemoverOk(t)'
    BY <1>4, <1>6 DEF InserterOk, RemoverOk, Linking
  <2>4. call'[t].op \in OpAt(pc'[t])
    BY <1>2, <1>4 DEF OpAt
  <2> QED BY <1>2, <1>4, <2>1, <2>2, <2>3, <2>4 DEF Control
<1>9. \A Q \in [Levels -> SUBSET Nodes] : Holds(t, Q)'
  <2> HIDE DEF w
  <2>1. TAKE Q \in [Levels -> SUBSET Nodes]
  <2>2. \A i \in Levels : EntOk(t, Q, i)'
    BY <1>4, <1>6, Names DEF EntOk
  <2> QED BY <1>3, <1>4, <1>5, <2>2, Names DEF Holds, Ready
<1> QED
  BY <1>1, <1>7, <1>8, <1>9, QuietNext DEF OwnRegion

-----------------------------------------------------------------------------
(* Steps of writers that leave the levels as they are.                     *)

\* While there are writers there is no clear.
LEMMA WritersAlone ==
  ASSUME Inv, NEW t \in Threads, call[t].op \in {"insert", "remove"}
  PROVE  /\ \A c \in Threads : call[c].op # "clear" /\ pc[c] \notin {"heads", "collect"}
         /\ \A n \in Nodes : info[n].place # "cut"
         /\ \A l : ~HeadCut(l)
<1>1. \A c \in Threads : call[c].op # "clear"
  BY DEF Inv, Clears, Apart
<1>2. \A c \in Threads : pc[c] \notin {"heads", "collect"}
  BY <1>1 DEF Inv, Control, OpAt
<1>3. \A n \in Nodes : info[n].place # "cut"
  BY <1>2 DEF Inv, Clears
<1> QED
  BY <1>1, <1>2, <1>3 DEF HeadCut

\* While a writer is at work nothing is being cleared.
LEMMA WriterClears ==
  ASSUME Inv, NEW t \in Threads, call[t].op \in {"insert", "remove"}, Others(t),
         call'[t].op \in {call[t].op, "none"}, pc'[t] \notin {"heads", "collect"},
         \A n \in Nodes : info'[n].place # "cut"
  PROVE  Clears' /\ \A l : ~HeadCut(l) /\ ~HeadCut(l)'
<1>1. \A c \in Threads : pc'[c] \notin {"heads", "collect"} /\ call'[c].op # "clear"
  BY WritersAlone DEF Others
<1> QED
  BY <1>1, WritersAlone DEF Clears, Apart, HeadCut

\* The nodes in the list, and those that were, change little.
NodesKept ==
  \A n \in Was(0) : /\ info'[n].place = info[n].place
                    /\ info[n].deleted => info'[n].deleted
                    /\ info'[n].linking => info[n].linking

HeadKept == \A l \in Levels : cell'[Head][l] = cell[Head][l]

\* A step of a writer that takes no node on or off a level keeps the invariant.
LEMMA WriterStep ==
  ASSUME Setting, Inv, NEW t \in Threads, call[t].op \in {"insert", "remove"},
         TypeOK', Others(t), Unpinned(t), SameLevels, LinksKept, NamesKept(t), NodesKept, HeadKept,
         Placed', MarksNext, Control(t)', OwnRemoval(t), OwnRegion(t),
         call'[t].op \in {call[t].op, "none"}, pc'[t] \notin {"heads", "collect"}
  PROVE  Inv'
<1>0. Base /\ Graph /\ Removals /\ 0 \in Levels
  BY LevelsAre DEF Inv, Base, Graph
<1>1. \A n \in Nodes : info'[n].place # "cut"
  <2>1. Was(0)' = Was(0)
    BY <1>0 DEF SameLevels
  <2> QED BY <2>1, WritersAlone DEF Placed, NodesKept
<1>2. Clears' /\ \A l : ~HeadCut(l) /\ ~HeadCut(l)'
  BY <1>1, WriterClears
<1>3. HeadsNext
  BY <1>2 DEF HeadsNext, HeadKept
<1>4. OthersRemove(t)
  <2> SUFFICES ASSUME NEW u \in Threads, u # t, Active(u)
               PROVE  LET n == node[u] IN info'[n].place = "linked" /\ info'[n].deleted /\ ~info'[n].linking
    BY DEF OthersRemove
  <2>1. RemovalOk(u)
    BY <1>0 DEF Removals
  <2> QED BY <2>1 DEF RemovalOk, NodesKept
<1>5. OthersSafe(t)
  <2> SUFFICES ASSUME NEW u \in Threads, u # t, NEW n \in Was(0), Safe(u, n)
               PROVE  Safe(u, n)'
    BY DEF OthersSafe
  <2>1. n \in Nodes /\ info'[n].place = info[n].place
    BY DEF Was, NodesKept
  <2>2. u \in waits[n] => u \in waits'[n]
    BY <2>1 DEF Unpinned
  <2> QED BY <2>1, <2>2 DEF Safe
<1> QED
  BY <1>2, <1>3, <1>4, <1>5, SameLevelsStep

\* A node is made.
LEMMA NewNodeNext ==
  ASSUME Setting, Inv, NEW t \in Threads, InsertSearched(t), NewFound(t) = Null
  PROVE  Inv'
<1>0. /\ Base /\ TypeOK /\ Graph /\ Control(t) /\ MetEnough(t) /\ Searching(t) /\ InCall(t)
      /\ pc[t] = "search" /\ call[t].op = "insert" /\ SearchEnds(t) /\ t \in Nodes
  BY Names DEF Inv, Base, Graph, InsertSearched, MetEnough, InCall
<1>1. /\ TypeOK' /\ waits' = waits
      /\ \E h \in 1 .. MaxHeight :
           /\ info' = [info EXCEPT ![t] = [key |-> call[t].key, height |-> h, linking |-> TRUE,
                                          deleted |-> FALSE, place |-> "own"]]
           /\ cell' = [cell EXCEPT ![t] = [l \in Levels |-> NoLink]]
           /\ Moves(t, "link", NoWalk, [l \in Levels |-> IF l < h THEN NewEnts(t)[l] ELSE NoEnts[l]],
                    t, call[t])
  BY <1>0, InsertSearchedIs
<1>2. PICK h \in 1 .. MaxHeight :
           /\ info' = [info EXCEPT ![t] = [key |-> call[t].key, height |-> h, linking |-> TRUE,
                                          deleted |-> FALSE, place |-> "own"]]
           /\ cell' = [cell EXCEPT ![t] = [l \in Levels |-> NoLink]]
           /\ Moves(t, "link", NoWalk, [l \in Levels |-> IF l < h THEN NewEnts(t)[l] ELSE NoEnts[l]],
                    t, call[t])
  BY <1>1
<1>3. /\ \A n \in Nodes : n # t => info'[n] = info[n]
      /\ info'[t].key = call[t].key /\ info'[t].height = h /\ info'[t].linking
      /\ ~info'[t].deleted /\ info'[t].place = "own"
  BY <1>0, <1>2 DEF TypeOK
<1>4. \A n \in Nodes \cup {Head} : n # t => cell'[n] = cell[n]
  BY <1>2 DEF TypeOK
<1> DEFINE e == [l \in Levels |-> IF l < h THEN NewEnts(t)[l] ELSE NoEnts[l]]
<1>5. pc'[t] = "link" /\ walk'[t] = NoWalk /\ ents'[t] = e /\ node'[t] = t /\ call'[t] = call[t] /\ Others(t)
  BY <1>2 DEF Moves, Own
<1>6. \A l \in Levels : ~ents[t][l].ok
  BY <1>0 DEF Control, RestOk, Linking
<1>7. \A l \in Levels : ~e[l].ok /\ (l < h => e[l] = NewEnts(t)[l])
  BY ZenonT(60), SMTT(60), <1>0, <1>6, Searched, Walks
<1>l. 0 \in Levels /\ h \in Nat /\ h > 0 /\ \A l \in Levels : l \in {0, 1}
  BY LevelsAre
<1> HIDE DEF e
<1>8. \A l \in Levels : t \notin Was(l) /\ t \notin Was(l)'
  <2>1. ASSUME NEW l \in Levels PROVE t \notin Was(l)
    <3>1. info[t].linking \/ info[t].height = 0
      BY <1>0 DEF Control, RestOk
    <3>2. info[t].height = 0 => ~(l < info[t].height)
      BY <1>l
    <3> QED BY <1>6, <3>1, <3>2 DEF Was
  <2>2. ASSUME NEW l \in Levels PROVE t \notin Was(l)'
    BY <1>3, <1>5, <1>7 DEF Was
  <2> QED BY <2>1, <2>2
<1>9. \A l \in Levels : \A n \in Was(l) : n \in Nodes /\ n # t /\ info'[n] = info[n] /\ cell'[n] = cell[n]
  <2>1. \A l \in Levels : \A n \in Was(l) : n \in Nodes
    BY DEF Was
  <2> QED BY <1>3, <1>4, <1>8, <2>1
<1>10. SameLevels
  <2>1. FlagsKept(t)
    BY <1>0, <1>5 DEF FlagsKept
  <2>2. info[t].place \notin {"linked", "cut"}
    BY <1>0 DEF Control, RestOk
  <2>3. \A n \in Nodes : InList(n)' <=> InList(n)
    BY <1>3, <2>2 DEF InList
  <2> QED BY <1>0, <1>3, <1>5, <1>8, <2>1, <2>3, LevelsStay
<1>11. LinksKept /\ MarksNext /\ NodesKept
  BY <1>0, <1>9, <1>l DEF LinksKept, MarksNext, NodesKept, Graph, Marks
<1>12. NamesKept(t)
  BY <1>3, <1>4, <1>9, <1>l, Names DEF NamesKept
<1>13. HeadKept
  BY <1>0, <1>4, Names DEF HeadKept
<1>14. Placed'
  <2>1. Was(0)' = Was(0)
    BY <1>10, <1>l DEF SameLevels
  <2> QED BY <1>0, <1>3, <2>1 DEF Base, Placed
<1>15. Control(t)'
  <2>1. InserterOk(t)'
    BY <1>3, <1>5, <1>7, <1>l, Walks DEF InserterOk
  <2>2. RestOk(t)'
    BY <1>0, <1>5 DEF RestOk, Linking
  <2> QED BY <1>0, <1>5, <2>1, <2>2 DEF Control, OpAt, SearchOk, Searching, RemoverOk
<1>16. OwnRemoval(t)
  BY <1>5 DEF OwnRemoval, Active
<1>17. OwnRegion(t)
  <2>1. PICK Q \in [Levels -> SUBSET Nodes] : Region(t, Q) /\ Holds(t, Q)
    BY <1>0 DEF Inv, Regions
  <2>2. Region(t, Q)'
    <3>1. \A n \in Was(0) : Safe(t, n) => Safe(t, n)'
      BY <1>1, <1>9, <1>l DEF Safe
    <3> QED BY <1>0, <1>5, <1>10, <1>11, <2>1, <3>1, RegionStays
  <2>3. ASSUME NEW l \in Ready(t)' PROVE EntOk(t, Q, l)'
    <3>1. l \in Levels /\ l < h
      BY <1>3, <1>5, <2>3 DEF Ready, Searching
    <3>2. walk[t].level = 0
      BY <1>0 DEF SearchEnds, Control, SearchOk
    <3>3. l >= walk[t].level
      BY <3>1, <3>2, LevelsAre
    <3>4. LET x == NewEnts(t)[l] IN
          /\ x.prec # Null
          /\ x.prec # Head => x.prec \in Q[l] /\ info[x.prec].key < call[t].key
          /\ x.next # Null => x.next \in Q[l]
          /\ x.next # Null /\ call[t].op = "insert" /\ NewFound(t) = Null => info[x.next].key > call[t].key
      BY <1>0, <1>6, <2>1, <3>1, <3>3, Recorded
    <3>5. \A n \in Q[l] : info'[n] = info[n]
      BY <1>9, <2>1, <3>1 DEF Region
    <3> QED BY <1>0, <1>5, <1>7, <3>1, <3>4, <3>5 DEF EntOk
  <2>4. Holds(t, Q)'
    BY <1>0, <1>5, <2>3, Walks, Names DEF Holds, Searching
  <2> QED BY <2>2, <2>4 DEF OwnRegion
<1>18. Unpinned(t)
  BY <1>1 DEF Unpinned
<1> QED
  BY <1>0, <1>1, <1>5, <1>10, <1>11, <1>12, <1>13, <1>14, <1>15, <1>16, <1>17, <1>18, WriterStep

\* The next of the new node is stored on a level that it is not on.
LEMMA StoreNext ==
  ASSUME Setting, Inv, NEW t \in Threads, Store(t)
  PROVE  Inv'
<1> DEFINE l == walk[t].level
           c == [to |-> ents[t][l].next, marked |-> FALSE]
<1>0. /\ Base /\ TypeOK /\ Graph /\ Control(t) /\ InCall(t) /\ pc[t] = "link" /\ call[t].op = "insert"
      /\ t \in Nodes /\ l \in Levels /\ 0 \in Levels
  BY Names, LevelsAre, Typed DEF Inv, Base, Graph, Store, InCall, Control, OpAt
<1>1. /\ TypeOK' /\ waits' = waits /\ info' = info /\ CellAt(t, l, c)
      /\ Moves(t, "exchange", walk[t], ents[t], node[t], call[t])
  BY <1>0, StoreIs
<1>2. /\ pc'[t] = "exchange" /\ walk'[t] = walk[t] /\ ents'[t] = ents[t] /\ node'[t] = node[t]
      /\ call'[t] = call[t] /\ Others(t)
  BY <1>1 DEF Moves, Own
<1>3. t \notin Was(l)
  BY <1>0 DEF Was, Control, InserterOk, Linking
<1>4. cell'[t][l] = c /\ \A m \in Nodes \cup {Head}, j \in Levels : m # t \/ j # l => cell'[m][j] = cell[m][j]
  BY <1>0, <1>1 DEF CellAt
<1> HIDE DEF c
<1>5. SameLevels
  <2>1. FlagsKept(t)
    BY <1>2 DEF FlagsKept
  <2>2. \A n \in Nodes : InList(n)' <=> InList(n)
    BY <1>1 DEF InList
  <2>3. \A j \in Levels : t \in Was(j)' <=> t \in Was(j)
    BY <1>1, <1>2 DEF Was
  <2> QED BY <1>0, <1>1, <1>2, <2>1, <2>2, <2>3, LevelsStay
<1>6. \A j \in Levels : \A n \in Was(j) : cell'[n][j] = cell[n][j]
  <2>1. \A j \in Levels : \A n \in Was(j) : n \in Nodes
    BY DEF Was
  <2> QED BY <1>3, <1>4, <2>1
<1>7. LinksKept /\ MarksNext /\ NodesKept
  BY <1>0, <1>1, <1>6 DEF LinksKept, MarksNext, NodesKept, Graph, Marks
<1>8. NamesKept(t)
  BY <1>1, <1>4, Names DEF NamesKept
<1>9. HeadKept
  BY <1>0, <1>4, Names DEF HeadKept
<1>10. Placed'
  <2>1. Was(0)' = Was(0)
    BY <1>0, <1>5 DEF SameLevels
  <2> QED BY <1>0, <1>1, <2>1 DEF Base, Placed
<1>11. Control(t)'
  <2>1. InserterOk(t)'
    BY <1>0, <1>1, <1>2, <1>4 DEF Control, InserterOk, Linking, c
  <2>2. RestOk(t)'
    BY <1>0, <1>2 DEF RestOk, Linking
  <2> QED BY <1>0, <1>2, <2>1, <2>2 DEF Control, OpAt, SearchOk, Searching, RemoverOk
<1>12. OwnRemoval(t)
  BY <1>2 DEF OwnRemoval, Active
<1>13. OwnRegion(t)
  <2>1. PICK Q \in [Levels -> SUBSET Nodes] : Region(t, Q) /\ Holds(t, Q)
    BY <1>0 DEF Inv, Regions
  <2>2. Region(t, Q)'
    <3>1. \A n \in Was(0) : Safe(t, n) => Safe(t, n)'
      BY <1>1 DEF Safe
    <3> QED BY <1>0, <1>2, <1>5, <1>7, <2>1, <3>1, RegionStays
  <2>3. Ready(t)' = Ready(t)
    BY <1>0, <1>1, <1>2 DEF Ready, Searching
  <2>4. \A j \in Ready(t) : EntOk(t, Q, j)'
    BY <1>1, <1>2, <2>1 DEF EntOk, Holds
  <2>5. Holds(t, Q)'
    BY <1>0, <1>1, <1>2, <2>1, <2>3, <2>4 DEF Holds, Searching
  <2> QED BY <2>2, <2>5 DEF OwnRegion
<1>14. Unpinned(t)
  BY <1>1 DEF Unpinned
<1> QED
  BY <1>0, <1>1, <1>2, <1>5, <1>7, <1>8, <1>9, <1>10, <1>11, <1>12, <1>13, <1>14, WriterStep

\* Nothing changes.
LEMMA Stutters ==
  ASSUME Setting, Inv, UNCHANGED <<list, pc, local, call>>
  PROVE  Inv'
<1>0. /\ cell' = cell /\ info' = info /\ waits' = waits /\ pc' = pc /\ walk' = walk
      /\ ents' = ents /\ node' = node /\ call' = call
  BY DEF list, local
<1>1. TypeOK'
  BY <1>0 DEF Inv, TypeOK
<1>2. ASSUME NEW t \in Threads PROVE Control(t)'
  <2>1. /\ SearchOk(t)' <=> SearchOk(t)
        /\ InserterOk(t)' <=> InserterOk(t)
        /\ RemoverOk(t)' <=> RemoverOk(t)
        /\ RestOk(t)' <=> RestOk(t)
    BY <1>0 DEF SearchOk, Searching, InserterOk, RemoverOk, RestOk
  <2> QED BY <1>0, <2>1 DEF Inv, Control, OpAt
<1>3. /\ \A l : Was(l)' = Was(l) /\ (HeadCut(l)' <=> HeadCut(l))
      /\ \A n, l : Off(n, l)' <=> Off(n, l)
      /\ \A n, m : Below(n, m)' <=> Below(n, m)
  BY <1>0 DEF Was, HeadCut, Off, Below
<1>4. \A l : On(l)' = On(l)
  BY <1>0, <1>3 DEF On
<1>5. ASSUME NEW l \in Levels PROVE (Ascends(l) /\ Chained(l) /\ Marks(l))'
  <2>1. Ascends(l) /\ Chained(l) /\ Marks(l)
    BY DEF Inv, Graph
  <2>2. \A n : Leads(n, l)' <=> Leads(n, l)
    BY <1>0, <1>3, <1>4 DEF Leads
  <2> QED BY <1>0, <1>3, <1>4, <2>1, <2>2 DEF Ascends, Chained, Marks
<1>6. Placed'
  BY <1>0, <1>3 DEF Inv, Graph, Placed
<1>7. Removals' /\ Clears'
  <2>1. \A t \in Threads : (Active(t)' <=> Active(t)) /\ (RemovalOk(t)' <=> RemovalOk(t))
    BY <1>0, <1>3 DEF Active, RemovalOk
  <2>2. Removals'
    BY <1>0, <2>1 DEF Inv, Removals
  <2>3. Clears'
    BY <1>0, <1>4 DEF Inv, Clears, Apart
  <2> QED BY <2>2, <2>3
<1>8. Regions'
  <2>1. ASSUME NEW t \in Threads, InCall(t)'
        PROVE  \E Q \in [Levels -> SUBSET Nodes] : Region(t, Q)' /\ Holds(t, Q)'
    <3>1. InCall(t)
      BY <1>0, <2>1 DEF InCall
    <3>2. PICK Q \in [Levels -> SUBSET Nodes] : Region(t, Q) /\ Holds(t, Q)
      BY <3>1 DEF Inv, Regions
    <3>3. Region(t, Q)'
      <4>1. \A n : Safe(t, n)' <=> Safe(t, n)
        BY <1>0 DEF Safe
      <4> QED BY <1>0, <1>3, <1>4, <3>2, <4>1 DEF Region
    <3>4. Holds(t, Q)'
      <4>1. Ready(t)' = Ready(t) /\ \A l : EntOk(t, Q, l)' <=> EntOk(t, Q, l)
        BY <1>0 DEF Ready, EntOk, Searching
      <4> QED BY <1>0, <3>2, <4>1 DEF Holds, Searching
    <3> QED BY <3>3, <3>4
  <2> QED BY <2>1 DEF Regions
<1> QED
  BY <1>1, <1>2, <1>5, <1>6, <1>7, <1>8 DEF Inv, Graph

\* The new node is freed: it is on no level.
LEMMA GiveUpNext ==
  ASSUME Setting, Inv, NEW t \in Threads, GiveUp(t), call[t].op = "insert",
         pc[t] \in {"exchange", "search_again"}
  PROVE  Inv'
<1>0. /\ Base /\ TypeOK /\ Graph /\ Control(t) /\ t \in Nodes /\ 0 \in Levels
  BY Names, LevelsAre DEF Inv, Base, Graph
<1>1. /\ TypeOK' /\ cell' = cell /\ Unpinned(t)
      /\ \/ /\ info[t].place # "linked" /\ info' = [info EXCEPT ![t].place = "freed"]
            /\ Moves(t, "search", FromTop(0), NoEnts, Null, call[t])
         \/ UNCHANGED <<list, pc, local, call>>
  BY <1>0, GiveUpIs
<1>2. CASE /\ info[t].place # "linked" /\ info' = [info EXCEPT ![t].place = "freed"]
           /\ Moves(t, "search", FromTop(0), NoEnts, Null, call[t])
  <2>1. /\ info'[t].key = info[t].key /\ info'[t].height = info[t].height
        /\ info'[t].linking = info[t].linking /\ info'[t].deleted = info[t].deleted
        /\ info'[t].place = "freed" /\ \A n \in Nodes : n # t => info'[n] = info[n]
    <3>1. info' = [info EXCEPT ![t] = [info[t] EXCEPT !.place = "freed"]] /\ info[t] \in InfoRec
      BY <1>0, <1>2, NodesTyped
    <3>2. info'[t] = [info[t] EXCEPT !.place = "freed"] /\ \A n \in Nodes : n # t => info'[n] = info[n]
      BY <1>0, <3>1 DEF TypeOK
    <3> QED BY <3>1, <3>2 DEF InfoRec
  <2>2. /\ pc'[t] = "search" /\ walk'[t] = FromTop(0) /\ ents'[t] = NoEnts /\ node'[t] = Null
        /\ call'[t] = call[t] /\ Others(t)
    BY <1>2 DEF Moves, Own
  <2>3. info[t].linking /\ \A l \in Levels : ~ents[t][l].ok /\ ~NoEnts[l].ok
    BY <1>0, <1>2, Walks DEF Control, InserterOk, Linking
  <2>4. \A l \in Levels : t \notin Was(l) /\ t \notin Was(l)'
    BY <2>1, <2>2, <2>3 DEF Was
  <2>5. \A l \in Levels : \A n \in Was(l) : info'[n] = info[n]
    <3>1. \A l \in Levels : \A n \in Was(l) : n \in Nodes
      BY DEF Was
    <3> QED BY <2>1, <2>4, <3>1
  <2>6. SameLevels
    <3>1. FlagsKept(t)
      BY <2>2 DEF FlagsKept
    <3>2. info[t].place \notin {"linked", "cut"}
      BY <1>0, <2>3 DEF Control, InserterOk, Linking
    <3>3. \A n \in Nodes : InList(n)' <=> InList(n)
      BY <2>1, <3>2 DEF InList
    <3> QED BY <1>0, <2>1, <2>2, <2>4, <3>1, <3>3, LevelsStay
  <2>7. LinksKept /\ MarksNext /\ NodesKept /\ HeadKept
    BY <1>0, <1>1, <2>5 DEF LinksKept, MarksNext, NodesKept, Graph, Marks, HeadKept
  <2>8. NamesKept(t)
    BY <1>0, <1>1, <2>1, <2>5, Names DEF NamesKept
  <2>9. Placed'
    <3>1. Was(0)' = Was(0)
      BY <1>0, <2>6 DEF SameLevels
    <3> QED BY <1>0, <2>1, <3>1 DEF Base, Placed
  <2>10. Control(t)'
    <3>1. RestOk(t)'
      BY <1>0, <2>1, <2>2, <2>3 DEF RestOk, Linking
    <3>2. SearchOk(t)'
      BY <2>2, Walks, Names, LevelsAre DEF SearchOk
    <3> QED BY <1>0, <2>2, <3>1, <3>2 DEF Control, OpAt, InserterOk, RemoverOk, Linking, Ops
  <2>11. OwnRemoval(t)
    BY <2>2 DEF OwnRemoval, Active
  <2>12. OwnRegion(t)
    <3>1. Own(t, "search", FromTop(0), NoEnts, Null, call[t])
      BY <1>2 DEF Moves
    <3>2. \A Q \in [Levels -> SUBSET Nodes] : Holds(t, Q)'
      BY <1>0, <3>1, FromTopHolds
    <3> QED BY <3>2 DEF OwnRegion
  <2> QED
    BY <1>1, <2>2, <2>6, <2>7, <2>8, <2>9, <2>10, <2>11, <2>12, WriterStep
<1> QED
  BY <1>1, <1>2, Stutters

\* After an attempt at a level the insertion is as it should be again.
LEMMA AfterControl ==
  ASSUME Setting, Base, NEW t \in Threads, pc[t] = "exchange", call[t].op = "insert",
         NEW es \in [Levels -> EntRec], NEW done \in BOOLEAN, After(t, walk[t].level, es),
         \A i \in Levels : es[i].ok <=> (ents[t][i].ok \/ (i = walk[t].level /\ done)),
         info'[t].key = info[t].key, info'[t].height = info[t].height, info'[t].linking = info[t].linking,
         info'[t].place = IF es[0].ok THEN "linked" ELSE "own"
  PROVE  /\ Control(t)' /\ Others(t) /\ call'[t] = call[t] /\ ents'[t] = es /\ node'[t] = node[t]
         /\ pc'[t] \in {"link", "search_again", "unset"}
<1> DEFINE l == walk[t].level
<1>0. /\ TypeOK /\ Control(t) /\ t \in Nodes /\ l \in Levels /\ walk[t] \in WalkRec
      /\ 0 \in Levels /\ \A i \in Levels : i \in {0, 1}
  BY Names, LevelsAre, Typed DEF Base, TypeOK
<1>1. /\ node[t] = t /\ info[t].linking /\ info[t].key = call[t].key /\ info[t].height > 0
      /\ \A i \in Levels : ents[t][i].ok => i < info[t].height /\ ents[t][0].ok
      /\ l < info[t].height /\ walk[t].found = Null
      /\ \A i \in Levels : i < l => ents[t][i].ok
  BY <1>0 DEF Control, InserterOk, Linking
<1>2. \A i \in Levels : es[i].ok => i < info[t].height /\ es[0].ok
  <2>1. es[l].ok => es[0].ok
    BY <1>0, <1>1
  <2> QED BY <1>0, <1>1, <2>1
<1>3. Undone(es, t) = {i \in Levels : i < info[t].height /\ ~es[i].ok}
  BY <1>0, UndoneLevels
<1>4. call[t].key \in Keys
  BY <1>0 DEF Control
<1>h. info[t].height \in Nat
  BY <1>0, NodesTyped
<1>5. ASSUME NEW m \in Undone(es, t), es[0].ok, m > l,
             Moves(t, "link", [walk[t] EXCEPT !.level = m], es, node[t], call[t])
      PROVE  /\ Control(t)' /\ Others(t) /\ call'[t] = call[t] /\ ents'[t] = es /\ node'[t] = node[t]
             /\ pc'[t] = "link"
  <2> DEFINE w == [walk[t] EXCEPT !.level = m]
  <2>1. w.level = m /\ w.found = Null
    BY <1>0, <1>1, WalkFields
  <2> HIDE DEF w
  <2>2. /\ pc'[t] = "link" /\ walk'[t] = w /\ ents'[t] = es /\ node'[t] = node[t]
        /\ call'[t] = call[t] /\ Others(t)
    BY <1>5 DEF Moves, Own, w
  <2>3. \A i \in Levels : i < m => es[i].ok
    BY <1>0, <1>3, <1>5
  <2>4. InserterOk(t)'
    BY <1>1, <1>2, <1>3, <1>5, <2>1, <2>2, <2>3 DEF InserterOk
  <2>5. RestOk(t)'
    BY <1>1, <2>2 DEF RestOk, Linking
  <2> QED BY <1>4, <2>2, <2>4, <2>5 DEF Control, OpAt, SearchOk, Searching, RemoverOk
<1>6. ASSUME NEW m \in Undone(es, t), \A i \in Undone(es, t) : m <= i,
             Moves(t, "search_again", FromTop(m), es, node[t], call[t])
      PROVE  /\ Control(t)' /\ Others(t) /\ call'[t] = call[t] /\ ents'[t] = es /\ node'[t] = node[t]
             /\ pc'[t] = "search_again"
  <2>1. /\ pc'[t] = "search_again" /\ walk'[t] = FromTop(m) /\ ents'[t] = es /\ node'[t] = node[t]
        /\ call'[t] = call[t] /\ Others(t)
    BY <1>6 DEF Moves, Own
  <2>2. m \in Levels /\ m < info[t].height /\ ~es[m].ok
    BY <1>3
  <2>3. \A i \in Levels : i < m => es[i].ok
    <3>1. ASSUME NEW i \in Levels, i < m, ~es[i].ok PROVE FALSE
      <4>1. i < info[t].height
        BY <1>0, <1>h, <2>2, <3>1
      <4>2. m <= i
        BY <1>3, <1>6, <3>1, <4>1
      <4> QED BY <1>0, <2>2, <3>1, <4>2
    <3> QED BY <3>1
  <2>4. InserterOk(t)'
    BY <1>1, <1>2, <2>1, <2>2, <2>3, Walks DEF InserterOk
  <2>5. RestOk(t)'
    BY <1>1, <2>1 DEF RestOk, Linking
  <2>6. SearchOk(t)'
    BY <2>1, <2>2, Walks, Names DEF SearchOk
  <2> QED BY <1>4, <2>1, <2>4, <2>5, <2>6 DEF Control, OpAt, RemoverOk
<1>7. ASSUME Undone(es, t) = {}, Moves(t, "unset", NoWalk, es, node[t], call[t])
      PROVE  /\ Control(t)' /\ Others(t) /\ call'[t] = call[t] /\ ents'[t] = es /\ node'[t] = node[t]
             /\ pc'[t] = "unset"
  <2>1. /\ pc'[t] = "unset" /\ walk'[t] = NoWalk /\ ents'[t] = es /\ node'[t] = node[t]
        /\ call'[t] = call[t] /\ Others(t)
    BY <1>7 DEF Moves, Own
  <2>2. \A i \in Levels : i < info[t].height => es[i].ok
    BY <1>3, <1>7
  <2>3. InserterOk(t)'
    BY <1>1, <1>2, <2>1, <2>2 DEF InserterOk
  <2>4. RestOk(t)'
    BY <1>1, <2>1 DEF RestOk, Linking
  <2> QED BY <1>4, <2>1, <2>3, <2>4 DEF Control, OpAt, SearchOk, Searching, RemoverOk
<1> QED
  BY <1>5, <1>6, <1>7 DEF After

\* An insertion done with a level keeps its region, or gets the levels when it searches again.
LEMMA AfterRegion ==
  ASSUME Setting, Base, NEW t \in Threads, pc[t] = "exchange", call[t].op = "insert",
         NEW es \in [Levels -> EntRec], After(t, walk[t].level, es),
         \A i \in Levels : ~es[i].ok => es[i] = ents[t][i],
         NEW Q \in [Levels -> SUBSET Nodes], NEW R \in [Levels -> SUBSET Nodes], Holds(t, Q),
         waits' = waits => Region(t, R)',
         \A i \in Levels : Q[i] \subseteq R[i] /\ \A n \in Q[i] : info'[n].key = info[n].key,
         info'[t].height = info[t].height
  PROVE  OwnRegion(t)
<1> DEFINE l == walk[t].level
<1>0. /\ TypeOK /\ Control(t) /\ t \in Nodes /\ l \in Levels /\ walk[t] \in WalkRec /\ 0 \in Levels
      /\ node[t] = t /\ walk[t].found = Null /\ ~Searching(t)
  BY ZenonT(60), SMTT(60), Names, LevelsAre, Typed DEF Base, TypeOK, Control, InserterOk, Linking, Searching
<1>3. Undone(es, t) \subseteq Levels
  BY <1>0, UndoneLevels
<1>5. ASSUME NEW m \in Undone(es, t), waits' = waits,
             Moves(t, "link", [walk[t] EXCEPT !.level = m], es, node[t], call[t])
      PROVE  OwnRegion(t)
  <2> DEFINE w == [walk[t] EXCEPT !.level = m]
  <2>1. w.at = walk[t].at /\ w.found = Null
    BY <1>0, WalkFields
  <2> HIDE DEF w
  <2>2. /\ pc'[t] = "link" /\ walk'[t] = w /\ ents'[t] = es /\ node'[t] = t /\ call'[t] = call[t]
    BY <1>0, <1>5 DEF Moves, Own, w
  <2>3. ASSUME NEW i \in Ready(t)' PROVE EntOk(t, R, i)'
    <3>1. i \in Levels /\ es[i] = ents[t][i] /\ i \in Ready(t)
      BY <1>0, <2>2, <2>3 DEF Ready, Searching
    <3>2. EntOk(t, Q, i)
      BY <3>1 DEF Holds
    <3> QED BY <1>0, <2>1, <2>2, <3>1, <3>2 DEF EntOk
  <2>4. walk[t].at \in Nodes => walk[t].at \in R[0]
    BY <1>0 DEF Holds
  <2>5. Holds(t, R)'
    BY <1>0, <2>1, <2>2, <2>3, <2>4, Names DEF Holds, Searching
  <2> QED BY <1>5, <2>5 DEF OwnRegion
<1>6. ASSUME NEW m \in Undone(es, t), Moves(t, "search_again", FromTop(m), es, node[t], call[t])
      PROVE  OwnRegion(t)
  <2>1. Own(t, "search_again", FromTop(m), es, node[t], call[t]) /\ m \in Levels
    BY <1>3, <1>6 DEF Moves
  <2>2. \A S \in [Levels -> SUBSET Nodes] : Holds(t, S)'
    BY <2>1, FromTopHolds
  <2> QED BY <2>2 DEF OwnRegion
<1>7. ASSUME waits' = waits, Moves(t, "unset", NoWalk, es, node[t], call[t])
      PROVE  OwnRegion(t)
  <2>1. pc'[t] = "unset" /\ walk'[t] = NoWalk /\ call'[t] = call[t]
    BY <1>7 DEF Moves, Own
  <2>2. Ready(t)' = {}
    BY <2>1 DEF Ready, Searching
  <2>3. Holds(t, R)'
    BY ZenonT(60), SMTT(60), <1>0, <2>1, <2>2, Walks, Names DEF Holds, Searching
  <2> QED BY <1>7, <2>3 DEF OwnRegion
<1> QED
  BY <1>5, <1>6, <1>7 DEF After

\* The exchange fails.
LEMMA LinkRaceNext ==
  ASSUME Setting, Inv, NEW t \in Threads, LinkRace(t)
  PROVE  Inv'
<1> DEFINE l == walk[t].level
           race == cell[ents[t][l].prec][l].to
           c == [to |-> race, marked |-> FALSE]
<1>0. /\ Base /\ TypeOK /\ Graph /\ Control(t) /\ InCall(t) /\ pc[t] = "exchange" /\ call[t].op = "insert"
      /\ t \in Nodes /\ l \in Levels /\ 0 \in Levels
  BY ZenonT(60), SMTT(60), Names, LevelsAre, Typed DEF Inv, Base, Graph, LinkRace, InCall, Control, OpAt
<1>1. node[t] = t /\ ~ents[t][l].ok /\ l < info[t].height /\ info[t].linking
  BY <1>0 DEF Control, InserterOk, Linking
<1>2. PICK Q \in [Levels -> SUBSET Nodes] : Region(t, Q) /\ Holds(t, Q)
  BY <1>0 DEF Inv, Regions
<1>3. ents[t][l].prec # Null
  <2>1. l \in Ready(t)
    BY ZenonT(60), SMTT(60), <1>0, <1>1 DEF Ready
  <2> QED BY <1>2, <2>1 DEF Holds, EntOk
<1>4. \/ UNCHANGED <<list, pc, local, call>>
      \/ GiveUp(t)
      \/ /\ TypeOK' /\ Unpinned(t) /\ info' = info
         /\ CellAt(t, l, c) \/ cell' = cell
         /\ After(t, l, ents[t])
  BY ZenonT(60), SMTT(60), <1>0, <1>3, LinkRaceIs
<1>5. CASE UNCHANGED <<list, pc, local, call>>
  BY <1>5, Stutters
<1>6. CASE GiveUp(t)
  BY ZenonT(60), SMTT(60), <1>0, <1>6, GiveUpNext
<1>7. CASE /\ TypeOK' /\ Unpinned(t) /\ info' = info
           /\ CellAt(t, l, c) \/ cell' = cell
           /\ After(t, l, ents[t])
  <2>1. ents[t] \in [Levels -> EntRec]
    BY <1>0 DEF TypeOK
  <2>2. info[t].place = IF ents[t][0].ok THEN "linked" ELSE "own"
    BY ZenonT(60), SMTT(60), <1>0 DEF Control, InserterOk, Linking
  <2>3. /\ Control(t)' /\ Others(t) /\ call'[t] = call[t] /\ ents'[t] = ents[t] /\ node'[t] = node[t]
        /\ pc'[t] \in {"link", "search_again", "unset"}
    <3>1. \A i \in Levels : ents[t][i].ok <=> (ents[t][i].ok \/ (i = l /\ FALSE))
      OBVIOUS
    <3> QED BY <1>0, <1>7, <2>1, <2>2, <3>1, AfterControl
  <2>4. t \notin Was(l)
    BY <1>1 DEF Was
  <2>5. \A m \in Nodes \cup {Head}, j \in Levels : m # t \/ j # l => cell'[m][j] = cell[m][j]
    BY ZenonT(60), SMTT(60), <1>0, <1>7 DEF CellAt
  <2>6. SameLevels
    <3>1. FlagsKept(t)
      BY ZenonT(60), SMTT(60), <2>3 DEF FlagsKept
    <3>2. \A n \in Nodes : InList(n)' <=> InList(n)
      BY ZenonT(60), SMTT(60), <1>7 DEF InList
    <3>3. \A j \in Levels : t \in Was(j)' <=> t \in Was(j)
      BY <1>7, <2>3 DEF Was
    <3> QED BY <1>0, <1>7, <2>3, <3>1, <3>2, <3>3, LevelsStay
  <2>7. \A j \in Levels : \A n \in Was(j) : cell'[n][j] = cell[n][j]
    <3>1. \A j \in Levels : \A n \in Was(j) : n \in Nodes
      BY ZenonT(60), SMTT(60) DEF Was
    <3> QED BY <2>4, <2>5, <3>1
  <2>8. LinksKept /\ MarksNext /\ NodesKept
    BY ZenonT(60), SMTT(60), <1>0, <1>7, <2>7 DEF LinksKept, MarksNext, NodesKept, Graph, Marks
  <2>9. NamesKept(t)
    BY <1>7, <2>5, Names DEF NamesKept
  <2>10. HeadKept
    BY ZenonT(60), SMTT(60), <1>0, <2>5, Names DEF HeadKept
  <2>11. Placed'
    <3>1. Was(0)' = Was(0)
      BY <1>0, <2>6 DEF SameLevels
    <3> QED BY <1>0, <1>7, <3>1 DEF Base, Placed
  <2>12. OwnRemoval(t)
    BY ZenonT(60), SMTT(60), <1>0, <2>3 DEF OwnRemoval, Active
  <2>13. OwnRegion(t)
    <3>1. waits' = waits => Region(t, Q)'
      <4>1. waits' = waits => \A n \in Was(0) : Safe(t, n) => Safe(t, n)'
        BY <1>7 DEF Safe
      <4> QED BY ZenonT(60), SMTT(60), <1>0, <1>2, <2>3, <2>6, <2>8, <4>1, RegionStays
    <3>2. \A i \in Levels : ~ents[t][i].ok => ents[t][i] = ents[t][i]
      BY ZenonT(60), SMTT(60)
    <3>3. \A i \in Levels : Q[i] \subseteq Q[i] /\ \A n \in Q[i] : info'[n].key = info[n].key
      BY <1>7
    <3> QED BY <1>0, <1>2, <1>7, <2>1, <3>1, <3>2, <3>3, AfterRegion
  <2> QED
    BY <1>0, <1>7, <2>3, <2>6, <2>8, <2>9, <2>10, <2>11, <2>12, <2>13, WriterStep
<1> QED
  BY ZenonT(60), SMTT(60), <1>4, <1>5, <1>6, <1>7

\* The search of a retry keeps the invariant.
LEMMA LinkSearchedNext ==
  ASSUME Setting, Inv, NEW t \in Threads, LinkSearched(t)
  PROVE  Inv'
<1>1. call[t].op = "insert" /\ pc[t] = "search_again"
  BY DEF LinkSearched
<1> QED
  BY <1>1, GiveUpNext, FoundAgainNext

\* A node of which a removal is in progress is not being linked.
LEMMA NotRemoved ==
  ASSUME Setting, Base, Removals, NEW n \in Nodes, NEW l \in Levels,
         info[n].linking \/ (\A u \in Threads : Active(u) => node[u] # n)
  PROVE  ~Off(n, l)
<1>1. SUFFICES ASSUME NEW u \in Threads, call[u].op = "remove", node[u] = n, ents[u][l].ok
               PROVE  FALSE
  BY DEF Off
<1>2. Active(u)
  BY <1>1, LastUnlinked
<1>3. ~info[n].linking
  BY <1>1, <1>2 DEF Removals, RemovalOk
<1> QED
  BY <1>1, <1>2, <1>3

\* The flag is taken away: the node is on all its levels.
LEMMA InsertUnsetNext ==
  ASSUME Setting, Inv, NEW t \in Threads, InsertUnset(t)
  PROVE  Inv'
<1>0. /\ Base /\ TypeOK /\ Graph /\ Removals /\ Control(t) /\ InCall(t) /\ pc[t] = "unset"
      /\ call[t].op = "insert" /\ t \in Nodes /\ 0 \in Levels
  BY Names, LevelsAre DEF Inv, Base, Graph, InsertUnset, InCall, Control, OpAt
<1>1. /\ TypeOK' /\ cell' = cell /\ waits' = waits /\ info' = [info EXCEPT ![t].linking = FALSE]
      /\ Moves(t, "count", walk[t], ents[t], node[t], call[t])
  BY <1>0, InsertUnsetIs
<1>2. /\ info'[t].key = info[t].key /\ info'[t].height = info[t].height /\ ~info'[t].linking
      /\ info'[t].deleted = info[t].deleted /\ info'[t].place = info[t].place
      /\ \A n \in Nodes : n # t => info'[n] = info[n]
  <2>1. info' = [info EXCEPT ![t] = [info[t] EXCEPT !.linking = FALSE]] /\ info[t] \in InfoRec
    BY <1>0, <1>1, NodesTyped
  <2>2. info'[t] = [info[t] EXCEPT !.linking = FALSE] /\ \A n \in Nodes : n # t => info'[n] = info[n]
    BY <1>0, <2>1 DEF TypeOK
  <2> QED BY <2>1, <2>2 DEF InfoRec
<1>3. /\ pc'[t] = "count" /\ walk'[t] = walk[t] /\ ents'[t] = ents[t] /\ node'[t] = node[t]
      /\ call'[t] = call[t] /\ Others(t)
  BY <1>1 DEF Moves, Own
<1>4. /\ node[t] = t /\ info[t].linking /\ info[t].height > 0
      /\ \A l \in Levels : l < info[t].height => ents[t][l].ok
      /\ ents[t][0].ok /\ info[t].place = "linked"
  BY <1>0 DEF Control, InserterOk, Linking
<1>5. \A l \in Levels : /\ t \in Was(l) <=> l < info[t].height
                        /\ t \in Was(l)' <=> l < info[t].height
  BY <1>0, <1>2, <1>3, <1>4 DEF Was
<1>6. SameLevels
  <2>1. FlagsKept(t)
    BY <1>3 DEF FlagsKept
  <2>2. \A n \in Nodes : InList(n)' <=> InList(n)
    BY <1>2 DEF InList
  <2> QED BY <1>0, <1>2, <1>3, <1>5, <2>1, <2>2, LevelsStay
<1>w. \A l \in Levels : \A n \in Was(l) : n \in Nodes
  BY DEF Was
<1>7. LinksKept /\ MarksNext /\ NodesKept /\ HeadKept
  BY <1>0, <1>1, <1>2, <1>w DEF LinksKept, MarksNext, NodesKept, Graph, Marks, HeadKept
<1>8. NamesKept(t)
  BY <1>0, <1>1, <1>2, <1>w, Names DEF NamesKept
<1>9. Placed'
  <2>1. Was(0)' = Was(0)
    BY <1>0, <1>6 DEF SameLevels
  <2> QED BY <1>0, <1>2, <2>1 DEF Base, Placed
<1>10. Control(t)'
  <2>1. RestOk(t)'
    BY <1>0, <1>2, <1>3, <1>4 DEF RestOk, Linking
  <2>2. call[t].key \in Keys
    BY <1>0 DEF Control
  <2> QED BY <1>0, <1>3, <2>1, <2>2 DEF Control, OpAt, SearchOk, Searching, InserterOk, RemoverOk, Linking
<1>11. OwnRemoval(t)
  BY <1>3 DEF OwnRemoval, Active
<1>12. OwnRegion(t)
  <2>1. PICK Q \in [Levels -> SUBSET Nodes] : Region(t, Q) /\ Holds(t, Q)
    BY <1>0 DEF Inv, Regions
  <2>2. Region(t, Q)'
    <3>1. \A n \in Was(0) : Safe(t, n) => Safe(t, n)'
      BY <1>0, <1>1, <1>2, <1>w DEF Safe
    <3> QED BY <1>0, <1>3, <1>6, <1>7, <2>1, <3>1, RegionStays
  <2>3. t \in Q[0]
    <3>1. t \in Was(0) /\ ~Off(t, 0)
      BY <1>0, <1>4, <1>5, NotRemoved
    <3>2. t \in On(0)
      BY <1>4, <3>1 DEF On
    <3> QED BY <1>0, <2>1, <3>2 DEF Region
  <2>4. Ready(t)' = {}
    BY <1>3 DEF Ready, Searching
  <2>5. Holds(t, Q)'
    BY <1>0, <1>3, <2>1, <2>3, <2>4 DEF Holds, Searching
  <2> QED BY <2>2, <2>5 DEF OwnRegion
<1>13. Unpinned(t)
  BY <1>1 DEF Unpinned
<1> QED
  BY <1>0, <1>1, <1>3, <1>6, <1>7, <1>8, <1>9, <1>10, <1>11, <1>12, <1>13, WriterStep

\* The removal of a node that was not yet flagged.
LEMMA RemoveFlagNext ==
  ASSUME Setting, Inv, NEW t \in Threads, RemoveFlag(t)
  PROVE  Inv'
<1> DEFINE n == node[t]
<1>0. /\ Base /\ TypeOK /\ Graph /\ Removals /\ Control(t) /\ InCall(t) /\ pc[t] = "flag"
      /\ call[t].op = "remove" /\ 0 \in Levels
  BY LevelsAre DEF Inv, Base, Graph, RemoveFlag, InCall, Control, OpAt
<1>q. PICK Q \in [Levels -> SUBSET Nodes] : Region(t, Q) /\ Holds(t, Q)
  BY <1>0 DEF Inv, Regions
<1>n. n \in Q[0] /\ n \in Nodes /\ n \in Was(0) /\ (\A l \in Levels : ~ents[t][l].ok) /\ walk[t].level = 0
  <2>1. n # Null /\ (\A l \in Levels : ~ents[t][l].ok) /\ walk[t].level = 0
    BY <1>0 DEF Control, RemoverOk
  <2>2. n \in Q[0]
    BY <1>0, <1>q, <2>1 DEF Holds
  <2> QED BY <1>0, <1>q, <2>1, <2>2 DEF Region
<1>1. \/ /\ TypeOK' /\ ListSame(t)
         /\ Moves(t, "done", NoWalk, NoEnts, Null, Promise!NoCall)
      \/ /\ TypeOK' /\ cell' = cell /\ waits' = waits
         /\ ~info[n].deleted /\ ~info[n].linking
         /\ info' = [info EXCEPT ![n].deleted = TRUE]
         /\ Moves(t, "mark", walk[t], ents[t], n, call[t])
  BY <1>0, <1>n, RemoveFlagIs
<1> HIDE DEF n
<1>2. CASE TypeOK' /\ ListSame(t) /\ Moves(t, "done", NoWalk, NoEnts, Null, Promise!NoCall)
  BY <1>0, <1>n, <1>2, FinishNext
<1>3. CASE /\ TypeOK' /\ cell' = cell /\ waits' = waits
           /\ ~info[n].deleted /\ ~info[n].linking
           /\ info' = [info EXCEPT ![n].deleted = TRUE]
           /\ Moves(t, "mark", walk[t], ents[t], n, call[t])
  <2>1. /\ info'[n].key = info[n].key /\ info'[n].height = info[n].height
        /\ info'[n].linking = info[n].linking /\ info'[n].deleted /\ info'[n].place = info[n].place
        /\ \A m \in Nodes : m # n => info'[m] = info[m]
    <3>1. info' = [info EXCEPT ![n] = [info[n] EXCEPT !.deleted = TRUE]] /\ info[n] \in InfoRec
      BY <1>0, <1>3, <1>n, NodesTyped
    <3>2. info'[n] = [info[n] EXCEPT !.deleted = TRUE] /\ \A m \in Nodes : m # n => info'[m] = info[m]
      BY <1>n, <3>1, <1>0 DEF TypeOK
    <3> QED BY <3>1, <3>2 DEF InfoRec
  <2>2. \A m \in Nodes : /\ info'[m].key = info[m].key /\ info'[m].height = info[m].height
                         /\ info'[m].linking = info[m].linking /\ info'[m].place = info[m].place
                         /\ info[m].deleted => info'[m].deleted
    BY <2>1
  <2>3. /\ pc'[t] = "mark" /\ walk'[t] = walk[t] /\ ents'[t] = ents[t] /\ node'[t] = node[t] /\ node'[t] = n
        /\ call'[t] = call[t] /\ Others(t)
    BY <1>3 DEF Moves, Own, n
  <2>4. SameLevels
    <3>1. FlagsKept(t)
      BY <2>3 DEF FlagsKept
    <3>2. \A m \in Nodes : InList(m)' <=> InList(m)
      BY <2>2 DEF InList
    <3>3. \A j \in Levels : t \in Was(j)' <=> t \in Was(j)
      BY <2>2, <2>3 DEF Was
    <3> QED BY <1>0, <2>2, <2>3, <3>1, <3>2, <3>3, LevelsStay
  <2>w. \A l \in Levels : \A m \in Was(l) : m \in Nodes
    BY DEF Was
  <2>5. LinksKept /\ MarksNext /\ NodesKept /\ HeadKept
    BY <1>0, <1>3, <2>2, <2>w DEF LinksKept, MarksNext, NodesKept, Graph, Marks, HeadKept
  <2>6. NamesKept(t)
    BY <1>0, <1>3, <2>2, <2>w, Names DEF NamesKept
  <2>7. Placed'
    <3>1. Was(0)' = Was(0)
      BY <1>0, <2>4 DEF SameLevels
    <3> QED BY <1>0, <2>2, <3>1 DEF Base, Placed
  <2>8. Control(t)'
    <3>1. RemoverOk(t)'
      BY <1>0, <1>n, <2>3 DEF RemoverOk, Control
    <3>2. RestOk(t)'
      BY <1>0, <2>2, <2>3, Names DEF Control, RestOk, Linking
    <3> QED BY <1>0, <2>3, <3>1, <3>2 DEF Control, OpAt, SearchOk, Searching, InserterOk
  <2>9. OwnRemoval(t)
    <3>1. info[n].place = "linked"
      <4>1. ~cell[n][0].marked
        BY <1>0, <1>3, <1>n DEF Graph, Marks
      <4>2. n \in On(0)
        BY <1>0, <1>n, <1>q, <4>1 DEF Region
      <4> QED BY <1>0, <1>n, <4>2, WritersAlone DEF On
    <3>2. RemovalOk(t)'
      <4>1. n \in Was(0)'
        BY <1>0, <1>n, <2>4 DEF SameLevels
      <4>2. \A l \in Levels : ~(l < walk[t].level)
        BY <1>n, LevelsAre
      <4>3. 0 < info[n].height
        BY <1>n DEF Was
      <4> QED BY <1>3, <1>n, <2>1, <2>3, <3>1, <4>1, <4>2, <4>3 DEF RemovalOk
    <3>3. \A u \in Threads : u # t /\ Active(u) => node[u] # n
      BY <1>0, <1>3 DEF Removals, RemovalOk
    <3> QED BY <2>3, <3>2, <3>3 DEF OwnRemoval
  <2>10. OwnRegion(t)
    <3>1. Region(t, Q)'
      <4>1. \A m \in Was(0) : Safe(t, m) => Safe(t, m)'
        BY <1>0, <1>3, <2>2, <2>w DEF Safe
      <4> QED BY <1>0, <1>q, <2>3, <2>4, <2>5, <4>1, RegionStays
    <3>2. Ready(t)' = Ready(t)
      BY <1>0, <1>n, <2>2, <2>3 DEF Ready, Searching
    <3>3. \A l \in Ready(t) : EntOk(t, Q, l)'
      <4>1. \A l \in Levels : \A m \in Q[l] : m \in Nodes
        OBVIOUS
      <4>2. Ready(t) \subseteq Levels
        BY DEF Ready
      <4>3. \A l \in Ready(t) : ents[t][l].next \in Nodes \cup {Null}
        BY <1>0, <4>2, Typed
      <4> QED BY <1>q, <2>2, <2>3, <4>1, <4>2, <4>3 DEF EntOk, Holds
    <3>4. Holds(t, Q)'
      BY <1>0, <1>q, <2>2, <2>3, <3>2, <3>3 DEF Holds, Searching
    <3> QED BY <3>1, <3>4 DEF OwnRegion
  <2>11. Unpinned(t)
    BY <1>3 DEF Unpinned
  <2> QED
    BY <1>0, <1>3, <2>3, <2>4, <2>5, <2>6, <2>7, <2>8, <2>9, <2>10, <2>11, WriterStep
<1> QED
  BY <1>1, <1>2, <1>3

\* A link of the node is marked.
LEMMA MarkNext ==
  ASSUME Setting, Inv, NEW t \in Threads, Mark(t)
  PROVE  Inv'
<1> DEFINE n == node[t]
           l == walk[t].level
           c == [to |-> cell[n][l].to, marked |-> TRUE]
<1>0. /\ Base /\ TypeOK /\ Graph /\ Removals /\ Control(t) /\ InCall(t) /\ pc[t] = "mark"
      /\ call[t].op = "remove" /\ 0 \in Levels /\ l \in Levels /\ Active(t)
  BY LevelsAre, Typed DEF Inv, Base, Graph, Mark, InCall, Control, OpAt, Active
<1>n. /\ n \in Nodes /\ n \in Was(0) /\ info[n].deleted /\ ~info[n].linking /\ info[n].place = "linked"
      /\ \A i \in Levels : i < l => cell[n][i].marked
      /\ l < info[n].height /\ \A i \in Levels : ~ents[t][i].ok
  BY <1>0 DEF Removals, RemovalOk, Was, Control, RemoverOk
<1>1. /\ TypeOK' /\ info' = info /\ waits' = waits /\ CellAt(n, l, c)
      /\ \/ /\ l + 1 < info[n].height /\ l + 1 \in Levels
            /\ Moves(t, "mark", [walk[t] EXCEPT !.level = l + 1], ents[t], n, call[t])
         \/ /\ l + 1 >= info[n].height
            /\ Moves(t, "unlink", NoWalk, ents[t], n, call[t])
  BY <1>0, <1>n, MarkIs
<1>2. /\ cell'[n][l] = c
      /\ \A m \in Nodes \cup {Head}, j \in Levels : m # n \/ j # l => cell'[m][j] = cell[m][j]
  BY <1>0, <1>n, <1>1, LinkChanged
<1> DEFINE w == [walk[t] EXCEPT !.level = l + 1]
<1>3. w.at = walk[t].at /\ w.found = walk[t].found /\ w.level = l + 1
  <2>1. walk[t] \in WalkRec
    BY <1>0 DEF TypeOK
  <2> QED BY <2>1, WalkFields
<1>c. c.to = cell[n][l].to /\ c.marked = TRUE
  OBVIOUS
<1>l. l \in {0, 1} /\ info[n].height \in Nat /\ \A i \in Levels : i \in {0, 1}
  BY <1>0, <1>n, LevelsAre, NodesTyped
<1> HIDE DEF w, c, n
<1>4. /\ ents'[t] = ents[t] /\ node'[t] = node[t] /\ node'[t] = n /\ call'[t] = call[t] /\ Others(t)
      /\ \/ pc'[t] = "mark" /\ walk'[t] = w /\ l + 1 < info[n].height
         \/ pc'[t] = "unlink" /\ walk'[t] = NoWalk /\ l + 1 >= info[n].height
  BY <1>1 DEF Moves, Own, w, n
<1>5. SameLevels
  <2>1. FlagsKept(t)
    BY <1>4 DEF FlagsKept
  <2>2. \A m \in Nodes : InList(m)' <=> InList(m)
    BY <1>1 DEF InList
  <2>3. \A j \in Levels : t \in Was(j)' <=> t \in Was(j)
    BY <1>1, <1>4 DEF Was
  <2> QED BY <1>0, <1>1, <1>4, <2>1, <2>2, <2>3, LevelsStay
<1>w. \A j \in Levels : \A m \in Was(j) : m \in Nodes
  BY DEF Was
<1>6. LinksKept
  BY <1>c, <1>2, <1>w DEF LinksKept
<1>7. MarksNext
  <2>1. \A j \in Levels : \A m \in Was(j) : cell[m][j].marked => info[m].deleted
    BY <1>0 DEF Graph, Marks
  <2> QED BY <1>1, <1>2, <1>n, <1>w, <2>1 DEF MarksNext
<1>8. NodesKept /\ HeadKept
  BY <1>0, <1>1, <1>2, <1>n, Names DEF NodesKept, HeadKept
<1>9. NamesKept(t)
  <2>1. n \in Was(l)
    BY <1>n DEF Was
  <2> QED BY <1>1, <1>2, <2>1, Names DEF NamesKept
<1>10. Placed'
  <2>1. Was(0)' = Was(0)
    BY <1>0, <1>5 DEF SameLevels
  <2> QED BY <1>0, <1>1, <2>1 DEF Base, Placed
<1>11. Control(t)'
  <2>1. RemoverOk(t)'
    BY <1>0, <1>n, <1>4 DEF RemoverOk, Control
  <2>2. RestOk(t)'
    BY <1>0, <1>1, <1>4, Names DEF Control, RestOk, Linking
  <2> QED BY <1>0, <1>4, <2>1, <2>2 DEF Control, OpAt, SearchOk, Searching, InserterOk
<1>12. OwnRemoval(t)
  <2>1. n \in Was(0)'
    BY <1>0, <1>n, <1>5 DEF SameLevels
  <2>2. \A i \in Levels : i < l + 1 => cell'[n][i].marked
    BY <1>0, <1>2, <1>c, <1>n, <1>l
  <2>3. \A i \in Levels : (IF pc'[t] = "mark" THEN i < walk'[t].level ELSE i < info[n].height)
                            => cell'[n][i].marked
    <3>1. CASE pc'[t] = "mark"
      BY <1>3, <1>4, <2>2, <3>1
    <3>2. CASE pc'[t] = "unlink"
      <4>1. \A i \in Levels : i < info[n].height => i < l + 1
        BY <1>4, <1>l, <3>2
      <4> QED BY <2>2, <3>2, <4>1
    <3> QED BY <1>4, <3>1, <3>2
  <2>4. RemovalOk(t)'
    BY <1>1, <1>3, <1>4, <1>n, <2>1, <2>3 DEF RemovalOk
  <2>5. \A u \in Threads : u # t /\ Active(u) => node[u] # n
    BY <1>0 DEF Removals, n
  <2> QED BY <1>4, <2>4, <2>5 DEF OwnRemoval
<1>13. OwnRegion(t)
  <2>q. PICK Q \in [Levels -> SUBSET Nodes] : Region(t, Q) /\ Holds(t, Q)
    BY <1>0 DEF Inv, Regions
  <2>1. Region(t, Q)'
    <3>1. \A m \in Was(0) : Safe(t, m) => Safe(t, m)'
      BY <1>1 DEF Safe
    <3> QED BY <1>0, <1>4, <1>5, <1>6, <2>q, <3>1, RegionStays
  <2>2. Ready(t)' = Ready(t)
    BY <1>0, <1>1, <1>4 DEF Ready, Searching
  <2>3. \A i \in Ready(t) : EntOk(t, Q, i)'
    BY <1>0, <1>1, <1>4, <2>q DEF EntOk, Holds
  <2>4. Holds(t, Q)'
    BY <1>0, <1>1, <1>3, <1>4, <2>q, <2>2, <2>3, Walks, Names DEF Holds, Searching
  <2> QED BY <2>1, <2>4 DEF OwnRegion
<1>14. Unpinned(t)
  BY <1>1 DEF Unpinned
<1> QED
  BY <1>0, <1>1, <1>4, <1>5, <1>6, <1>7, <1>8, <1>9, <1>10, <1>11, <1>12, <1>13, <1>14, WriterStep

\* The node gets into the garbage: it has been taken off all its levels.
LEMMA RetireNext ==
  ASSUME Setting, Inv, NEW t \in Threads, Retire(t)
  PROVE  Inv'
<1> DEFINE n == node[t]
<1>0. /\ Base /\ TypeOK /\ Graph /\ Removals /\ Control(t) /\ InCall(t) /\ pc[t] = "retire"
      /\ call[t].op = "remove" /\ 0 \in Levels /\ Active(t)
  BY LevelsAre DEF Inv, Base, Graph, Retire, InCall, Control, OpAt, Active
<1>n. /\ n \in Nodes /\ n \in Was(0) /\ info[n].deleted /\ ~info[n].linking /\ info[n].place = "linked"
      /\ \A l \in Levels : l < info[n].height => ents[t][l].ok
  BY <1>0 DEF Removals, RemovalOk, Was, Control, RemoverOk
<1>1. /\ TypeOK' /\ cell' = cell
      /\ info' = [info EXCEPT ![n].place = "garbage", ![n].deleted = TRUE]
      /\ waits' = [[m \in Nodes |-> waits[m] \ {t}] EXCEPT ![n] = {u \in Threads \ {t} : InCall(u)}]
      /\ Moves(t, "done", NoWalk, NoEnts, Null, Promise!NoCall)
  BY <1>0, <1>n, RetireIs
<1> HIDE DEF n
<1>2. /\ info'[n].key = info[n].key /\ info'[n].height = info[n].height
      /\ info'[n].linking = info[n].linking /\ info'[n].deleted /\ info'[n].place = "garbage"
      /\ \A m \in Nodes : m # n => info'[m] = info[m]
  <2>1. info' = [info EXCEPT ![n] = [info[n] EXCEPT !.place = "garbage", !.deleted = TRUE]] /\ info[n] \in InfoRec
    BY <1>0, <1>1, <1>n, NodesTyped
  <2> DEFINE i == [info[n] EXCEPT !.place = "garbage", !.deleted = TRUE]
  <2>2. info' = [info EXCEPT ![n] = i]
    BY <2>1
  <2>3. /\ i.key = info[n].key /\ i.height = info[n].height /\ i.linking = info[n].linking
        /\ i.deleted = TRUE /\ i.place = "garbage"
    BY <2>1, InfoGarbage
  <2> HIDE DEF i
  <2>4. info'[n] = i /\ \A m \in Nodes : m # n => info'[m] = info[m]
    BY <1>n, <2>2, <1>0 DEF TypeOK
  <2> QED BY <2>3, <2>4
<1>3. /\ waits'[n] = {u \in Threads \ {t} : InCall(u)}
      /\ \A m \in Nodes : m # n => waits'[m] = waits[m] \ {t}
  BY <1>1, <1>n
<1>4. /\ pc'[t] = "done" /\ ents'[t] = NoEnts /\ node'[t] = Null /\ call'[t] = Promise!NoCall /\ Others(t)
      /\ \A l \in Levels : ~NoEnts[l].ok
  BY <1>1, Walks DEF Moves, Own
<1>5. Promise!NoCall.op = "none"
  BY DEF Promise!NoCall
<1>6. \A m \in Nodes : /\ info'[m].key = info[m].key /\ info'[m].height = info[m].height
                       /\ info'[m].linking = info[m].linking
                       /\ info[m].deleted => info'[m].deleted
  BY <1>2
<1>w. \A l \in Levels : Was(l) \subseteq Nodes
  BY DEF Was
<1>7. \A l \in Levels : Was(l)' = Was(l)
  <2>1. \A m \in Nodes : info[m].linking => ents'[m] = ents[m]
    <3>1. ~info[t].linking
      BY <1>0 DEF Control, RestOk
    <3> QED BY <1>0, <1>4, <3>1 DEF Base, Placed, Others
  <2> QED BY <1>6, <2>1 DEF Was
<1>8. \A l \in Levels : On(l)' = On(l)
  <2>1. ASSUME NEW l \in Levels, NEW m \in Was(l) PROVE m \in On(l)' <=> m \in On(l)
    <3>1. CASE m = n
      <4>1. Off(n, l)
        BY <1>0, <1>n, <2>1, <3>1 DEF Off, Was, n
      <4> QED BY <1>2, <3>1, <4>1 DEF On
    <3>2. CASE m # n
      <4>1. Off(m, l)' <=> Off(m, l)
        <5>1. \A u \in Threads : (call'[u].op = "remove" /\ node'[u] = m /\ ents'[u][l].ok)
                                   <=> (call[u].op = "remove" /\ node[u] = m /\ ents[u][l].ok)
          BY <1>4, <1>5, <3>2 DEF Others, n
        <5> QED BY <5>1 DEF Off
      <4>2. info'[m] = info[m]
        BY <1>2, <1>w, <2>1, <3>2
      <4> QED BY <1>7, <2>1, <4>1, <4>2 DEF On
    <3> QED BY <3>1, <3>2
  <2>2. \A l \in Levels : On(l) \subseteq Was(l) /\ On(l)' \subseteq Was(l)'
    BY DEF On
  <2> QED BY <1>7, <2>1, <2>2
<1>9. SameLevels
  BY <1>7, <1>8 DEF SameLevels
<1>10. LinksKept /\ MarksNext
  BY <1>0, <1>1, <1>6, <1>w DEF LinksKept, MarksNext, Graph, Marks
<1>11. NamesKept(t)
  <2>1. info[n].height # 0 /\ ~info[n].linking
    BY <1>0, <1>n, NodesTyped DEF Was
  <2>2. cell' = cell /\ Was(0) \subseteq Nodes /\ Threads \subseteq Nodes
    BY <1>0, <1>1, <1>w, Names
  <2>3. \A u \in Threads : (call[u].op = "insert" /\ info[u].linking) \/ info[u].height = 0 =>
            info'[u].place = info[u].place
    BY <1>2, <2>1, <2>2
  <2> QED BY <1>6, <2>2, <2>3 DEF NamesKept
<1>12. Placed'
  BY <1>0, <1>2, <1>6, <1>7 DEF Base, Placed
<1>13. \A m \in Nodes : info'[m].place # "cut"
  BY <1>0, <1>2, WritersAlone
<1>14. Clears' /\ \A l : ~HeadCut(l) /\ ~HeadCut(l)'
  BY <1>0, <1>4, <1>5, <1>13, WriterClears
<1>15. HeadsNext
  BY <1>1, <1>14 DEF HeadsNext
<1>16. Control(t)'
  BY <1>4, <1>5 DEF Control, OpAt, SearchOk, Searching, InserterOk, RemoverOk, RestOk, Linking
<1>17. OwnRemoval(t) /\ OwnRegion(t)
  BY <1>4 DEF OwnRemoval, Active, OwnRegion, InCall
<1>18. OthersRemove(t)
  <2> SUFFICES ASSUME NEW u \in Threads, u # t, Active(u)
               PROVE  LET m == node[u] IN info'[m].place = "linked" /\ info'[m].deleted /\ ~info'[m].linking
    BY DEF OthersRemove
  <2>1. RemovalOk(u) /\ node[u] # n
    BY <1>0 DEF Removals, n
  <2>2. node[u] \in Nodes
    BY <1>w, <1>0, <2>1 DEF RemovalOk
  <2> QED BY <1>2, <2>1, <2>2 DEF RemovalOk
<1>19. OthersSafe(t)
  <2> SUFFICES ASSUME NEW u \in Threads, u # t, InCall(u), NEW m \in Was(0), Safe(u, m)
               PROVE  Safe(u, m)'
    BY DEF OthersSafe
  <2>1. m \in Nodes
    BY <1>0, <1>w
  <2>2. CASE m = n
    BY <1>2, <1>3, <2>2 DEF Safe
  <2>3. CASE m # n
    BY <1>2, <1>3, <2>1, <2>3 DEF Safe
  <2> QED BY <2>2, <2>3
<1> QED
  BY <1>1, <1>4, <1>9, <1>10, <1>11, <1>12, <1>14, <1>15, <1>16, <1>17, <1>18, <1>19, SameLevelsStep

-----------------------------------------------------------------------------
(* Clear.                                                                  *)

\* While there is a clear there are no writers: nothing is taken off a level.
LEMMA ClearAlone ==
  ASSUME Inv, NEW t \in Threads, call[t].op = "clear"
  PROVE  /\ \A u \in Threads : call[u].op \notin {"insert", "remove"} /\ ~Active(u)
         /\ \A n, l : ~Off(n, l)
         /\ \A l \in Levels : \A n \in Was(l) : n \in On(l) <=> InList(n)
<1>1. \A u \in Threads : call[u].op \notin {"insert", "remove"}
  BY DEF Inv, Clears, Apart
<1> QED
  BY <1>1 DEF Active, Off, On, InList

\* A link of the head is stored, the others stay as they are.
LEMMA ClearHeadsNext ==
  ASSUME Setting, Inv, NEW t \in Threads, ClearHeads(t)
  PROVE  Inv'
<1> DEFINE l == walk[t].level
           w == [walk[t] EXCEPT !.level = l - 1]
<1>0. /\ Base /\ TypeOK /\ Graph /\ Clears /\ Control(t) /\ InCall(t) /\ pc[t] = "heads"
      /\ call[t].op = "clear" /\ 0 \in Levels /\ walk[t] \in WalkRec
  BY LevelsAre DEF Inv, Base, Graph, ClearHeads, InCall, Control, OpAt, TypeOK
<1>1. /\ TypeOK' /\ info' = info /\ waits' = waits /\ l \in Levels /\ l - 1 \in Levels
      /\ CellAt(Head, l, NoLink)
      /\ Moves(t, "heads", w, ents[t], node[t], call[t])
  BY <1>0, ClearHeadsIs
<1>2. w.at = walk[t].at /\ w.found = walk[t].found /\ w.level = l - 1
  BY <1>0, WalkFields
<1> HIDE DEF w
<1>3. /\ pc'[t] = "heads" /\ walk'[t] = w /\ ents'[t] = ents[t] /\ node'[t] = node[t]
      /\ call'[t] = call[t] /\ Others(t)
  BY <1>1 DEF Moves, Own
<1>4. /\ cell'[Head][l] = NoLink
      /\ \A m \in Nodes \cup {Head}, j \in Levels : m # Head \/ j # l => cell'[m][j] = cell[m][j]
  BY <1>1 DEF CellAt
<1>5. \A n \in Nodes, j \in Levels : cell'[n][j] = cell[n][j]
  BY <1>4, Names
<1>6. SameLevels
  <2>1. FlagsKept(t)
    BY <1>3 DEF FlagsKept
  <2>2. \A m \in Nodes : InList(m)' <=> InList(m)
    BY <1>1 DEF InList
  <2>3. \A j \in Levels : t \in Was(j)' <=> t \in Was(j)
    BY <1>1, <1>3 DEF Was
  <2> QED BY <1>0, <1>1, <1>3, <2>1, <2>2, <2>3, LevelsStay
<1>w. \A j \in Levels : \A m \in Was(j) : m \in Nodes
  BY DEF Was
<1>7. LinksKept /\ MarksNext
  BY <1>0, <1>1, <1>5, <1>w DEF LinksKept, MarksNext, Graph, Marks
<1>8. NamesKept(t)
  BY <1>1, <1>5, Names DEF NamesKept
<1>9. HeadsNext
  <2> SUFFICES ASSUME NEW j \in Levels
               PROVE  \/ cell'[Head][j] = cell[Head][j] /\ (HeadCut(j)' <=> HeadCut(j))
                      \/ /\ cell'[Head][j].to = Null /\ ~cell'[Head][j].marked
                         /\ HeadCut(j)' \/ On(j) = {}
    BY DEF HeadsNext
  <2>1. l \in {0, 1} /\ j \in {0, 1}
    BY <1>1, LevelsAre
  <2>2. CASE j = l
    <3>1. HeadCut(j)'
      BY <1>2, <1>3, <2>1, <2>2 DEF HeadCut
    <3> QED BY <1>4, <2>2, <3>1 DEF NoLink
  <2>3. CASE j # l
    <3>1. (walk'[t].level < j) <=> (walk[t].level < j)
      BY <1>2, <1>3, <2>1, <2>3
    <3>2. \A c \in Threads : /\ pc'[c] = pc[c]
                             /\ pc[c] = "heads" => ((walk'[c].level < j) <=> (walk[c].level < j))
      BY <1>0, <1>3, <3>1 DEF Others
    <3>3. HeadCut(j)' <=> HeadCut(j)
      BY <3>2 DEF HeadCut
    <3> QED BY <1>4, <2>3, <3>3
  <2> QED BY <2>2, <2>3
<1>10. Placed'
  <2>1. Was(0)' = Was(0)
    BY <1>0, <1>6 DEF SameLevels
  <2> QED BY <1>0, <1>1, <2>1 DEF Base, Placed
<1>11. Clears'
  <2>1. On(0)' = On(0)
    BY <1>0, <1>6 DEF SameLevels
  <2>2. \A c \in Threads : call'[c] = call[c] /\ pc'[c] = pc[c] /\ (pc[c] = "collect" => walk'[c] = walk[c])
    BY <1>0, <1>3 DEF Others
  <2> QED BY <1>0, <1>1, <2>1, <2>2 DEF Clears, Apart
<1>12. Control(t)'
  <2>1. RestOk(t)'
    BY <1>0, <1>1, <1>3 DEF Control, RestOk, Linking
  <2> QED BY <1>0, <1>3, <2>1 DEF Control, OpAt, SearchOk, Searching, InserterOk, RemoverOk
<1>13. OwnRemoval(t) /\ OthersRemove(t)
  BY <1>0, <1>3, ClearAlone DEF OwnRemoval, OthersRemove, Active
<1>14. \A u \in Threads : \A n \in Was(0) : Safe(u, n) => Safe(u, n)'
  BY <1>1 DEF Safe
<1>15. OthersSafe(t)
  BY <1>14 DEF OthersSafe
<1>16. OwnRegion(t)
  <2>1. PICK Q \in [Levels -> SUBSET Nodes] : Region(t, Q) /\ Holds(t, Q)
    BY <1>0 DEF Inv, Regions
  <2>2. Region(t, Q)'
    BY <1>0, <1>3, <1>6, <1>7, <1>14, <2>1, RegionStays
  <2>3. Ready(t)' = {}
    BY <1>3 DEF Ready, Searching
  <2>4. Holds(t, Q)'
    BY <1>0, <1>2, <1>3, <2>1, <2>3 DEF Holds, Searching
  <2> QED BY <2>2, <2>4 DEF OwnRegion
<1> QED
  BY <1>1, <1>3, <1>6, <1>7, <1>8, <1>9, <1>10, <1>11, <1>12, <1>13, <1>15, <1>16, SameLevelsStep

\* The whole list is taken.
LEMMA ClearSwapNext ==
  ASSUME Setting, Inv, NEW t \in Threads, ClearSwap(t)
  PROVE  Inv'
<1> DEFINE h == cell[Head][0].to
           w == [walk[t] EXCEPT !.at = h]
<1>0. /\ Base /\ TypeOK /\ Graph /\ Clears /\ Control(t) /\ InCall(t) /\ pc[t] = "heads"
      /\ call[t].op = "clear" /\ 0 \in Levels /\ walk[t] \in WalkRec
  BY LevelsAre DEF Inv, Base, Graph, ClearSwap, InCall, Control, OpAt, TypeOK
<1>1. /\ TypeOK' /\ waits' = waits /\ walk[t].level = 0
      /\ CellAt(Head, 0, NoLink)
      /\ info' = [n \in Nodes |-> [info[n] EXCEPT !.place = IF @ = "linked" THEN "cut" ELSE @]]
      /\ Moves(t, "collect", w, ents[t], node[t], call[t])
  BY <1>0, ClearSwapIs
<1>2. w.at = h /\ w.found = walk[t].found /\ w.level = walk[t].level
  BY <1>0, WalkFields
<1> HIDE DEF w
<1>h. h \in Nodes \cup {Null} /\ (h # Null => h \in On(0))
  BY <1>0, LinksTyped, LinksLead
<1> HIDE DEF h
<1>3. /\ pc'[t] = "collect" /\ walk'[t] = w /\ ents'[t] = ents[t] /\ node'[t] = node[t]
      /\ call'[t] = call[t] /\ Others(t)
  BY <1>1 DEF Moves, Own
<1>4. /\ cell'[Head][0] = NoLink
      /\ \A m \in Nodes \cup {Head}, j \in Levels : m # Head \/ j # 0 => cell'[m][j] = cell[m][j]
  BY <1>0, <1>1 DEF CellAt
<1>5. \A n \in Nodes, j \in Levels : cell'[n][j] = cell[n][j]
  BY <1>4, Names
<1>i. \A n \in Nodes : /\ info'[n].key = info[n].key /\ info'[n].height = info[n].height
                       /\ info'[n].linking = info[n].linking /\ info'[n].deleted = info[n].deleted
                       /\ info'[n].place = IF info[n].place = "linked" THEN "cut" ELSE info[n].place
  <2> SUFFICES ASSUME NEW n \in Nodes
               PROVE  /\ info'[n].key = info[n].key /\ info'[n].height = info[n].height
                      /\ info'[n].linking = info[n].linking /\ info'[n].deleted = info[n].deleted
                      /\ info'[n].place = IF info[n].place = "linked" THEN "cut" ELSE info[n].place
    OBVIOUS
  <2>1. info'[n] = [info[n] EXCEPT !.place = IF info[n].place = "linked" THEN "cut" ELSE info[n].place]
    BY <1>1
  <2>2. info[n] \in InfoRec
    BY <1>0, NodesTyped
  <2> QED BY <2>1, <2>2 DEF InfoRec
<1>6. SameLevels
  <2>1. FlagsKept(t)
    BY <1>3 DEF FlagsKept
  <2>2. \A m \in Nodes : InList(m)' <=> InList(m)
    BY <1>i DEF InList
  <2>3. \A j \in Levels : t \in Was(j)' <=> t \in Was(j)
    BY <1>i, <1>3, Names DEF Was
  <2> QED BY <1>0, <1>i, <1>3, <2>1, <2>2, <2>3, LevelsStay
<1>w. \A j \in Levels : \A m \in Was(j) : m \in Nodes
  BY DEF Was
<1>7. LinksKept /\ MarksNext
  BY <1>0, <1>i, <1>5, <1>w DEF LinksKept, MarksNext, Graph, Marks
<1>8. NamesKept(t)
  <2>1. \A u \in Threads : (call[u].op = "insert" /\ info[u].linking) \/ info[u].height = 0 => info'[u].place = info[u].place
    <3>1. \A u \in Threads : info[u].height = 0 => info[u].place # "linked"
      <4>1. \A u \in Threads : info[u].place = "linked" => u \in Was(0)
        BY <1>0, Names DEF Base, Placed
      <4> QED BY <4>1 DEF Was
    <3> QED BY <1>0, <1>i, <3>1, ClearAlone, Names
  <2> QED BY <1>0, <1>i, <1>5, <1>w, <2>1, Names DEF NamesKept
<1>9. HeadsNext
  <2> SUFFICES ASSUME NEW j \in Levels
               PROVE  \/ cell'[Head][j] = cell[Head][j] /\ (HeadCut(j)' <=> HeadCut(j))
                      \/ /\ cell'[Head][j].to = Null /\ ~cell'[Head][j].marked
                         /\ HeadCut(j)' \/ On(j) = {}
    BY DEF HeadsNext
  <2>1. HeadCut(j)'
    BY <1>3 DEF HeadCut
  <2>2. CASE j = 0
    BY <1>4, <2>1, <2>2 DEF NoLink
  <2>3. CASE j # 0
    <3>1. j \in {0, 1}
      BY LevelsAre
    <3>2. HeadCut(j)
      BY <1>0, <1>1, <2>3, <3>1 DEF HeadCut
    <3> QED BY <1>4, <2>1, <2>3, <3>2
  <2> QED BY <2>2, <2>3
<1>10. Was(0)' = Was(0) /\ On(0)' = On(0)
  BY <1>0, <1>6 DEF SameLevels
<1>11. Placed'
  BY <1>0, <1>i, <1>10 DEF Base, Placed
<1>12. Clears'
  <2>1. \A c \in Threads : /\ call'[c] = call[c]
                           /\ c # t => pc'[c] = pc[c] /\ walk'[c] = walk[c]
    BY <1>3 DEF Others
  <2>2. Apart'
    BY <1>0, <2>1 DEF Clears, Apart
  <2>3. \A n \in Nodes : info'[n].place # "linked"
    BY <1>i
  <2>4. \A c \in Threads : pc'[c] = "collect" /\ walk'[c].at # Null => walk'[c].at \in On(0)'
    BY <1>0, <1>2, <1>3, <1>10, <1>h, <2>1 DEF Clears
  <2>5. \A n \in Was(0) : info[n].place = "linked" => h # Null /\ info[h].key <= info[n].key
    <3> SUFFICES ASSUME NEW n \in Was(0), info[n].place = "linked"
                 PROVE  h # Null /\ info[h].key <= info[n].key
      OBVIOUS
    <3>1. n \in Nodes /\ n \in On(0)
      BY <1>0, <1>w, ClearAlone DEF InList
    <3>2. ~HeadCut(0)
      <4>1. \A c \in Threads : pc[c] # "collect"
        BY <1>0, <3>1 DEF Clears
      <4>2. \A c \in Threads : ~(walk[c].level < 0)
        <5>1. \A c \in Threads : walk[c].level \in Levels
          BY <1>0, Typed
        <5>2. \A l \in Levels : ~(l < 0)
          BY LevelsAre
        <5> QED BY <5>1, <5>2
      <4> QED BY <4>1, <4>2 DEF HeadCut
    <3>3. Leads(Head, 0)
      BY <1>0, <3>2 DEF Graph, Chained
    <3> QED BY <3>1, <3>3 DEF Leads, Below, h
  <2>6. ASSUME NEW n \in Nodes, info'[n].place = "cut"
        PROVE  \E c \in Threads : /\ pc'[c] = "collect" /\ walk'[c].at # Null
                                  /\ info'[walk'[c].at].key <= info'[n].key
    <3>1. CASE info[n].place = "linked"
      <4>1. n \in Was(0)
        BY <1>0, <3>1 DEF Base, Placed
      <4>2. h # Null /\ info[h].key <= info[n].key
        BY <2>5, <3>1, <4>1
      <4>3. info'[h].key <= info'[n].key
        BY <1>i, <1>h, <4>2
      <4> QED BY <1>2, <1>3, <4>2, <4>3
    <3>2. CASE info[n].place = "cut"
      <4>1. PICK c \in Threads : /\ pc[c] = "collect" /\ walk[c].at # Null
                                 /\ info[walk[c].at].key <= info[n].key
        BY <1>0, <3>2 DEF Clears
      <4>2. walk[c].at \in Nodes
        BY <1>0, <1>w, <4>1 DEF Clears, On
      <4> QED BY <1>0, <1>i, <2>1, <4>1, <4>2
    <3> QED BY <1>i, <2>6, <3>1, <3>2
  <2>7. ASSUME NEW c \in Threads, pc'[c] = "collect", walk'[c].at # Null, c # t
        PROVE  h = Null
    <3>1. pc[c] = "collect"
      BY <2>1, <2>7
    <3> QED BY <1>0, <3>1 DEF Graph, Chained, HeadCut, h
  <2>8. \A c, d \in Threads :
         (pc'[c] = "collect" /\ walk'[c].at # Null /\ pc'[d] = "collect" /\ walk'[d].at # Null) => c = d
    <3> SUFFICES ASSUME NEW c \in Threads, NEW d \in Threads, pc'[c] = "collect", walk'[c].at # Null,
                        pc'[d] = "collect", walk'[d].at # Null, c # d
                 PROVE  FALSE
      OBVIOUS
    <3>1. CASE c # t /\ d # t
      BY <1>0, <2>1, <3>1 DEF Clears
    <3>2. CASE c = t \/ d = t
      BY <1>2, <1>3, <2>7, <3>2
    <3> QED BY <3>1, <3>2
  <2> QED BY <2>2, <2>3, <2>4, <2>6, <2>8 DEF Clears
<1>13. Control(t)'
  <2>1. RestOk(t)'
    BY <1>0, <1>i, <1>2, <1>3, <1>h, Names DEF Control, RestOk, Linking
  <2> QED BY <1>0, <1>3, <2>1 DEF Control, OpAt, SearchOk, Searching, InserterOk, RemoverOk
<1>14. OwnRemoval(t) /\ OthersRemove(t)
  BY <1>0, <1>3, ClearAlone DEF OwnRemoval, OthersRemove, Active
<1>15. \A u \in Threads : \A n \in Was(0) : Safe(u, n) => Safe(u, n)'
  BY <1>0, <1>1, <1>i, <1>w DEF Safe
<1>16. OthersSafe(t)
  BY <1>15 DEF OthersSafe
<1>17. OwnRegion(t)
  <2>1. PICK Q \in [Levels -> SUBSET Nodes] : Region(t, Q) /\ Holds(t, Q)
    BY <1>0 DEF Inv, Regions
  <2>2. Region(t, Q)'
    BY <1>0, <1>3, <1>6, <1>7, <1>15, <2>1, RegionStays
  <2>3. Ready(t)' = {}
    BY <1>3 DEF Ready, Searching
  <2>4. h # Null => h \in Q[0]
    BY <1>0, <1>h, <2>1 DEF Region
  <2>5. Holds(t, Q)'
    BY <1>0, <1>2, <1>3, <2>1, <2>3, <2>4, Names DEF Holds, Searching
  <2> QED BY <2>2, <2>5 DEF OwnRegion
<1> QED
  BY <1>1, <1>3, <1>6, <1>7, <1>8, <1>9, <1>11, <1>12, <1>13, <1>14, <1>16, <1>17, SameLevelsStep

-----------------------------------------------------------------------------
(* Steps that change the levels.                                           *)

\* A level that a step has nothing to do with.
LEMMA LevelKept ==
  ASSUME Graph, NEW l \in Levels, On(l)' = On(l), Was(l)' = Was(l), HeadCut(l)' <=> HeadCut(l),
         \A n \in Was(l) \cup {Head} : cell'[n][l] = cell[n][l],
         \A n \in Was(l) : info'[n].key = info[n].key /\ (info[n].deleted => info'[n].deleted)
  PROVE  (Ascends(l) /\ Chained(l) /\ Marks(l))'
<1>1. Ascends(l) /\ Chained(l) /\ Marks(l) /\ On(l) \subseteq Was(l) /\ \A n \in Was(l) : n # Head
  BY Names DEF Graph, On, Was
<1>2. \A n \in Was(l) \cup {Head}, m \in Was(l) : Below(n, m)' <=> Below(n, m)
  BY DEF Below
<1>3. Ascends(l)'
  BY <1>1, <1>2 DEF Ascends
<1>4. \A n \in On(l) \cup {Head} : Leads(n, l)' <=> Leads(n, l)
  <2>1. ASSUME NEW n \in On(l) \cup {Head} PROVE Leads(n, l)' <=> Leads(n, l)
    <3>1. /\ cell'[n][l].to = cell[n][l].to
          /\ \A m \in On(l) : (Below(n, m)' <=> Below(n, m)) /\ info'[m].key = info[m].key
      BY <1>1, <1>2
    <3> QED BY <3>1 DEF Leads
  <2> QED BY <2>1
<1>5. Chained(l)'
  <2>1. \A m, n \in On(l) : info'[m].key = info'[n].key => m = n
    BY <1>1 DEF Chained
  <2>2. IF HeadCut(l)' THEN cell'[Head][l].to = Null ELSE Leads(Head, l)'
    BY <1>1, <1>4 DEF Chained
  <2>3. \A n \in On(l) : Leads(n, l)'
    BY <1>1, <1>4 DEF Chained
  <2> QED BY <2>1, <2>2, <2>3 DEF Chained
<1>6. Marks(l)'
  BY <1>1 DEF Marks
<1> QED
  BY <1>3, <1>5, <1>6

\* The only place for a key on a level is behind the node that leads past it.
LEMMA OnePlace ==
  ASSUME TypeOK, NEW l \in Levels, NEW p \in On(l) \cup {Head}, Leads(p, l),
         \A m, n \in On(l) : info[m].key = info[n].key => m = n,
         NEW k \in Nat, p # Head => info[p].key < k,
         cell[p][l].to # Null => info[cell[p][l].to].key > k
  PROVE  /\ \A m \in On(l) : info[m].key # k
         /\ \A m \in On(l) : k < info[m].key => cell[p][l].to # Null /\ info[cell[p][l].to].key <= info[m].key
         /\ \A n \in On(l) \cup {Head} :
              (n # p /\ (n # Head => info[n].key < k)) => p # Head /\ Below(n, p)
<1>0. \A n \in On(l) : n \in Nodes /\ n # Head /\ info[n].key \in Nat
  BY NodesTyped, Names DEF On, Was
<1>1. \A m \in On(l) : Below(p, m) =>
        /\ cell[p][l].to # Null /\ cell[p][l].to \in On(l) /\ info[cell[p][l].to].key <= info[m].key
        /\ info[m].key > k
  <2>1. \A m \in On(l) : Below(p, m) =>
          /\ cell[p][l].to # Null /\ cell[p][l].to \in On(l) /\ info[cell[p][l].to].key <= info[m].key
    BY DEF Leads
  <2> QED BY <1>0, <2>1
<1>2. \A m \in On(l) : k <= info[m].key => Below(p, m)
  BY <1>0 DEF Below
<1>3. \A m \in On(l) : info[m].key # k
  BY <1>0, <1>1, <1>2
<1>4. \A m \in On(l) : k < info[m].key => cell[p][l].to # Null /\ info[cell[p][l].to].key <= info[m].key
  BY <1>0, <1>1, <1>2
<1>5. ASSUME NEW n \in On(l) \cup {Head}, n # p, n # Head => info[n].key < k
      PROVE  p # Head /\ Below(n, p)
  <2>1. CASE n = Head
    BY <1>5, <2>1 DEF Below
  <2>2. CASE n # Head
    <3>1. n \in On(l) /\ ~Below(p, n)
      BY <1>0, <1>1, <1>5, <2>2
    <3>2. p # Head /\ p \in On(l) /\ ~(info[p].key < info[n].key)
      BY <3>1 DEF Below
    <3>3. info[p].key # info[n].key
      BY <1>5, <3>1, <3>2
    <3> QED BY <1>0, <3>1, <3>2, <3>3 DEF Below
  <2> QED BY <2>1, <2>2
<1> QED
  BY <1>3, <1>4, <1>5

\* The new node is in its place, and the levels are as they should be.
LEMMA Inserted ==
  ASSUME Setting, Base, Base', Graph, NEW t \in Threads, NEW l \in Levels, NEW p \in On(l) \cup {Head},
         t \notin Was(l), Leads(p, l), p # Head => info[p].key < info[t].key,
         cell[p][l].to # Null => info[cell[p][l].to].key > info[t].key,
         cell[t][l] = cell[p][l], info[t].key \in Keys, ~cell[p][l].marked,
         cell'[p][l] = [to |-> t, marked |-> FALSE],
         \A m \in Nodes \cup {Head} : m # p => cell'[m][l] = cell[m][l],
         \A m \in Nodes : info'[m].key = info[m].key /\ info'[m].deleted = info[m].deleted,
         Was(l)' = Was(l) \cup {t}, On(l)' = On(l) \cup {t}, ~HeadCut(l), ~HeadCut(l)'
  PROVE  (Ascends(l) /\ Chained(l) /\ Marks(l))'
<1> DEFINE q == cell[p][l].to
           k == info[t].key
<1>0. /\ TypeOK /\ t \in Nodes /\ Was(l) \subseteq Nodes /\ On(l) \subseteq Was(l) /\ Head \notin Nodes
      /\ \A n \in Nodes : info[n].key \in Nat
  BY Names, NodesTyped DEF Base, On, Was
<1>1. Ascends(l) /\ Marks(l) /\ Leads(Head, l)
      /\ (\A n \in On(l) : Leads(n, l)) /\ \A m, n \in On(l) : info[m].key = info[n].key => m = n
  BY DEF Graph, Chained
<1>2. p # t /\ t # Head /\ p \in Nodes \cup {Head}
  BY <1>0
<1>3. cell'[p][l].to = t /\ ~cell'[p][l].marked /\ cell'[t][l].to = q /\ ~cell'[t][l].marked
  BY <1>0, <1>2
<1>q. q # Null => q \in On(l) /\ q \in Was(l) /\ q # t
  BY <1>0 DEF Leads
<1>4. /\ \A m \in On(l) : info[m].key # k
      /\ \A m \in On(l) : k < info[m].key => q # Null /\ info[q].key <= info[m].key
      /\ \A n \in On(l) \cup {Head} :
           (n # p /\ (n # Head => info[n].key < k)) => p # Head /\ Below(n, p)
  BY <1>0, <1>1, OnePlace
<1>5. \A n, m \in Nodes \cup {Head} : m \in Nodes => (Below(n, m)' <=> Below(n, m))
  BY DEF Below
<1>6. Below(p, t)
  BY DEF Below
<1>7. q # Null => Below(t, q)
  BY <1>0, <1>q DEF Below
<1> HIDE DEF q, k
<1>8. Ascends(l)'
  <2>1. ASSUME NEW n \in Was(l) \cup {t, Head}, NEW m, m = cell'[n][l].to, m # Null
        PROVE  m \in Was(l) \cup {t} /\ Below(n, m)'
    <3>1. CASE n = p
      BY <1>0, <1>2, <1>3, <1>5, <1>6, <2>1, <3>1
    <3>2. CASE n = t
      <4>1. m = q
        BY <1>3, <2>1, <3>2
      <4> QED BY <1>0, <1>5, <1>7, <1>q, <2>1, <3>2, <4>1
    <3>3. CASE n # p /\ n # t
      <4>1. n \in Was(l) \cup {Head} /\ n \in Nodes \cup {Head} /\ m = cell[n][l].to
        BY <1>0, <2>1, <3>3
      <4>2. m \in Was(l) /\ Below(n, m)
        BY <1>1, <2>1, <4>1 DEF Ascends
      <4> QED BY <1>0, <1>5, <4>1, <4>2
    <3> QED BY <3>1, <3>2, <3>3
  <2>2. \A n \in Was(l)' \cup {Head} :
          cell'[n][l].to # Null => cell'[n][l].to \in Was(l)' /\ (n = Head \/ info'[n].key < info'[cell'[n][l].to].key)
    BY <2>1 DEF Below
  <2> QED BY <2>2 DEF Ascends, Below
<1>9. ASSUME NEW n \in On(l) \cup {t, Head} PROVE Leads(n, l)'
  <2>1. CASE n = t
    <3>1. \A m \in On(l) \cup {t} : Below(t, m) => m \in On(l) /\ q # Null /\ info[q].key <= info[m].key
      BY <1>0, <1>2, <1>4 DEF Below, k
    <3> QED BY <1>0, <1>3, <1>5, <1>q, <2>1, <3>1 DEF Leads
  <2>2. CASE n = p
    <3>1. \A m \in On(l) \cup {t} : Below(p, m) => info[t].key <= info[m].key
      <4>1. ASSUME NEW m \in On(l), Below(p, m) PROVE k <= info[m].key
        <5>1. q # Null /\ info[q].key <= info[m].key
          BY <4>1 DEF Leads, q
        <5>2. k < info[q].key
          BY <1>0, <1>q, <5>1 DEF k, q
        <5> QED BY <1>0, <1>q, <5>1, <5>2 DEF k
      <4> QED BY <1>0, <4>1 DEF k
    <3>2. cell'[n][l].to = t /\ t # Null
      BY <1>0, <1>3, <2>2, Names
    <3>3. \A m \in On(l) \cup {t} : (Below(n, m)' <=> Below(n, m)) /\ info'[m].key = info[m].key
      BY <1>0, <1>2, <1>5, <2>2
    <3> QED BY <1>0, <2>2, <3>1, <3>2, <3>3 DEF Leads
  <2>3. CASE n # p /\ n # t
    <3>0. n \in On(l) \cup {Head} /\ n \in Nodes \cup {Head} /\ cell'[n][l].to = cell[n][l].to /\ Leads(n, l)
      BY <1>0, <1>1, <2>3
    <3> DEFINE r == cell[n][l].to
    <3>1. Below(n, t) => r # Null /\ info[r].key <= info[t].key
      <4>1. SUFFICES ASSUME Below(n, t) PROVE r # Null /\ info[r].key <= info[t].key
        OBVIOUS
      <4>2. p # Head /\ Below(n, p)
        BY <1>4, <2>3, <3>0, <4>1 DEF Below, k
      <4>3. r # Null /\ r \in On(l) /\ info[r].key <= info[p].key
        BY <3>0, <4>2 DEF Leads
      <4> QED BY <1>0, <1>2, <4>2, <4>3
    <3>2. \A m \in On(l) \cup {t} : Below(n, m) => r # Null /\ info[r].key <= info[m].key
      BY <3>0, <3>1 DEF Leads
    <3>3. r # Null => r \in On(l) /\ r \in Nodes
      BY <1>0, <3>0 DEF Leads
    <3> HIDE DEF r
    <3>4. cell'[n][l].to = r
      BY <3>0 DEF r
    <3>5. \A m \in On(l) \cup {t} : (Below(n, m)' <=> Below(n, m)) /\ info'[m].key = info[m].key
      BY <1>0, <1>5, <3>0
    <3> QED BY <1>0, <3>2, <3>3, <3>4, <3>5 DEF Leads
  <2> QED BY <2>1, <2>2, <2>3
<1>10. \A m, n \in On(l) \cup {t} : info'[m].key = info'[n].key => m = n
  BY <1>0, <1>1, <1>4 DEF k
<1>11. Chained(l)'
  BY <1>9, <1>10 DEF Chained
<1>12. Marks(l)'
  <2>1. ~cell'[Head][l].marked
    BY <1>0, <1>1, <1>3 DEF Marks
  <2>2. \A n \in Was(l) : info[n].key \in Keys /\ (cell[n][l].marked => info[n].deleted)
    BY <1>1 DEF Marks
  <2>3. \A n \in Was(l) \cup {t} : info'[n].key \in Keys /\ (cell'[n][l].marked => info'[n].deleted)
    BY ZenonT(60), SMTT(60), <1>0, <1>3, <2>2
  <2> QED BY <2>1, <2>3 DEF Marks
<1> QED
  BY <1>8, <1>11, <1>12

\* What the exchange finds: the place of the node, next to a node on the level.
LEMMA LinkPlace ==
  ASSUME Setting, Inv, NEW t \in Threads, pc[t] = "exchange", NEW Q \in [Levels -> SUBSET Nodes],
         Region(t, Q), Holds(t, Q)
  PROVE  LET l == walk[t].level  e == ents[t][l] IN
         /\ l \in Levels /\ e.prec # Null /\ ~e.ok /\ call[t].op = "insert"
         /\ node[t] = t /\ info[t].linking /\ info[t].key \in Keys /\ l < info[t].height
         /\ \A i \in Levels : i < l => ents[t][i].ok
         /\ \A i \in Levels : ents[t][i].ok => info[t].place = "linked"
         /\ info[t].place = IF ents[t][0].ok THEN "linked" ELSE "own"
         /\ \A j \in Levels : ~Off(t, j)
         /\ (cell[e.prec][l] = [to |-> e.next, marked |-> FALSE]) =>
              /\ e.prec \in On(l) \cup {Head} /\ Leads(e.prec, l) /\ cell[t][l] = cell[e.prec][l]
              /\ e.prec # Head => info[e.prec].key < info[t].key
              /\ e.next # Null => info[e.next].key > info[t].key
<1> DEFINE l == walk[t].level
           e == ents[t][l]
<1>0. /\ Base /\ TypeOK /\ Graph /\ Removals /\ Control(t) /\ t \in Nodes /\ l \in Levels /\ 0 \in Levels
  BY Names, LevelsAre, Typed DEF Inv, Base, Graph
<1>1. call[t].op = "insert"
  BY <1>0 DEF Control, OpAt
<1>2. /\ node[t] = t /\ info[t].linking /\ info[t].key = call[t].key /\ l < info[t].height /\ ~e.ok
      /\ walk[t].found = Null /\ cell[t][l] = [to |-> e.next, marked |-> FALSE]
      /\ \A i \in Levels : ents[t][i].ok => ents[t][0].ok
      /\ \A i \in Levels : i < l => ents[t][i].ok
      /\ info[t].place = IF ents[t][0].ok THEN "linked" ELSE "own"
  BY <1>0, <1>1 DEF Control, InserterOk, Linking
<1>3. info[t].key \in Keys
  BY <1>0, <1>1, <1>2 DEF Control
<1>4. \A j \in Levels : ~Off(t, j)
  BY <1>0, <1>2, NotRemoved
<1>5. EntOk(t, Q, l)
  <2>1. l \in Ready(t)
    BY <1>0, <1>2 DEF Ready
  <2> QED BY <2>1 DEF Holds
<1> HIDE DEF l
<1>6. /\ e.prec # Null
      /\ e.prec # Head => e.prec \in Q[l] /\ info[e.prec].key < info[t].key
      /\ e.next # Null => info[e.next].key > info[t].key
  BY <1>1, <1>2, <1>5 DEF EntOk
<1>7. ASSUME cell[e.prec][l] = [to |-> e.next, marked |-> FALSE]
      PROVE  e.prec \in On(l) \cup {Head} /\ Leads(e.prec, l)
  <2>1. ~cell[e.prec][l].marked
    BY <1>7
  <2>2. e.prec \in On(l) \cup {Head}
    BY <1>0, <1>1, <1>6, <2>1 DEF Region
  <2>3. ~HeadCut(l)
    BY ZenonT(60), SMTT(60), <1>1, WritersAlone
  <2> QED BY <1>0, <2>2, <2>3 DEF Graph, Chained
<1> QED
  BY <1>0, <1>1, <1>2, <1>3, <1>4, <1>6, <1>7 DEF l

\* The node is linked on a level.
LEMMA LinkNext ==
  ASSUME Setting, Inv, NEW t \in Threads, Link(t)
  PROVE  Inv'
<1> SUFFICES ASSUME NEW l, NEW p, NEW q,
                    l = walk[t].level, p = ents[t][l].prec, q = ents[t][l].next
             PROVE  Inv'
  BY ZenonT(60), SMTT(60)
<1> DEFINE es == [ents[t] EXCEPT ![l].ok = TRUE]
           c == [to |-> t, marked |-> FALSE]
<1>0. /\ Base /\ TypeOK /\ Graph /\ Removals /\ Control(t) /\ InCall(t) /\ pc[t] = "exchange" /\ t \in Nodes
      /\ 0 \in Levels /\ l \in Levels /\ \A i \in Levels : i \in {0, 1}
  BY ZenonT(60), SMTT(60), Names, LevelsAre, Typed DEF Inv, Base, Graph, Link, InCall
<1>1. PICK Q \in [Levels -> SUBSET Nodes] : Region(t, Q) /\ Holds(t, Q)
  BY <1>0 DEF Inv, Regions
<1>2. /\ p # Null /\ ~ents[t][l].ok /\ call[t].op = "insert"
      /\ node[t] = t /\ info[t].linking /\ info[t].key \in Keys /\ l < info[t].height
      /\ \A i \in Levels : i < l => ents[t][i].ok
      /\ \A i \in Levels : ents[t][i].ok => info[t].place = "linked"
      /\ info[t].place = IF ents[t][0].ok THEN "linked" ELSE "own"
      /\ \A j \in Levels : ~Off(t, j)
      /\ (cell[p][l] = [to |-> q, marked |-> FALSE]) =>
           /\ p \in On(l) \cup {Head} /\ Leads(p, l) /\ cell[t][l] = cell[p][l]
           /\ p # Head => info[p].key < info[t].key
           /\ q # Null => info[q].key > info[t].key
  BY ZenonT(60), SMTT(60), <1>0, <1>1, LinkPlace
<1>r. 0 < info[t].height /\ (l # 0 => ents[t][0].ok)
  <2>1. l # 0 => 0 < l
    BY SMTT(60), <1>0
  <2>2. 0 < info[t].height
    BY ZenonT(60), SMTT(60), <1>0, <1>2, HasBottom
  <2> QED BY <1>0, <1>2, <2>1, <2>2
<1>3. /\ TypeOK' /\ Unpinned(t) /\ cell[p][l] = [to |-> q, marked |-> FALSE]
      /\ CellAt(p, l, c) /\ info' = [info EXCEPT ![t].place = "linked"]
      /\ es \in [Levels -> EntRec] /\ After(t, l, es)
  BY ZenonT(60), SMTT(60), <1>0, <1>2, LinkIs
<1>4. /\ p \in On(l) \cup {Head} /\ Leads(p, l) /\ cell[t][l] = cell[p][l]
      /\ p # Head => info[p].key < info[t].key
      /\ q # Null => info[q].key > info[t].key
      /\ cell[p][l].to = q /\ ~cell[p][l].marked
  <2>1. cell[p][l] = [to |-> q, marked |-> FALSE]
    BY <1>3
  <2>2. cell[p][l].to = q /\ ~cell[p][l].marked
    BY SMTT(60), <2>1
  <2> QED BY ZenonT(60), SMTT(60), <1>2, <2>1, <2>2
<1>5. /\ cell'[p][l] = c
      /\ \A m \in Nodes \cup {Head}, j \in Levels : m # p \/ j # l => cell'[m][j] = cell[m][j]
  <2>1. p \in Nodes \cup {Head}
    BY ZenonT(60), SMTT(60), <1>4 DEF On, Was
  <2> QED BY ZenonT(60), SMTT(60), <1>0, <1>3, <2>1, LinkChanged
<1>6. \A i \in Levels : /\ es[i].ok <=> (ents[t][i].ok \/ i = l)
                        /\ ~es[i].ok => es[i] = ents[t][i]
  <2>1. ents[t] \in [Levels -> EntRec] /\ \A i \in Levels : ents[t][i] \in EntRec
    BY <1>0 DEF TypeOK
  <2>2. \A i \in Levels : i # l => es[i] = ents[t][i]
    BY <2>1
  <2>3. es[l].ok
    <3>1. es[l] = [ents[t][l] EXCEPT !.ok = TRUE]
      BY <1>0, <2>1
    <3> QED BY <1>0, <2>1, <3>1 DEF EntRec
  <2> QED BY <1>2, <2>2, <2>3
<1>i. /\ \A n \in Nodes : /\ info'[n].key = info[n].key /\ info'[n].height = info[n].height
                          /\ info'[n].linking = info[n].linking /\ info'[n].deleted = info[n].deleted
                          /\ n # t => info'[n] = info[n]
      /\ info'[t].place = "linked"
  <2>1. info[t] \in InfoRec
    BY ZenonT(60), SMTT(60), <1>0, NodesTyped
  <2>2. info'[t] = [info[t] EXCEPT !.place = "linked"] /\ \A n \in Nodes : n # t => info'[n] = info[n]
    BY <1>0, <1>3 DEF TypeOK
  <2> QED BY <2>1, <2>2 DEF InfoRec
<1> HIDE DEF es
<1>7. /\ Control(t)' /\ Others(t) /\ call'[t] = call[t] /\ ents'[t] = es /\ node'[t] = node[t]
      /\ pc'[t] \in {"link", "search_again", "unset"}
  <2>1. \A i \in Levels : es[i].ok <=> (ents[t][i].ok \/ (i = l /\ TRUE))
    BY <1>6
  <2>2. info'[t].place = IF es[0].ok THEN "linked" ELSE "own"
    <3>1. es[0].ok
      BY SMTT(60), <1>0, <1>2, <1>6
    <3> QED BY ZenonT(60), SMTT(60), <3>1, <1>i
  <2>3. After(t, walk[t].level, es) /\ es \in [Levels -> EntRec] /\ TRUE \in BOOLEAN
    BY <1>3
  <2>4. \A i \in Levels : es[i].ok <=> (ents[t][i].ok \/ (i = walk[t].level /\ TRUE))
    BY <2>1
  <2>5. info'[t].key = info[t].key /\ info'[t].height = info[t].height /\ info'[t].linking = info[t].linking
    BY ZenonT(60), SMTT(60), <1>0, <1>i
  <2>6. pc[t] = "exchange" /\ call[t].op = "insert" /\ Base
    BY <1>0, <1>2
  <2> QED BY <2>2, <2>3, <2>4, <2>5, <2>6, AfterControl
<1> HIDE DEF c
<1>8. \A j \in Levels : Was(j)' = IF j = l THEN Was(j) \cup {t} ELSE Was(j)
  <2>1. \A n \in Nodes, j \in Levels : n # t => (n \in Was(j)' <=> n \in Was(j))
    <3> SUFFICES ASSUME NEW n \in Nodes, NEW j \in Levels, n # t PROVE n \in Was(j)' <=> n \in Was(j)
      OBVIOUS
    <3>1. info[n].linking => n \in Threads /\ ents'[n] = ents[n]
      BY ZenonT(60), SMTT(60), <1>0, <1>7 DEF Base, Placed, Others
    <3> QED BY <1>i, <3>1 DEF Was
  <2>2. \A j \in Levels : t \in Was(j)' <=> (t \in Was(j) \/ j = l)
    BY <1>0, <1>i, <1>2, <1>6, <1>7 DEF Was
  <2>3. ASSUME NEW j \in Levels PROVE Was(j)' = IF j = l THEN Was(j) \cup {t} ELSE Was(j)
    <3>1. Was(j) \subseteq Nodes /\ Was(j)' \subseteq Nodes
      BY DEF Was
    <3>2. \A n : n \in Was(j)' <=> (n \in Was(j) \/ (n = t /\ j = l))
      BY ZenonT(60), SMTT(60), <1>0, <2>1, <2>2, <3>1
    <3> QED BY <3>2
  <2> QED BY <2>3
<1>9. \A n \in Nodes, j \in Levels : Off(n, j)' <=> Off(n, j)
  BY <1>2, <1>7 DEF Off, Others
<1>10. \A j \in Levels : On(j)' = IF j = l THEN On(j) \cup {t} ELSE On(j)
  <2>1. \A n \in Nodes, j \in Levels : n # t => (n \in On(j)' <=> n \in On(j))
    BY ZenonT(60), SMTT(60), <1>8, <1>9, <1>i DEF On
  <2>2. \A j \in Levels : t \in On(j)' <=> (t \in On(j) \/ j = l)
    <3> SUFFICES ASSUME NEW j \in Levels PROVE t \in On(j)' <=> (t \in On(j) \/ j = l)
      BY ZenonT(60), SMTT(60)
    <3>1. ~Off(t, j) /\ ~Off(t, j)'
      BY <1>0, <1>2, <1>9
    <3>2. t \in Was(j)' <=> (t \in Was(j) \/ j = l)
      BY ZenonT(60), SMTT(60), <1>8
    <3>3. t \in Was(j) => info[t].place = "linked"
      BY <1>2 DEF Was
    <3> QED BY <1>0, <1>2, <1>i, <3>1, <3>2, <3>3 DEF On
  <2>3. ASSUME NEW j \in Levels PROVE On(j)' = IF j = l THEN On(j) \cup {t} ELSE On(j)
    <3>1. On(j) \subseteq Nodes /\ On(j)' \subseteq Nodes
      BY ZenonT(60), SMTT(60) DEF On, Was
    <3>2. \A n : n \in On(j)' <=> (n \in On(j) \/ (n = t /\ j = l))
      BY <1>0, <2>1, <2>2, <3>1
    <3> QED BY <3>2
  <2> QED BY <2>3
<1>11. t \notin Was(l) /\ t \notin On(l)
  BY ZenonT(60), SMTT(60), <1>2 DEF Was, On
<1>w. /\ \A j \in Levels : Was(j) \subseteq Nodes /\ On(j) \subseteq Was(j) /\ Was(j) \subseteq Was(0) /\ On(j) \subseteq On(0)
      /\ p \in Nodes \cup {Head} /\ Head \notin Nodes
  BY ZenonT(60), SMTT(60), <1>0, <1>4, Nested, Names DEF On, Was
<1>12. Clears' /\ \A j : ~HeadCut(j) /\ ~HeadCut(j)'
  <2>1. \A n \in Nodes : info'[n].place # "cut"
    BY <1>2, <1>i, WritersAlone
  <2> QED BY ZenonT(60), SMTT(60), <1>2, <1>7, <2>1, WriterClears
<1>13. Placed'
  <2>1. \A n \in Was(0) : n \in Was(0)'
    BY <1>0, <1>8
  <2>2. t \in Was(0)'
    <3>1. t \in Was(l)'
      BY <1>0, <1>8
    <3>2. l # 0 => t \in Was(0)
      BY <1>0, <1>r DEF Was
    <3> QED BY <3>1, <3>2, <2>1
  <2>3. \A n \in Nodes : n # t => info'[n] = info[n]
    BY <1>i
  <2> QED BY <1>0, <1>i, <2>1, <2>2, <2>3 DEF Base, Placed
<1>14. NamesKept(t)
  <2>1. \A u \in Threads, j \in Levels : u # t /\ u \notin Was(j) => cell'[u][j] = cell[u][j]
    <3>1. p # Head => p \in Was(l)
      BY <1>4, <1>w, <1>0
    <3> QED BY ZenonT(60), SMTT(60), <1>5, <1>w, <3>1, Names
  <2> QED BY <1>0, <1>i, <1>w, <2>1, Names DEF NamesKept
<1>15. MarksKept
  <2> SUFFICES ASSUME NEW j \in Levels, NEW n \in Was(j), cell[n][j].marked PROVE cell'[n][j].marked
    BY ZenonT(60), SMTT(60) DEF MarksKept
  <2>1. ~(n = p /\ j = l)
    BY ZenonT(60), SMTT(60), <1>4
  <2> QED BY <1>5, <1>w, <2>1
<1>16. Base'
  <2>1. \A u \in Threads : Control(u)'
    BY <1>0, <1>7, <1>14, OthersControl
  <2> QED BY <1>3, <1>13, <2>1 DEF Base
<1>17. Graph'
  <2>1. (Ascends(l) /\ Chained(l) /\ Marks(l))'
    <3>1. \A m \in Nodes \cup {Head} : m # p => cell'[m][l] = cell[m][l]
      BY <1>0, <1>5
    <3>2. Was(l)' = Was(l) \cup {t} /\ On(l)' = On(l) \cup {t}
      BY <1>0, <1>8, <1>10
    <3>3. cell'[p][l] = [to |-> t, marked |-> FALSE]
      BY <1>5 DEF c
    <3>4. cell[p][l].to # Null => info[cell[p][l].to].key > info[t].key
      BY <1>4
    <3>5. \A m \in Nodes : info'[m].key = info[m].key /\ info'[m].deleted = info[m].deleted
      BY ZenonT(60), SMTT(60), <1>i
    <3>6. /\ Base /\ Base' /\ Graph /\ t \notin Was(l) /\ Leads(p, l) /\ cell[t][l] = cell[p][l]
          /\ info[t].key \in Keys /\ ~HeadCut(l) /\ ~HeadCut(l)'
      BY ZenonT(60), SMTT(60), <1>0, <1>2, <1>4, <1>11, <1>12, <1>16 DEF Was
    <3>7. p \in On(l) \cup {Head} /\ (p # Head => info[p].key < info[t].key) /\ ~cell[p][l].marked
      BY <1>4
    <3> QED BY ZenonT(60), SMTT(60), <1>0, <3>1, <3>2, <3>3, <3>4, <3>5, <3>6, <3>7, Inserted
  <2>2. ASSUME NEW j \in Levels, j # l PROVE (Ascends(j) /\ Chained(j) /\ Marks(j))'
    <3>1. On(j)' = On(j) /\ Was(j)' = Was(j) /\ (HeadCut(j)' <=> HeadCut(j))
      BY <1>8, <1>10, <1>12, <2>2
    <3>2. \A n \in Was(j) \cup {Head} : cell'[n][j] = cell[n][j]
      BY <1>5, <1>w, <2>2
    <3>3. \A n \in Was(j) : info'[n].key = info[n].key /\ (info[n].deleted => info'[n].deleted)
      BY <1>i, <1>w
    <3> QED BY <1>0, <3>1, <3>2, <3>3, LevelKept
  <2> QED BY ZenonT(60), SMTT(60), <1>13, <2>1, <2>2 DEF Graph
<1>18. ASSUME NEW u \in Threads, NEW S \in [Levels -> SUBSET Nodes], Region(u, S), u # t \/ waits' = waits
       PROVE  Region(u, [S EXCEPT ![l] = @ \cup {t}])'
  <2> DEFINE R == [S EXCEPT ![l] = @ \cup {t}]
  <2>0. \A j \in Levels : R[j] = IF j = l THEN S[j] \cup {t} ELSE S[j]
    OBVIOUS
  <2> HIDE DEF R
  <2>1. \A j \in Levels : /\ On(j) \subseteq S[j] /\ S[j] \subseteq Was(j) /\ S[j] \subseteq S[0]
                          /\ \A n \in S[j] : cell[n][j].to # Null => cell[n][j].to \in S[j]
    BY <1>18 DEF Region
  <2>2. l # 0 => t \in S[0]
    <3>1. l # 0 => t \in Was(0)' /\ t \in Was(0)
      BY ZenonT(60), SMTT(60), <1>0, <1>8, <1>r DEF Was
    <3>2. l # 0 => t \in On(0)
      BY <1>0, <1>2, <3>1 DEF On, Was
    <3> QED BY <1>0, <2>1, <3>2
  <2>3. \A j \in Levels : On(j)' \subseteq R[j] /\ R[j] \subseteq Was(j)' /\ R[j] \subseteq R[0]
    <3> SUFFICES ASSUME NEW j \in Levels
                 PROVE  On(j)' \subseteq R[j] /\ R[j] \subseteq Was(j)' /\ R[j] \subseteq R[0]
      OBVIOUS
    <3>1. On(j) \subseteq S[j] /\ S[j] \subseteq Was(j) /\ S[j] \subseteq S[0]
      BY <2>1
    <3>2. S[0] \subseteq R[0]
      BY <1>0, <2>0
    <3>3. CASE j = l
      <4>1. On(j)' = On(j) \cup {t} /\ Was(j)' = Was(j) \cup {t} /\ R[j] = S[j] \cup {t}
        BY <1>8, <1>10, <2>0, <3>3
      <4>2. t \in R[0]
        BY <1>0, <2>0, <2>2, <3>2, <3>3
      <4> QED BY <3>1, <3>2, <4>1, <4>2
    <3>4. CASE j # l
      <4>1. On(j)' = On(j) /\ Was(j)' = Was(j) /\ R[j] = S[j]
        BY <1>8, <1>10, <2>0, <3>4
      <4> QED BY <3>1, <3>2, <4>1
    <3> QED BY <3>3, <3>4
  <2>4. ASSUME NEW j \in Levels, NEW n \in R[j], cell'[n][j].to # Null PROVE cell'[n][j].to \in R[j]
    <3>1. CASE j # l
      <4>1. n \in S[j] /\ n \in Nodes
        BY <1>w, <2>0, <2>1, <3>1
      <4>2. cell'[n][j] = cell[n][j]
        BY <1>5, <3>1, <4>1
      <4> QED BY <2>0, <2>1, <2>4, <3>1, <4>1, <4>2
    <3>2. CASE j = l /\ n = p
      <4>1. cell'[p][l].to = t
        BY <1>5 DEF c
      <4>2. t \in R[l]
        BY <1>0, <2>0
      <4> QED BY <3>2, <4>1, <4>2
    <3>3. CASE j = l /\ n # p
      <4>0. n \in S[l] \/ n = t
        BY <1>0, <2>0, <2>4, <3>3
      <4>1. n \in Nodes /\ cell'[n][l] = cell[n][l]
        <5>1. n \in Nodes
          BY ZenonT(60), SMTT(60), <1>0, <1>w, <2>1, <4>0
        <5> QED BY <1>0, <1>5, <3>3, <5>1
      <4>2. q # Null => q \in S[l]
        BY ZenonT(60), SMTT(60), <1>0, <1>4, <2>1 DEF Leads
      <4>3. n = t => cell[n][l].to = q
        BY <1>4
      <4>4. cell'[n][l].to # Null => cell'[n][l].to \in S[l]
        <5>1. CASE n = t
          BY <4>1, <4>2, <4>3, <5>1
        <5>2. CASE n # t
          <6>1. n \in S[l]
            BY <4>0, <5>2
          <6> QED BY <1>0, <2>1, <4>1, <6>1
        <5> QED BY <5>1, <5>2
      <4> QED BY <1>0, <2>0, <2>4, <3>3, <4>4
    <3> QED BY <3>1, <3>2, <3>3
  <2>5. ASSUME NEW n \in R[0] PROVE Safe(u, n)'
    <3>1. CASE n = t
      BY <1>i, <3>1 DEF Safe
    <3>2. CASE n # t
      <4>1. n \in S[0] /\ n \in Nodes
        <5>1. n \in S[0]
          BY ZenonT(60), SMTT(60), <1>0, <2>0, <2>5, <3>2
        <5> QED BY <1>0, <1>w, <2>1, <5>1
      <4>2. Safe(u, n) /\ info'[n] = info[n] /\ (u \in waits[n] => u \in waits'[n])
        BY <1>3, <1>i, <1>18, <3>2, <4>1 DEF Region, Unpinned
      <4> QED BY <4>2 DEF Safe
    <3> QED BY <3>1, <3>2
  <2>6. call'[u] = call[u]
    BY <1>7 DEF Others
  <2>7. call[u].op \in {"insert", "remove"} =>
          \A j \in Levels : \A n \in R[j] : n \in On(j)' \/ cell'[n][j].marked
    <3> SUFFICES ASSUME call[u].op \in {"insert", "remove"}, NEW j \in Levels, NEW n \in R[j], n \notin On(j)'
                 PROVE  cell'[n][j].marked
      OBVIOUS
    <3>1. n \in S[j] /\ n \notin On(j) /\ n \in Was(j)
      BY ZenonT(60), SMTT(60), <1>10, <2>0, <2>1
    <3>2. cell[n][j].marked
      BY <1>18, <3>1 DEF Region
    <3> QED BY <1>15, <3>1, <3>2 DEF MarksKept
  <2>8. Region(u, R)'
    BY <2>3, <2>4, <2>5, <2>6, <2>7 DEF Region
  <2> QED BY <2>8 DEF R
<1>19. ASSUME NEW S \in [Levels -> SUBSET Nodes]
       PROVE  /\ [S EXCEPT ![l] = @ \cup {t}] \in [Levels -> SUBSET Nodes]
              /\ \A j \in Levels : S[j] \subseteq [S EXCEPT ![l] = @ \cup {t}][j]
  BY <1>0
<1>20. ASSUME NEW u \in Threads, u # t, InCall(u)
       PROVE  \E R \in [Levels -> SUBSET Nodes] : Region(u, R)' /\ Holds(u, R)'
  <2>1. PICK S \in [Levels -> SUBSET Nodes] : Region(u, S) /\ Holds(u, S)
    BY <1>20 DEF Inv, Regions
  <2> DEFINE R == [S EXCEPT ![l] = @ \cup {t}]
  <2>2. R \in [Levels -> SUBSET Nodes] /\ Region(u, R)' /\ \A j \in Levels : S[j] \subseteq R[j]
    BY <1>18, <1>19, <1>20, <2>1
  <2> HIDE DEF R
  <2>3. \A j \in Levels : S[j] \subseteq Was(0)
    BY <1>w, <2>1 DEF Region
  <2>4. Holds(u, R)'
    BY <1>0, <1>7, <1>14, <1>20, <2>1, <2>2, <2>3, OthersHold
  <2> QED BY <2>2, <2>4
<1>21. OwnRegion(t)
  <2> DEFINE R == [Q EXCEPT ![l] = @ \cup {t}]
  <2>1. R \in [Levels -> SUBSET Nodes] /\ (waits' = waits => Region(t, R)') /\ \A j \in Levels : Q[j] \subseteq R[j]
    BY <1>1, <1>18, <1>19
  <2> HIDE DEF R
  <2>2. \A j \in Levels : Q[j] \subseteq R[j] /\ \A n \in Q[j] : info'[n].key = info[n].key
    BY <1>i, <2>1
  <2>3. After(t, walk[t].level, es) /\ \A i \in Levels : ~es[i].ok => es[i] = ents[t][i]
    BY <1>3, <1>6
  <2>4. pc[t] = "exchange" /\ call[t].op = "insert" /\ Base /\ es \in [Levels -> EntRec]
        /\ Holds(t, Q) /\ info'[t].height = info[t].height
    <3>1. pc[t] = "exchange" /\ Base
      BY <1>0
    <3>2. call[t].op = "insert"
      BY <1>2
    <3>3. es \in [Levels -> EntRec]
      BY <1>3
    <3>4. Holds(t, Q)
      BY <1>1
    <3>5. info'[t].height = info[t].height
      BY <1>0, <1>i
    <3> QED BY <3>1, <3>2, <3>3, <3>4, <3>5
  <2> QED BY <2>1, <2>2, <2>3, <2>4, AfterRegion
<1>22. OwnRemoval(t)
  BY ZenonT(60), SMTT(60), <1>2, <1>7 DEF OwnRemoval, Active
<1>23. OthersRemove(t)
  <2> SUFFICES ASSUME NEW u \in Threads, u # t, Active(u)
               PROVE  LET n == node[u] IN info'[n].place = "linked" /\ info'[n].deleted /\ ~info'[n].linking
    BY DEF OthersRemove
  <2>1. RemovalOk(u) /\ node[u] \in Nodes
    BY <1>0 DEF Removals, RemovalOk, Was
  <2>2. info[node[u]].place = "linked" /\ info[node[u]].deleted /\ ~info[node[u]].linking
    BY <2>1 DEF RemovalOk
  <2> QED BY <1>i, <1>2, <2>1, <2>2
<1>24. Was(0) \subseteq Was(0)'
  BY <1>0, <1>8
<1> QED
  BY <1>3, <1>7, <1>12, <1>14, <1>15, <1>17, <1>20, <1>21, <1>22, <1>23, <1>24, StepNext

\* A node has left a level to which nothing but itself and the link of p led to it.
LEMMA LeadsLess ==
  ASSUME Base, NEW l \in Levels, NEW n, NEW m \in On(l) \cup {Head}, Leads(m, l),
         cell[m][l].to # n, cell'[m][l].to = cell[m][l].to,
         On(l)' = On(l) \ {n}, \A i \in Nodes : info'[i].key = info[i].key
  PROVE  Leads(m, l)'
<1>1. On(l) \subseteq Nodes /\ m \in Nodes \cup {Head} /\ Head \notin Nodes
  BY Names DEF On, Was
<1>2. \A i \in On(l) : Below(m, i)' <=> Below(m, i)
  BY <1>1 DEF Below
<1>3. CASE cell[m][l].to = Null
  <2>1. \A i \in On(l) : ~Below(m, i)
    BY <1>3 DEF Leads
  <2>2. \A i \in On(l)' : ~Below(m, i)'
    BY <1>2, <2>1
  <2> QED BY <1>3, <2>2 DEF Leads
<1>4. CASE cell[m][l].to # Null
  <2> DEFINE r == cell[m][l].to
  <2>1. r \in On(l) /\ \A i \in On(l) : Below(m, i) => info[r].key <= info[i].key
    BY <1>4 DEF Leads
  <2>2. r \in On(l)' /\ r \in Nodes
    BY <1>1, <2>1
  <2> HIDE DEF r
  <2>3. cell'[m][l].to = r /\ r # Null
    BY <1>4 DEF r
  <2>4. \A i \in On(l)' : Below(m, i)' => info'[r].key <= info'[i].key
    <3> SUFFICES ASSUME NEW i \in On(l)', Below(m, i)' PROVE info'[r].key <= info'[i].key
      OBVIOUS
    <3>1. i \in On(l) /\ i \in Nodes
      BY <1>1
    <3> QED BY <1>2, <2>1, <2>2, <3>1
  <2> QED BY <2>2, <2>3, <2>4 DEF Leads
<1> QED
  BY <1>3, <1>4

\* The link of p leads past a node, to the one behind it.
LEMMA Unlinked ==
  ASSUME Setting, Base, Graph, NEW l \in Levels, NEW p \in On(l) \cup {Head}, NEW n \in On(l), p # n,
         Leads(p, l), cell[p][l].to = n,
         cell'[p][l].to = cell[n][l].to, ~cell'[p][l].marked,
         \A m \in Nodes \cup {Head} : m # p => cell'[m][l] = cell[m][l],
         \A m \in Nodes : info'[m].key = info[m].key /\ info'[m].deleted = info[m].deleted,
         Was(l)' = Was(l), On(l)' = On(l) \ {n}, ~HeadCut(l), ~HeadCut(l)'
  PROVE  (Ascends(l) /\ Chained(l) /\ Marks(l))'
<1> DEFINE r == cell[n][l].to
<1>0. /\ TypeOK /\ Was(l) \subseteq Nodes /\ On(l) \subseteq Was(l) /\ Head \notin Nodes /\ Head # Null
      /\ (\A i \in Nodes : i # Null) /\ \A i \in Nodes : info[i].key \in Nat
  BY Names, NodesTyped DEF Base, On, Was
<1>1. Ascends(l) /\ Marks(l) /\ Leads(Head, l)
      /\ (\A m \in On(l) : Leads(m, l)) /\ \A m, i \in On(l) : info[m].key = info[i].key => m = i
  BY DEF Graph, Chained
<1>2. \A i, m \in Nodes \cup {Head} : m \in Nodes => (Below(i, m)' <=> Below(i, m))
  BY <1>0 DEF Below
<1>3. Below(p, n)
  BY <1>0, <1>1 DEF Ascends
<1>4. r # Null => r \in Was(l) /\ r \in On(l) /\ info[n].key < info[r].key
  <2>1. r # Null => r \in Was(l) /\ Below(n, r)
    BY <1>0, <1>1 DEF Ascends
  <2>2. r # Null => r \in On(l)
    BY <1>1 DEF Leads
  <2> QED BY <1>0, <2>1, <2>2 DEF Below
<1>5. \A m \in On(l) : Below(n, m) => r # Null /\ info[r].key <= info[m].key
  BY <1>1 DEF Leads
<1>6. \A m \in On(l) : Below(p, m) => info[n].key <= info[m].key
  BY <1>0 DEF Leads
<1> HIDE DEF r
<1>7. cell'[p][l].to = r
  BY DEF r
<1>8. Ascends(l)'
  <2>1. ASSUME NEW i \in Was(l) \cup {Head}, NEW m, m = cell'[i][l].to, m # Null
        PROVE  m \in Was(l) /\ Below(i, m)'
    <3>1. CASE i = p
      <4>1. m = r /\ r \in Was(l) /\ info[n].key < info[r].key
        BY <1>4, <1>7, <2>1, <3>1
      <4>2. Below(p, r)
        BY <1>0, <1>3, <4>1 DEF Below
      <4> QED BY <1>0, <1>2, <3>1, <4>1, <4>2
    <3>2. CASE i # p
      <4>1. i \in Nodes \cup {Head} /\ m = cell[i][l].to
        BY <1>0, <2>1, <3>2
      <4>2. m \in Was(l) /\ Below(i, m)
        BY <1>1, <2>1, <4>1 DEF Ascends
      <4> QED BY <1>0, <1>2, <4>1, <4>2
    <3> QED BY <3>1, <3>2
  <2>2. \A i \in Was(l)' \cup {Head} :
          cell'[i][l].to # Null => cell'[i][l].to \in Was(l)' /\ (i = Head \/ info'[i].key < info'[cell'[i][l].to].key)
    BY <2>1 DEF Below
  <2> QED BY <2>2 DEF Ascends, Below
<1>9. Leads(p, l)'
  <2>1. \A m \in On(l) \ {n} : Below(p, m) => r # Null /\ info[r].key <= info[m].key
    <3> SUFFICES ASSUME NEW m \in On(l) \ {n}, Below(p, m) PROVE r # Null /\ info[r].key <= info[m].key
      OBVIOUS
    <3>1. info[n].key <= info[m].key /\ info[n].key # info[m].key
      BY <1>1, <1>6
    <3>2. Below(n, m)
      BY <1>0, <3>1 DEF Below
    <3> QED BY <1>5, <3>2
  <2>2. r # Null => r \in On(l) \ {n} /\ r \in Nodes
    BY <1>0, <1>4
  <2>3. \A m \in On(l) \ {n} : (Below(p, m)' <=> Below(p, m)) /\ info'[m].key = info[m].key
    BY <1>0, <1>2
  <2> QED BY <1>7, <2>1, <2>2, <2>3 DEF Leads
<1>10. ASSUME NEW m \in (On(l) \cup {Head}) \ {n, p} PROVE Leads(m, l)'
  <2>1. Leads(m, l) /\ m \in Nodes \cup {Head}
    BY <1>0, <1>1
  <2>2. cell[m][l].to # n
    <3> SUFFICES ASSUME cell[m][l].to = n PROVE FALSE
      OBVIOUS
    <3>1. Below(m, n) /\ \A i \in On(l) : Below(m, i) => info[n].key <= info[i].key
      BY <1>0, <1>1, <2>1 DEF Ascends, Leads
    <3>2. CASE m = Head
      BY <1>0, <1>3, <1>10, <3>1, <3>2 DEF Below
    <3>3. CASE p = Head
      BY <1>0, <1>6, <1>10, <3>1, <3>3 DEF Below
    <3>4. CASE m # Head /\ p # Head
      <4>1. m \in On(l) /\ p \in On(l) /\ m # p /\ info[m].key \in Nat /\ info[p].key \in Nat
        BY <1>0, <1>10, <3>4
      <4>2. info[m].key # info[p].key
        BY <1>1, <4>1
      <4>3. info[m].key < info[n].key /\ info[p].key < info[n].key
        BY <1>3, <3>1, <3>4 DEF Below
      <4>4. CASE info[m].key < info[p].key
        BY <1>0, <3>1, <4>1, <4>3, <4>4 DEF Below
      <4>5. CASE info[p].key < info[m].key
        BY <1>0, <1>6, <4>1, <4>3, <4>5 DEF Below
      <4> QED BY <4>1, <4>2, <4>4, <4>5
    <3> QED BY <3>2, <3>3, <3>4
  <2>3. cell'[m][l].to = cell[m][l].to
    BY <1>10, <2>1
  <2> QED BY <1>10, <2>1, <2>2, <2>3, LeadsLess
<1>11. Chained(l)'
  <2>1. \A m, i \in On(l)' : info'[m].key = info'[i].key => m = i
    BY <1>0, <1>1
  <2>2. \A m \in On(l)' \cup {Head} : Leads(m, l)'
    <3>1. n # Head
      BY <1>0
    <3> QED BY <1>9, <1>10, <3>1
  <2> QED BY <2>1, <2>2 DEF Chained
<1>12. Marks(l)'
  <2>1. ~cell'[Head][l].marked
    BY <1>1 DEF Marks
  <2>2. \A i \in Was(l) : info'[i].key \in Keys /\ (cell'[i][l].marked => info'[i].deleted)
    BY <1>0, <1>1 DEF Marks
  <2> QED BY <2>1, <2>2 DEF Marks
<1> QED
  BY <1>8, <1>11, <1>12

\* What there is to unlink, and what was found in front of it.
LEMMA UnlinkPlace ==
  ASSUME Setting, Inv, NEW t \in Threads, pc[t] = "unlink", NEW Q \in [Levels -> SUBSET Nodes],
         Region(t, Q), Holds(t, Q)
  PROVE  LET n == node[t]  l == UnlinkLevel(t)  e == ents[t][l] IN
         /\ call[t].op = "remove" /\ ~info[t].linking
         /\ n \in Nodes /\ n \in Was(0) /\ l \in Levels /\ ~e.ok /\ e.prec # Null
         /\ n \in On(l) /\ info[n].height > l
         /\ \A i \in Levels : i < info[n].height => cell[n][i].marked /\ (~ents[t][i].ok => i <= l)
         /\ (cell[e.prec][l] = [to |-> n, marked |-> FALSE]) =>
              e.prec \in On(l) \cup {Head} /\ Leads(e.prec, l) /\ e.prec # n
<1> DEFINE n == node[t]
           l == UnlinkLevel(t)
           e == ents[t][l]
<1>0. /\ Base /\ TypeOK /\ Graph /\ Removals /\ Control(t) /\ 0 \in Levels
      /\ call[t].op = "remove"
  BY LevelsAre DEF Inv, Base, Graph, Control, OpAt
<1>1. RemovalOk(t) /\ Active(t)
  BY <1>0 DEF Active, Removals
<1>2. /\ n \in Nodes /\ n \in Was(0) /\ 0 < info[n].height /\ info[n].place = "linked" /\ ~info[n].linking
      /\ \A i \in Levels : i < info[n].height => cell[n][i].marked
  BY <1>1 DEF RemovalOk, Was
<1>3. ~info[t].linking /\ ~ents[t][0].ok
  BY <1>0 DEF Control, RemoverOk, RestOk
<1> HIDE DEF n
<1>4. Undone(ents[t], n) = {i \in Levels : i < info[n].height /\ ~ents[t][i].ok}
  BY <1>0, <1>2, UndoneLevels
<1>5. l \in Undone(ents[t], n) /\ \A i \in Undone(ents[t], n) : i <= l
  <2>1. Undone(ents[t], n) # {} /\ Undone(ents[t], n) \subseteq Levels
    BY <1>0, <1>2, <1>3, <1>4
  <2> QED BY <2>1, EndsOfLevels DEF UnlinkLevel, n
<1> HIDE DEF l
<1>6. l \in Levels /\ l < info[n].height /\ ~e.ok
  BY <1>4, <1>5
<1>7. \A i \in Levels : i < info[n].height /\ ~ents[t][i].ok => i <= l
  BY <1>4, <1>5
<1>8. n \in On(l)
  <2>1. n \in Was(l)
    BY <1>2, <1>6 DEF Was
  <2>2. ~Off(n, l)
    <3> SUFFICES ASSUME NEW u \in Threads, call[u].op = "remove", node[u] = n, ents[u][l].ok
                 PROVE  FALSE
      BY DEF Off
    <3>1. Active(u)
      BY <1>0, <1>6, LastUnlinked
    <3>2. u = t
      BY <1>0, <1>1, <3>1 DEF Removals, n
    <3> QED BY <1>6, <3>2
  <2> QED BY <1>2, <2>1, <2>2 DEF On
<1>9. EntOk(t, Q, l)
  <2>1. l \in Ready(t)
    BY <1>6 DEF Ready, n
  <2> QED BY <2>1 DEF Holds
<1>10. e.prec # Null /\ (e.prec # Head => e.prec \in Q[l])
  BY <1>9 DEF EntOk
<1>11. ASSUME cell[e.prec][l] = [to |-> n, marked |-> FALSE]
       PROVE  e.prec \in On(l) \cup {Head} /\ Leads(e.prec, l) /\ e.prec # n
  <2>1. ~cell[e.prec][l].marked
    BY <1>11
  <2>2. e.prec \in On(l) \cup {Head}
    BY <1>0, <1>6, <1>10, <2>1 DEF Region
  <2>3. ~HeadCut(l)
    BY <1>0, WritersAlone
  <2>4. e.prec # n
    BY <1>2, <1>6, <2>1
  <2> QED BY <1>0, <1>6, <2>2, <2>3, <2>4 DEF Graph, Chained
<1>12. info[n].height > l
  <2>1. info[n].height \in Nat /\ l \in {0, 1}
    BY <1>0, <1>2, <1>6, NodesTyped, LevelsAre
  <2> QED BY <1>6, <2>1
<1> QED
  BY <1>0, <1>2, <1>3, <1>6, <1>7, <1>8, <1>10, <1>11, <1>12 DEF l, n

\* The node is unlinked on a level.
LEMMA UnlinkNext ==
  ASSUME Setting, Inv, NEW t \in Threads, Unlink(t)
  PROVE  Inv'
<1> SUFFICES ASSUME NEW n, NEW l, NEW p,
                    n = node[t], l = UnlinkLevel(t), p = ents[t][l].prec
             PROVE  Inv'
  OBVIOUS
<1> DEFINE es == [ents[t] EXCEPT ![l].ok = TRUE]
           c == [to |-> cell[n][l].to, marked |-> FALSE]
<1>0. /\ Base /\ TypeOK /\ Graph /\ Removals /\ Control(t) /\ InCall(t) /\ pc[t] = "unlink"
      /\ 0 \in Levels /\ \A i \in Levels : i \in {0, 1}
  BY LevelsAre DEF Inv, Base, Graph, Unlink, InCall
<1>1. PICK Q \in [Levels -> SUBSET Nodes] : Region(t, Q) /\ Holds(t, Q)
  BY <1>0 DEF Inv, Regions
<1>2. /\ call[t].op = "remove" /\ ~info[t].linking
      /\ n \in Nodes /\ n \in Was(0) /\ l \in Levels /\ ~ents[t][l].ok /\ p # Null
      /\ n \in On(l) /\ info[n].height > l
      /\ \A i \in Levels : i < info[n].height => cell[n][i].marked /\ (~ents[t][i].ok => i <= l)
      /\ (cell[p][l] = [to |-> n, marked |-> FALSE]) => p \in On(l) \cup {Head} /\ Leads(p, l) /\ p # n
  BY <1>0, <1>1, UnlinkPlace
<1>3. /\ TypeOK' /\ info' = info /\ waits' = waits /\ cell[p][l] = [to |-> n, marked |-> FALSE]
      /\ CellAt(p, l, c) /\ Moves(t, IF l = 0 THEN "retire" ELSE "unlink", walk[t], es, n, call[t])
  BY <1>0, <1>2, UnlinkIs
<1>4. p \in On(l) \cup {Head} /\ Leads(p, l) /\ p # n /\ cell[p][l].to = n /\ ~cell[p][l].marked
  <2>1. cell[p][l].to = n /\ ~cell[p][l].marked
    BY <1>3
  <2> QED BY <1>2, <1>3, <2>1
<1>5. /\ cell'[p][l] = c
      /\ \A m \in Nodes \cup {Head}, j \in Levels : m # p \/ j # l => cell'[m][j] = cell[m][j]
  <2>1. p \in Nodes \cup {Head}
    BY <1>4 DEF On, Was
  <2> QED BY ZenonT(60), SMTT(60), <1>2, <1>3, <2>1 DEF CellAt
<1>6. \A i \in Levels : /\ es[i].ok <=> (ents[t][i].ok \/ i = l)
                        /\ ~es[i].ok => es[i] = ents[t][i]
  <2>1. ents[t] \in [Levels -> EntRec] /\ \A i \in Levels : ents[t][i] \in EntRec
    BY <1>0 DEF TypeOK
  <2>2. \A i \in Levels : i # l => es[i] = ents[t][i]
    BY <2>1
  <2>3. es[l].ok
    <3>1. es[l] = [ents[t][l] EXCEPT !.ok = TRUE]
      BY <1>2, <2>1
    <3> QED BY <1>2, <2>1, <3>1 DEF EntRec
  <2> QED BY <1>2, <2>2, <2>3
<1> HIDE DEF es, c
<1>7. /\ pc'[t] = (IF l = 0 THEN "retire" ELSE "unlink") /\ walk'[t] = walk[t] /\ ents'[t] = es
      /\ node'[t] = n /\ call'[t] = call[t] /\ Others(t)
  BY <1>3 DEF Moves, Own
<1>8. \A j \in Levels : Was(j)' = Was(j)
  <2>1. \A m \in Nodes, j \in Levels : m \in Was(j)' <=> m \in Was(j)
    <3> SUFFICES ASSUME NEW m \in Nodes, NEW j \in Levels PROVE m \in Was(j)' <=> m \in Was(j)
      OBVIOUS
    <3>1. info[m].linking => m \in Threads /\ m # t /\ ents'[m] = ents[m]
      BY <1>0, <1>2, <1>7 DEF Base, Placed, Others
    <3> QED BY <1>3, <3>1 DEF Was
  <2>2. ASSUME NEW j \in Levels PROVE Was(j)' = Was(j)
    <3>1. Was(j) \subseteq Nodes /\ Was(j)' \subseteq Nodes
      BY DEF Was
    <3> QED BY <2>1, <3>1
  <2> QED BY <2>2
<1>9. \A m \in Nodes, j \in Levels : Off(m, j)' <=> (Off(m, j) \/ (m = n /\ j = l))
  <2> SUFFICES ASSUME NEW m \in Nodes, NEW j \in Levels
               PROVE  Off(m, j)' <=> (Off(m, j) \/ (m = n /\ j = l))
    OBVIOUS
  <2>1. \A u \in Threads : u # t => call'[u] = call[u] /\ node'[u] = node[u] /\ ents'[u] = ents[u]
    BY <1>7 DEF Others
  <2>2. (call'[t].op = "remove" /\ node'[t] = m /\ ents'[t][j].ok)
          <=> ((call[t].op = "remove" /\ node[t] = m /\ ents[t][j].ok) \/ (m = n /\ j = l))
    BY <1>2, <1>6, <1>7
  <2> QED BY <2>1, <2>2 DEF Off
<1>10. \A j \in Levels : On(j)' = IF j = l THEN On(j) \ {n} ELSE On(j)
  <2>1. ASSUME NEW j \in Levels PROVE On(j)' = IF j = l THEN On(j) \ {n} ELSE On(j)
    <3>1. On(j) \subseteq Nodes /\ On(j)' \subseteq Nodes /\ Was(j)' = Was(j)
      BY <1>8 DEF On, Was
    <3>2. \A m \in Nodes : m \in On(j)' <=> (m \in On(j) /\ ~(m = n /\ j = l))
      BY <1>3, <1>9, <3>1 DEF On
    <3>3. \A m : m \in On(j)' <=> (m \in On(j) /\ ~(m = n /\ j = l))
      BY <3>1, <3>2
    <3> QED BY <3>3
  <2> QED BY <2>1
<1>w. /\ \A j \in Levels : Was(j) \subseteq Nodes /\ On(j) \subseteq Was(j) /\ Was(j) \subseteq Was(0)
      /\ p \in Nodes \cup {Head} /\ Head \notin Nodes
  BY <1>0, <1>4, Nested, Names DEF On, Was
<1>12. Clears' /\ \A j : ~HeadCut(j) /\ ~HeadCut(j)'
  <2>1. \A m \in Nodes : info'[m].place # "cut"
    BY <1>2, <1>3, WritersAlone
  <2> QED BY <1>2, <1>7, <2>1, WriterClears
<1>13. Placed'
  BY <1>0, <1>3, <1>8 DEF Base, Placed
<1>14. NamesKept(t)
  <2>1. \A u \in Threads, j \in Levels : u # t /\ u \notin Was(j) => cell'[u][j] = cell[u][j]
    <3>1. p # Head => p \in Was(l)
      BY <1>2, <1>4, <1>w
    <3> QED BY ZenonT(60), SMTT(60), <1>5, <1>w, <3>1, Names
  <2> QED BY <1>3, <2>1 DEF NamesKept
<1>15. MarksKept
  <2> SUFFICES ASSUME NEW j \in Levels, NEW m \in Was(j), cell[m][j].marked PROVE cell'[m][j].marked
    BY DEF MarksKept
  <2>1. ~(m = p /\ j = l)
    BY <1>4
  <2> QED BY <1>5, <1>w, <2>1
<1>17. Graph'
  <2>1. (Ascends(l) /\ Chained(l) /\ Marks(l))'
    <3>1. \A m \in Nodes \cup {Head} : m # p => cell'[m][l] = cell[m][l]
      BY <1>2, <1>5
    <3>2. Was(l)' = Was(l) /\ On(l)' = On(l) \ {n}
      BY <1>2, <1>8, <1>10
    <3>3. cell'[p][l].to = cell[n][l].to /\ ~cell'[p][l].marked
      BY <1>5 DEF c
    <3>4. \A m \in Nodes : info'[m].key = info[m].key /\ info'[m].deleted = info[m].deleted
      BY <1>3
    <3> QED BY <1>0, <1>2, <1>4, <1>12, <3>1, <3>2, <3>3, <3>4, Unlinked
  <2>2. ASSUME NEW j \in Levels, j # l PROVE (Ascends(j) /\ Chained(j) /\ Marks(j))'
    <3>1. On(j)' = On(j) /\ Was(j)' = Was(j) /\ (HeadCut(j)' <=> HeadCut(j))
      BY <1>8, <1>10, <1>12, <2>2
    <3>2. \A m \in Was(j) \cup {Head} : cell'[m][j] = cell[m][j]
      BY <1>5, <1>w, <2>2
    <3>3. \A m \in Was(j) : info'[m].key = info[m].key /\ (info[m].deleted => info'[m].deleted)
      BY <1>3
    <3> QED BY <1>0, <3>1, <3>2, <3>3, LevelKept
  <2> QED BY ZenonT(60), SMTT(60), <1>13, <2>1, <2>2 DEF Graph
<1>18. ASSUME NEW u \in Threads, NEW S \in [Levels -> SUBSET Nodes], Region(u, S)
       PROVE  Region(u, S)'
  <2>1. \A j \in Levels : /\ On(j) \subseteq S[j] /\ S[j] \subseteq Was(j) /\ S[j] \subseteq S[0]
                          /\ \A m \in S[j] : cell[m][j].to # Null => cell[m][j].to \in S[j]
    BY <1>18 DEF Region
  <2>3. \A j \in Levels : On(j)' \subseteq S[j] /\ S[j] \subseteq Was(j)' /\ S[j] \subseteq S[0]
    <3> SUFFICES ASSUME NEW j \in Levels
                 PROVE  On(j)' \subseteq S[j] /\ S[j] \subseteq Was(j)' /\ S[j] \subseteq S[0]
      OBVIOUS
    <3>1. On(j)' \subseteq On(j) /\ Was(j)' = Was(j)
      BY <1>8, <1>10
    <3> QED BY <2>1, <3>1
  <2>4. ASSUME NEW j \in Levels, NEW m \in S[j], cell'[m][j].to # Null PROVE cell'[m][j].to \in S[j]
    <3>1. CASE j = l /\ m = p
      <4>1. cell'[m][j].to = cell[n][l].to
        BY <1>5, <3>1 DEF c
      <4>2. n \in S[l]
        BY <1>2, <2>1
      <4> QED BY <1>2, <2>1, <2>4, <3>1, <4>1, <4>2
    <3>2. CASE ~(j = l /\ m = p)
      <4>1. m \in Nodes
        BY <1>w, <2>1
      <4>2. cell'[m][j] = cell[m][j]
        BY <1>5, <3>2, <4>1
      <4> QED BY <2>1, <2>4, <4>2
    <3> QED BY <3>1, <3>2
  <2>5. \A m \in S[0] : Safe(u, m)'
    BY <1>3, <1>18 DEF Region, Safe
  <2>6. call'[u] = call[u]
    BY <1>7 DEF Others
  <2>7. call[u].op \in {"insert", "remove"} =>
          \A j \in Levels : \A m \in S[j] : m \in On(j)' \/ cell'[m][j].marked
    <3> SUFFICES ASSUME call[u].op \in {"insert", "remove"}, NEW j \in Levels, NEW m \in S[j], m \notin On(j)'
                 PROVE  cell'[m][j].marked
      OBVIOUS
    <3>0. m \in Was(j)
      BY <2>1
    <3>1. m \notin On(j) \/ (m = n /\ j = l)
      BY <1>10
    <3>2. cell[m][j].marked
      <4>1. m \notin On(j) => cell[m][j].marked
        BY <1>18 DEF Region
      <4>2. cell[n][l].marked
        <5>1. l < info[n].height
          BY <1>0, <1>2, NodesTyped
        <5> QED BY <1>2, <5>1
      <4> QED BY <3>1, <4>1, <4>2
    <3> QED BY <1>15, <3>0, <3>2 DEF MarksKept
  <2> QED BY <2>3, <2>4, <2>5, <2>6, <2>7 DEF Region
<1>20. ASSUME NEW u \in Threads, u # t, InCall(u)
       PROVE  \E S \in [Levels -> SUBSET Nodes] : Region(u, S)' /\ Holds(u, S)'
  <2>1. PICK S \in [Levels -> SUBSET Nodes] : Region(u, S) /\ Holds(u, S)
    BY <1>20 DEF Inv, Regions
  <2>2. Region(u, S)'
    BY <1>18, <2>1
  <2>3. \A j \in Levels : S[j] \subseteq S[j] /\ S[j] \subseteq Was(0)
    BY <1>w, <2>1 DEF Region
  <2>4. Holds(u, S)'
    BY <1>0, <1>7, <1>14, <1>20, <2>1, <2>3, OthersHold
  <2> QED BY <2>2, <2>4
<1>21. OwnRegion(t)
  <2>1. Region(t, Q)'
    BY <1>1, <1>18
  <2>2. ASSUME NEW i \in Ready(t)' PROVE EntOk(t, Q, i)'
    <3>1. i \in Levels /\ es[i] = ents[t][i] /\ i \in Ready(t)
      BY <1>0, <1>2, <1>3, <1>6, <1>7, <2>2 DEF Ready, Searching
    <3>2. EntOk(t, Q, i)
      BY <1>1, <3>1 DEF Holds
    <3> QED BY <1>3, <1>7, <3>1, <3>2 DEF EntOk
  <2>3. ~Searching(t) /\ ~Searching(t)' /\ pc'[t] # "count"
    BY <1>0, <1>7 DEF Searching
  <2>4. Holds(t, Q)'
    BY <1>1, <1>2, <1>7, <2>2, <2>3 DEF Holds
  <2> QED BY <2>1, <2>4 DEF OwnRegion
<1>22. OwnRemoval(t)
  <2>0. Active(t) /\ RemovalOk(t)
    BY <1>0, <1>2 DEF Removals, Active
  <2>1. RemovalOk(t)'
    <3>1. n \in Was(0)' /\ info'[n].place = "linked" /\ info'[n].deleted /\ ~info'[n].linking
      BY <1>0, <1>3, <1>8, <2>0 DEF RemovalOk
    <3>2. \A j \in Levels : j < info[n].height => cell'[n][j].marked
      BY <1>2, <1>4, <1>5
    <3>3. pc'[t] # "mark"
      BY <1>7
    <3> QED BY <1>3, <1>7, <3>1, <3>2, <3>3 DEF RemovalOk
  <2>2. \A u \in Threads : u # t /\ Active(u) => node[u] # node'[t]
    BY <1>0, <1>7, <2>0 DEF Removals
  <2> QED BY <2>1, <2>2 DEF OwnRemoval
<1>23. OthersRemove(t)
  BY <1>0, <1>3 DEF OthersRemove, Removals, RemovalOk
<1>24. Control(t)'
  <2>1. RemoverOk(t)'
    <3>1. pc'[t] = "unlink" => ~es[0].ok
      BY <1>0, <1>2, <1>6, <1>7 DEF Control, RemoverOk
    <3>2. pc'[t] = "retire" => \A i \in Levels : i < info[n].height => es[i].ok
      <4> SUFFICES ASSUME l = 0, NEW i \in Levels, i < info[n].height PROVE es[i].ok
        BY <1>7
      <4> QED BY <1>0, <1>2, <1>6
    <3>3. n # Null
      BY <1>2, Names
    <3> QED BY <1>2, <1>3, <1>7, <3>1, <3>2, <3>3 DEF RemoverOk
  <2>2. RestOk(t)'
    BY <1>0, <1>2, <1>3, <1>7 DEF Control, RestOk, Linking
  <2> QED BY <1>0, <1>2, <1>7, <2>1, <2>2 DEF Control, OpAt, SearchOk, Searching, InserterOk, Linking
<1>25. Was(0) \subseteq Was(0)'
  BY <1>0, <1>8
<1> QED
  BY <1>3, <1>7, <1>12, <1>14, <1>15, <1>17, <1>20, <1>21, <1>22, <1>23, <1>24, <1>25, StepNext

\* The next node of those that were taken gets into the garbage.
LEMMA ClearCollectNext ==
  ASSUME Setting, Inv, NEW t \in Threads, ClearCollect(t)
  PROVE  Inv'
<1> SUFFICES ASSUME NEW n, NEW r, n = walk[t].at, r = cell[n][0].to
             PROVE  Inv'
  OBVIOUS
<1> DEFINE w == [walk[t] EXCEPT !.at = r]
<1>0. /\ Base /\ TypeOK /\ Graph /\ Clears /\ Control(t) /\ InCall(t) /\ pc[t] = "collect" /\ n # Null
      /\ call[t].op = "clear" /\ 0 \in Levels /\ walk[t] \in WalkRec
  BY LevelsAre DEF Inv, Base, Graph, ClearCollect, InCall, Control, OpAt, TypeOK
<1>w. /\ \A j \in Levels : Was(j) \subseteq Nodes /\ On(j) \subseteq Was(j) /\ On(j) \subseteq On(0)
      /\ \A m \in Nodes : info[m].key \in Nat /\ m # Head /\ m # Null
  BY <1>0, Nested, NodesTyped, Names DEF On, Was
<1>n. /\ n \in On(0) /\ n \in Nodes /\ info[n].place = "cut" /\ 0 < info[n].height
  <2>1. n \in On(0)
    BY <1>0 DEF Clears
  <2>2. info[n].place # "linked"
    BY <1>0, <1>w, <2>1 DEF Clears
  <2> QED BY <1>0, <1>w, <2>1, <2>2 DEF On, Was
<1>1. /\ TypeOK' /\ cell' = cell
      /\ info' = [info EXCEPT ![n].place = "garbage", ![n].deleted = TRUE]
      /\ waits' = [waits EXCEPT ![n] = {u \in Threads : InCall(u)}]
      /\ Moves(t, "collect", w, ents[t], node[t], call[t])
  BY <1>0, <1>n, ClearCollectIs
<1>2. w.at = r /\ w.found = walk[t].found /\ w.level = walk[t].level
  <2>1. r \in Nodes \cup {Null}
    BY <1>0, <1>n, LinksTyped
  <2> QED BY <1>0, <2>1, WalkFields
<1> HIDE DEF w
<1>3. /\ pc'[t] = "collect" /\ walk'[t] = w /\ ents'[t] = ents[t] /\ node'[t] = node[t]
      /\ call'[t] = call[t] /\ Others(t)
  BY <1>1 DEF Moves, Own
<1>i. /\ info'[n].key = info[n].key /\ info'[n].height = info[n].height
      /\ info'[n].linking = info[n].linking /\ info'[n].deleted /\ info'[n].place = "garbage"
      /\ \A m \in Nodes : m # n => info'[m] = info[m]
  <2>1. info' = [info EXCEPT ![n] = [info[n] EXCEPT !.place = "garbage", !.deleted = TRUE]] /\ info[n] \in InfoRec
    BY <1>0, <1>1, <1>n, NodesTyped
  <2> DEFINE i == [info[n] EXCEPT !.place = "garbage", !.deleted = TRUE]
  <2>2. info' = [info EXCEPT ![n] = i]
    BY <2>1
  <2>3. /\ i.key = info[n].key /\ i.height = info[n].height /\ i.linking = info[n].linking
        /\ i.deleted = TRUE /\ i.place = "garbage"
    BY <2>1, InfoGarbage
  <2> HIDE DEF i
  <2>4. info'[n] = i /\ \A m \in Nodes : m # n => info'[m] = info[m]
    BY <1>0, <1>n, <2>2 DEF TypeOK
  <2> QED BY <2>3, <2>4
<1>4. /\ waits'[n] = {u \in Threads : InCall(u)}
      /\ \A m \in Nodes : m # n => waits'[m] = waits[m]
  BY <1>0, <1>1, <1>n DEF TypeOK
<1>6. \A m \in Nodes : /\ info'[m].key = info[m].key /\ info'[m].height = info[m].height
                       /\ info'[m].linking = info[m].linking
                       /\ info[m].deleted => info'[m].deleted
  BY <1>i
<1>7. \A j \in Levels : Was(j)' = Was(j)
  <2>1. \A m \in Nodes : info[m].linking => ents'[m] = ents[m]
    BY <1>0, <1>3 DEF Base, Placed, Others
  <2> QED BY <1>6, <2>1 DEF Was
<1>8. \A j \in Levels : On(j)' = On(j) \ {n}
  <2>1. ASSUME NEW j \in Levels PROVE On(j)' = On(j) \ {n}
    <3>1. On(j) \subseteq Nodes /\ On(j)' \subseteq Nodes /\ Was(j)' = Was(j) /\ Was(j) \subseteq Nodes
      BY <1>7, <1>w, <2>1 DEF On
    <3>2. \A m \in Nodes : ~Off(m, j)'
      BY <1>0, <1>3, ClearAlone DEF Off, Others
    <3>3. \A m \in Was(j) : (m \in On(j) <=> InList(m)) /\ (m \in On(j)' <=> InList(m)')
      BY <1>0, <3>1, <3>2, ClearAlone DEF On, InList
    <3>4. \A m \in Was(j) : InList(m)' <=> InList(m) /\ m # n
      BY <1>i, <3>1 DEF InList
    <3>5. On(j) \subseteq Was(j) /\ On(j)' \subseteq Was(j)
      BY <1>w, <3>1 DEF On
    <3> QED BY <3>3, <3>4, <3>5
  <2> QED BY <2>1
<1>9. \A m \in On(0) : info[n].key <= info[m].key
  <2> SUFFICES ASSUME NEW m \in On(0) PROVE info[n].key <= info[m].key
    OBVIOUS
  <2>1. m \in Nodes /\ info[m].place = "cut"
    BY <1>0, <1>w DEF On, Clears
  <2>2. PICK c \in Threads : pc[c] = "collect" /\ walk[c].at # Null /\ info[walk[c].at].key <= info[m].key
    BY <1>0, <2>1 DEF Clears
  <2>3. c = t
    BY <1>0, <2>2 DEF Clears
  <2> QED BY <2>2, <2>3
<1>10. \A j \in Levels : HeadCut(j) /\ HeadCut(j)'
  BY <1>0, <1>3 DEF HeadCut
<1>g. \A j \in Levels : /\ Ascends(j) /\ Marks(j) /\ cell[Head][j].to = Null
                        /\ \A m \in On(j) : Leads(m, j)
                        /\ \A m, i \in On(j) : info[m].key = info[i].key => m = i
  BY <1>0, <1>10 DEF Graph, Chained
<1>11. Placed'
  <2>1. Was(0)' = Was(0)
    BY <1>0, <1>7
  <2> QED BY <1>0, <1>6, <1>i, <2>1 DEF Base, Placed
<1>12. Graph'
  <2> SUFFICES ASSUME NEW j \in Levels PROVE (Ascends(j) /\ Chained(j) /\ Marks(j))'
    BY <1>11 DEF Graph
  <2>1. \A m \in Nodes \cup {Head}, i \in Nodes : Below(m, i)' <=> Below(m, i)
    BY <1>6, <1>w DEF Below
  <2>2. \A m \in Was(j) \cup {Head} : cell[m][j].to # Null => cell[m][j].to \in Was(j) /\ Below(m, cell[m][j].to)
    BY <1>g DEF Ascends
  <2>3. Ascends(j)'
    <3>1. ASSUME NEW m \in Was(j) \cup {Head}, NEW i, i = cell[m][j].to, i # Null
          PROVE  i \in Was(j) /\ Below(m, i)'
      BY ZenonT(60), SMTT(60), <1>w, <2>1, <2>2, <3>1
    <3>2. \A m \in Was(j)' \cup {Head} :
            cell'[m][j].to # Null => cell'[m][j].to \in Was(j)' /\ (m = Head \/ info'[m].key < info'[cell'[m][j].to].key)
      BY <1>1, <1>7, <3>1 DEF Below
    <3> QED BY <3>2 DEF Ascends, Below
  <2>4. Marks(j)'
    BY ZenonT(60), SMTT(60), <1>1, <1>6, <1>7, <1>g, <1>i, <1>w DEF Marks
  <2>5. ASSUME NEW m \in On(j) PROVE Leads(m, j)'
    <3>1. m \in Was(j) /\ m \in On(0) /\ m # Head /\ m \in Nodes
      BY <1>w
    <3>2. cell[m][j].to # n
      <4>1. SUFFICES ASSUME cell[m][j].to = n PROVE FALSE
        OBVIOUS
      <4>2. info[m].key < info[n].key
        BY <1>0, <2>2, <3>1, <4>1 DEF Below
      <4> QED BY <1>9, <1>n, <1>w, <3>1, <4>2
    <3>3. Leads(m, j) /\ cell'[m][j].to = cell[m][j].to
      BY <1>1, <1>g
    <3> QED BY <1>0, <1>6, <1>8, <3>2, <3>3, LeadsLess
  <2>6. \A m, i \in On(j)' : info'[m].key = info'[i].key => m = i
    <3>1. On(j)' \subseteq On(j) /\ \A m \in On(j) : info'[m].key = info[m].key
      BY <1>6, <1>8, <1>w
    <3> QED BY <1>g, <3>1
  <2>7. Chained(j)'
    <3>1. cell'[Head][j].to = Null /\ HeadCut(j)'
      BY <1>1, <1>10, <1>g
    <3>2. \A m \in On(j)' : Leads(m, j)'
      BY <1>8, <2>5
    <3> QED BY <2>6, <3>1, <3>2 DEF Chained
  <2> QED BY <2>3, <2>4, <2>7
<1>13. r # Null => r \in On(0) /\ r # n
  <2>1. r # Null => r \in On(0)
    BY <1>0, <1>g, <1>n DEF Leads
  <2>2. r # Null => Below(n, r)
    BY <1>0, <1>g, <1>n, <1>w DEF Ascends
  <2> QED BY <1>0, <1>n, <1>w, <2>1, <2>2 DEF Below
<1>14. Clears'
  <2>1. \A c \in Threads : /\ call'[c] = call[c] /\ pc'[c] = pc[c]
                           /\ c # t => walk'[c] = walk[c]
    BY <1>0, <1>3 DEF Others
  <2>2. Apart'
    BY <1>0, <2>1 DEF Clears, Apart
  <2>3. \A m \in Nodes : info'[m].place # "linked"
    BY <1>0, <1>i DEF Clears
  <2>4. \A c \in Threads : pc[c] = "collect" /\ walk[c].at # Null => c = t
    BY <1>0 DEF Clears
  <2>5. \A c \in Threads : pc'[c] = "collect" /\ walk'[c].at # Null => c = t
    BY <2>1, <2>4
  <2>6. \A c \in Threads : pc'[c] = "collect" /\ walk'[c].at # Null => walk'[c].at \in On(0)'
    BY ZenonT(60), SMTT(60), <1>0, <1>2, <1>3, <1>8, <1>13, <2>5
  <2>7. ASSUME NEW m \in Nodes, info'[m].place = "cut"
        PROVE  \E c \in Threads : /\ pc'[c] = "collect" /\ walk'[c].at # Null
                                  /\ info'[walk'[c].at].key <= info'[m].key
    <3>1. m # n /\ info[m].place = "cut"
      BY <1>i, <2>7
    <3>2. m \in On(0)
      <4>1. m \in Was(0)
        BY <1>0, <3>1 DEF Base, Placed
      <4> QED BY <1>0, <3>1, <4>1, ClearAlone DEF InList
    <3>3. Below(n, m)
      <4>1. info[n].key <= info[m].key /\ info[n].key # info[m].key
        BY <1>0, <1>9, <1>g, <1>n, <3>1, <3>2
      <4> QED BY <1>n, <1>w, <4>1 DEF Below
    <3>4. r # Null /\ info[r].key <= info[m].key
      BY <1>0, <1>g, <1>n, <3>2, <3>3 DEF Leads
    <3>5. r \in Nodes /\ info'[r].key = info[r].key /\ info'[m].key = info[m].key
      BY <1>0, <1>6, <1>13, <1>w, <3>4
    <3> QED BY <1>2, <1>3, <3>4, <3>5
  <2> QED BY <2>2, <2>3, <2>5, <2>6, <2>7 DEF Clears
<1>15. Control(t)'
  <2>1. r # Head
    BY <1>13, <1>0, <1>w, Names
  <2>2. info'[t].linking = info[t].linking /\ info'[t].height = info[t].height
    BY <1>6, Names
  <2>3. RestOk(t)'
    BY <1>0, <1>2, <1>3, <2>1, <2>2 DEF Control, RestOk, Linking
  <2> QED BY <1>0, <1>3, <2>3 DEF Control, OpAt, SearchOk, Searching, InserterOk, RemoverOk
<1>16. OwnRemoval(t) /\ OthersRemove(t)
  BY ZenonT(60), SMTT(60), <1>0, <1>3, ClearAlone DEF OwnRemoval, OthersRemove, Active
<1>17. NamesKept(t)
  <2>1. \A u \in Threads : (call[u].op = "insert" /\ info[u].linking) \/ info[u].height = 0 =>
          info'[u].place = info[u].place
    BY <1>0, <1>i, <1>n, ClearAlone, Names
  <2> QED BY <1>0, <1>1, <1>6, <1>w, <2>1, Names DEF NamesKept
<1>18. MarksKept /\ Was(0) \subseteq Was(0)'
  BY <1>0, <1>1, <1>7 DEF MarksKept
<1>19. ASSUME NEW u \in Threads, InCall(u), NEW S \in [Levels -> SUBSET Nodes], Region(u, S)
       PROVE  Region(u, S)'
  <2>1. \A j \in Levels : /\ On(j)' \subseteq S[j] /\ S[j] \subseteq Was(j)' /\ S[j] \subseteq S[0]
                          /\ \A m \in S[j] : cell'[m][j].to # Null => cell'[m][j].to \in S[j]
    BY <1>1, <1>7, <1>8, <1>19 DEF Region
  <2>2. \A m \in S[0] : Safe(u, m)'
    <3> SUFFICES ASSUME NEW m \in S[0] PROVE Safe(u, m)'
      OBVIOUS
    <3>1. CASE m = n
      BY <1>4, <1>i, <1>19, <3>1 DEF Safe
    <3>2. CASE m # n
      <4>1. Safe(u, m) /\ m \in Nodes
        BY <1>0, <1>19 DEF Region
      <4> QED BY <1>4, <1>i, <3>2, <4>1 DEF Safe
    <3> QED BY <3>1, <3>2
  <2>3. call'[u].op \notin {"insert", "remove"}
    BY <1>0, <1>3, ClearAlone DEF Others
  <2> QED BY <2>1, <2>2, <2>3 DEF Region
<1>20. ASSUME NEW u \in Threads, u # t, InCall(u)
       PROVE  \E S \in [Levels -> SUBSET Nodes] : Region(u, S)' /\ Holds(u, S)'
  <2>1. PICK S \in [Levels -> SUBSET Nodes] : Region(u, S) /\ Holds(u, S)
    BY <1>20 DEF Inv, Regions
  <2>2. Region(u, S)'
    BY <1>19, <1>20, <2>1
  <2>3. \A j \in Levels : S[j] \subseteq S[j] /\ S[j] \subseteq Was(0)
    BY <1>0, <2>1 DEF Region
  <2>4. Holds(u, S)'
    BY <1>0, <1>3, <1>17, <1>20, <2>1, <2>3, OthersHold
  <2> QED BY <2>2, <2>4
<1>21. OwnRegion(t)
  <2>1. PICK Q \in [Levels -> SUBSET Nodes] : Region(t, Q) /\ Holds(t, Q)
    BY <1>0 DEF Inv, Regions
  <2>2. Region(t, Q)'
    BY <1>0, <1>19, <2>1
  <2>3. Ready(t)' = {}
    BY <1>3 DEF Ready, Searching
  <2>4. r # Null => r \in Q[0]
    BY <1>0, <1>13, <2>1 DEF Region
  <2>5. Holds(t, Q)'
    BY <1>0, <1>2, <1>3, <2>1, <2>3, <2>4, Names DEF Holds, Searching
  <2> QED BY <2>2, <2>5 DEF OwnRegion
<1> QED
  BY <1>1, <1>3, <1>12, <1>14, <1>15, <1>16, <1>17, <1>18, <1>20, <1>21, StepNext

-----------------------------------------------------------------------------
(* The lists to begin with, and all steps.                                 *)

\* The invariant holds of every list that calls may have made before.
LEMMA InitInv ==
  ASSUME Setting, Init
  PROVE  Inv
<1> DEFINE Behind(h, k, l) == {j \in Keys : j > k /\ h[j] > l}
           To(S) == [to |-> IF S = {} THEN Null ELSE Min(S), marked |-> FALSE]
<1>1. PICK h \in Initial :
        /\ cell = [n \in Nodes \cup {Head} |-> [l \in Levels |->
             CASE n = Head -> To(Behind(h, 0, l))
               [] n \in Keys /\ h[n] > l -> To(Behind(h, n, l))
               [] OTHER -> NoLink]]
        /\ info = [n \in Nodes |->
             [key |-> IF n \in Keys THEN n ELSE 0,
              height |-> IF n \in Keys THEN h[n] ELSE 0,
              linking |-> FALSE, deleted |-> FALSE,
              place |-> IF n \in Keys /\ h[n] > 0 THEN "linked" ELSE "none"]]
  BY DEF Init
<1>2. /\ waits = [n \in Nodes |-> {}] /\ pc = [t \in Threads |-> "idle"]
      /\ walk = [t \in Threads |-> NoWalk] /\ ents = [t \in Threads |-> NoEnts]
      /\ node = [t \in Threads |-> Null] /\ call = [t \in Threads |-> Promise!NoCall]
  BY DEF Init
<1>3. /\ Initial \subseteq [Keys -> 0 .. MaxHeight] /\ MaxHeight \in Nat
      /\ h \in [Keys -> 0 .. MaxHeight] /\ \A k \in Keys : h[k] \in Nat
  BY ListAssumption
<1> DEFINE B(k, l) == Behind(h, k, l)
           H(l) == {k \in Keys : h[k] > l}
           first(k, l) == To(B(k, l)).to
<1>4. \A k \in Nat, l \in Levels :
        /\ first(k, l) = Null => \A j \in H(l) : ~(j > k)
        /\ first(k, l) # Null => /\ first(k, l) \in H(l) /\ first(k, l) > k
                                 /\ \A j \in H(l) : j > k => first(k, l) <= j
        /\ To(B(k, l)) = [to |-> first(k, l), marked |-> FALSE]
  <2> SUFFICES ASSUME NEW k \in Nat, NEW l \in Levels
               PROVE  /\ first(k, l) = Null => \A j \in H(l) : ~(j > k)
                      /\ first(k, l) # Null => /\ first(k, l) \in H(l) /\ first(k, l) > k
                                               /\ \A j \in H(l) : j > k => first(k, l) <= j
                      /\ To(B(k, l)) = [to |-> first(k, l), marked |-> FALSE]
    OBVIOUS
  <2> DEFINE S == B(k, l)
  <2>1. S \subseteq Nat /\ S \subseteq H(l) /\ (\A j \in S : j > k) /\ \A j \in H(l) : j > k => j \in S
    BY Names
  <2>2. first(k, l) = IF S = {} THEN Null ELSE Min(S)
    OBVIOUS
  <2>3. Null \notin H(l)
    BY Names
  <2> HIDE DEF S, first, H
  <2>4. CASE S = {}
    BY <2>1, <2>2, <2>4 DEF first
  <2>5. CASE S # {}
    <3>1. \E x \in S : \A y \in S : x <= y
      BY <2>1, <2>5, LeastNumber
    <3>2. Min(S) \in S /\ \A y \in S : Min(S) <= y
      BY <3>1 DEF Min
    <3>3. first(k, l) = Min(S)
      BY <2>2, <2>5
    <3>4. To(B(k, l)) = [to |-> first(k, l), marked |-> FALSE]
      BY DEF first
    <3> QED BY <2>1, <2>3, <3>2, <3>3, <3>4
  <2> QED BY <2>4, <2>5
<1> DEFINE link(n, l) == IF n = Head THEN To(B(0, l)) ELSE IF n \in H(l) THEN To(B(n, l)) ELSE NoLink
           link1(n, l) == CASE n = Head -> To(Behind(h, 0, l))
                            [] n \in Keys /\ h[n] > l -> To(Behind(h, n, l))
                            [] OTHER -> NoLink
<1>5. /\ cell = [n \in Nodes \cup {Head} |-> [l \in Levels |-> link1(n, l)]]
      /\ \A n, l : link1(n, l) = link(n, l)
  <2>1. cell = [n \in Nodes \cup {Head} |-> [l \in Levels |-> link1(n, l)]]
    BY <1>1
  <2>2. \A n, l : link1(n, l) = link(n, l)
    <3>1. \A n, l : n \in H(l) <=> n \in Keys /\ h[n] > l
      OBVIOUS
    <3> HIDE DEF H, To, Behind
    <3>2. ASSUME NEW n, NEW l PROVE link1(n, l) = link(n, l)
      <4>1. CASE n = Head
        <5>1. n \notin Keys
          BY <4>1, Names
        <5> QED BY <4>1, <5>1
      <4>2. CASE n # Head /\ n \in Keys /\ h[n] > l
        BY <3>1, <4>2
      <4>3. CASE n # Head /\ ~(n \in Keys /\ h[n] > l)
        BY <3>1, <4>3
      <4> QED BY <4>1, <4>2, <4>3
    <3> QED BY <3>2
  <2> QED BY <2>1, <2>2
<1>6. \A n \in Nodes : /\ info[n].key = IF n \in Keys THEN n ELSE 0
                       /\ info[n].height = IF n \in Keys THEN h[n] ELSE 0
                       /\ ~info[n].linking /\ ~info[n].deleted
                       /\ info[n].place = IF n \in Keys /\ h[n] > 0 THEN "linked" ELSE "none"
  BY <1>1
<1>7. \A l \in Levels : H(l) \subseteq Keys /\ H(l) \subseteq Nodes /\ H(l) \subseteq Nat /\ H(l) \subseteq H(0)
  <2>1. \A l \in Levels : l \in Nat
    BY LevelsAre
  <2>2. ASSUME NEW l \in Levels PROVE H(l) \subseteq H(0)
    <3>1. \A k \in Keys : h[k] > l => h[k] > 0
      BY <1>3, <2>1
    <3> QED BY <3>1
  <2>3. \A l \in Levels : H(l) \subseteq Keys
    OBVIOUS
  <2> HIDE DEF H
  <2> QED BY <2>2, <2>3, Names
<1>8. info \in [Nodes -> InfoRec]
  <2> SUFFICES ASSUME NEW n \in Nodes
               PROVE  [key |-> IF n \in Keys THEN n ELSE 0,
                       height |-> IF n \in Keys THEN h[n] ELSE 0,
                       linking |-> FALSE, deleted |-> FALSE,
                       place |-> IF n \in Keys /\ h[n] > 0 THEN "linked" ELSE "none"] \in InfoRec
    BY <1>1
  <2>1. (IF n \in Keys THEN n ELSE 0) \in Nat /\ (IF n \in Keys THEN h[n] ELSE 0) \in 0 .. MaxHeight
    BY <1>3, Names
  <2> QED BY <2>1 DEF InfoRec, Places
<1> HIDE DEF H, first, To, Behind, link1
<1>9. \A n \in Nodes \cup {Head}, l \in Levels :
        /\ cell[n][l] = link(n, l) /\ link(n, l) \in LinkRec /\ ~link(n, l).marked
        /\ n = Head => link(n, l).to = first(0, l)
        /\ n \in H(l) => link(n, l).to = first(n, l)
  <2> SUFFICES ASSUME NEW n \in Nodes \cup {Head}, NEW l \in Levels
               PROVE  /\ cell[n][l] = link(n, l) /\ link(n, l) \in LinkRec /\ ~link(n, l).marked
                      /\ n = Head => link(n, l).to = first(0, l)
                      /\ n \in H(l) => link(n, l).to = first(n, l)
    OBVIOUS
  <2>1. cell[n][l] = link(n, l)
    <3> HIDE DEF link
    <3> QED BY <1>5
  <2>2. ASSUME NEW k \in Nat
        PROVE  /\ To(B(k, l)) \in LinkRec /\ ~To(B(k, l)).marked /\ To(B(k, l)).to = first(k, l)
    <3>1. To(B(k, l)) = [to |-> first(k, l), marked |-> FALSE]
      BY <1>4
    <3>2. first(k, l) \in Nodes \cup {Null}
      BY <1>4, <1>7
    <3> QED BY <3>1, <3>2 DEF LinkRec
  <2>3. NoLink \in LinkRec /\ ~NoLink.marked
    BY DEF NoLink, LinkRec
  <2>4. CASE n = Head
    <3>1. n \notin H(l) /\ link(n, l) = To(B(0, l))
      BY <1>7, <2>4, Names
    <3> QED BY <2>1, <2>2, <2>4, <3>1
  <2>5. CASE n # Head /\ n \in H(l)
    <3>1. link(n, l) = To(B(n, l)) /\ n \in Nat
      BY <1>7, <2>5
    <3> QED BY <2>1, <2>2, <2>5, <3>1
  <2>6. CASE n # Head /\ n \notin H(l)
    BY <2>1, <2>3, <2>6
  <2> QED BY <2>4, <2>5, <2>6
<1>10. cell \in [Nodes \cup {Head} -> [Levels -> LinkRec]]
  <2>1. \A n \in Nodes \cup {Head}, l \in Levels : link1(n, l) \in LinkRec
    <3> HIDE DEF link
    <3> QED BY <1>5, <1>9
  <2> QED BY <1>5, <2>1
<1>11. TypeOK
  <2>1. waits \in [Nodes -> SUBSET Threads] /\ pc \in [Threads -> Labels]
    BY <1>2 DEF Labels
  <2>2. walk \in [Threads -> WalkRec] /\ ents \in [Threads -> [Levels -> EntRec]]
        /\ node \in [Threads -> Nodes \cup {Null}] /\ call \in [Threads -> CallRec]
    BY <1>2, Constants
  <2> QED BY <1>8, <1>10, <2>1, <2>2 DEF TypeOK
<1>12. \A t \in Threads : /\ pc[t] = "idle" /\ ents[t] = NoEnts /\ node[t] = Null /\ call[t].op = "none"
                          /\ info[t].height = 0 /\ info[t].place = "none" /\ ~info[t].linking
                          /\ \A l \in Levels : ~ents[t][l].ok
  <2>1. Promise!NoCall.op = "none"
    BY DEF Promise!NoCall
  <2>2. \A l \in Levels : ~NoEnts[l].ok
    <3>1. \A l \in Levels : NoEnts[l] = [prec |-> Head, next |-> Null, ok |-> FALSE]
      BY Constants
    <3> QED BY <3>1
  <2>3. \A t \in Threads : t \in Nodes /\ t \notin Keys
    BY Names
  <2>4. \A t \in Threads : info[t].height = 0 /\ info[t].place = "none" /\ ~info[t].linking
    BY <1>6, <2>3
  <2> QED BY <1>2, <2>1, <2>2, <2>4
<1>13. ASSUME NEW t \in Threads PROVE Control(t)
  BY <1>12 DEF Control, OpAt, SearchOk, Searching, InserterOk, RemoverOk, RestOk, Linking
<1>14. \A l \in Levels : Was(l) = H(l) /\ On(l) = H(l)
  <2> SUFFICES ASSUME NEW l \in Levels PROVE Was(l) = H(l) /\ On(l) = H(l)
    OBVIOUS
  <2>1. l \in Nat
    BY LevelsAre
  <2>2. \A n \in Nodes : n \in H(l) <=> l < info[n].height
    BY <1>3, <1>6, <2>1 DEF H
  <2>3. Was(l) = H(l)
    BY <1>6, <1>7, <2>2 DEF Was
  <2>4. \A n \in H(l) : info[n].place = "linked"
    <3>1. \A n \in H(l) : n \in Keys /\ h[n] > 0
      BY <1>3, <2>1 DEF H
    <3> QED BY <1>6, <1>7, <3>1
  <2>5. \A n : ~Off(n, l)
    BY <1>12 DEF Off
  <2> QED BY <2>3, <2>4, <2>5 DEF On
<1>15. Placed
  <2>1. \A n \in Nodes : info[n].place \in {"linked", "cut"} => n \in H(0)
    BY <1>6 DEF H
  <2> QED BY <1>6, <1>14, <2>1, LevelsAre DEF Placed
<1>16. ASSUME NEW l \in Levels PROVE Ascends(l) /\ Chained(l) /\ Marks(l)
  <2>1. \A n \in H(l) : info[n].key = n /\ n \in Nodes /\ n \in Nat /\ n \in Keys /\ n > 0
    BY <1>6, <1>7, Names
  <2>2. \A n \in H(l) \cup {Head} : \A m \in H(l) : Below(n, m) <=> (n = Head \/ n < m)
    BY <2>1 DEF Below
  <2>3. \A n \in H(l) : /\ cell[n][l].to = Null => \A m \in H(l) : ~Below(n, m)
                        /\ cell[n][l].to # Null => /\ cell[n][l].to \in H(l) /\ Below(n, cell[n][l].to)
                                                   /\ \A m \in H(l) : Below(n, m) => info[cell[n][l].to].key <= info[m].key
    <3> SUFFICES ASSUME NEW n \in H(l)
                 PROVE  /\ cell[n][l].to = Null => \A m \in H(l) : ~Below(n, m)
                        /\ cell[n][l].to # Null => /\ cell[n][l].to \in H(l) /\ Below(n, cell[n][l].to)
                                                   /\ \A m \in H(l) : Below(n, m) => info[cell[n][l].to].key <= info[m].key
      OBVIOUS
    <3>1. cell[n][l].to = first(n, l) /\ n # Head
      BY <1>9, <2>1, Names
    <3>2. \A m \in H(l) : Below(n, m) <=> m > n
      BY <2>1, <2>2, <3>1
    <3> QED BY <1>4, <2>1, <3>1, <3>2
  <2>4. /\ cell[Head][l].to = Null => \A m \in H(l) : ~Below(Head, m)
        /\ cell[Head][l].to # Null => /\ cell[Head][l].to \in H(l) /\ Below(Head, cell[Head][l].to)
                                      /\ \A m \in H(l) : Below(Head, m) => info[cell[Head][l].to].key <= info[m].key
    <3>1. cell[Head][l].to = first(0, l)
      BY <1>9
    <3>2. \A m \in H(l) : m > 0 /\ info[m].key = m
      BY <2>1
    <3>3. \A m : Below(Head, m)
      BY DEF Below
    <3> QED BY <1>4, <3>1, <3>2, <3>3
  <2>5. Ascends(l)
    BY <1>14, <2>3, <2>4 DEF Ascends
  <2>6. Chained(l)
    <3>1. ~HeadCut(l)
      BY <1>12 DEF HeadCut
    <3>2. \A n \in H(l) \cup {Head} : Leads(n, l)
      BY <1>14, <2>3, <2>4 DEF Leads
    <3>3. \A m, n \in H(l) : info[m].key = info[n].key => m = n
      BY <2>1
    <3> QED BY <1>14, <3>1, <3>2, <3>3 DEF Chained
  <2>7. Marks(l)
    <3>1. \A n \in Nodes \cup {Head} : ~cell[n][l].marked
      BY <1>9
    <3> QED BY <1>14, <2>1, <3>1 DEF Marks
  <2> QED BY <2>5, <2>6, <2>7
<1>17. Graph
  BY <1>15, <1>16 DEF Graph
<1>18. Removals /\ Regions
  BY <1>12 DEF Removals, Active, Regions, InCall
<1>19. Clears
  <2>1. \A n \in Nodes : info[n].place # "cut"
    BY <1>6
  <2> QED BY <1>12, <2>1 DEF Clears, Apart
<1> QED
  BY <1>11, <1>13, <1>17, <1>18, <1>19 DEF Inv

\* Every step keeps the invariant.
LEMMA NextInv ==
  ASSUME Setting, Inv, [Next]_vars
  PROVE  Inv'
<1>1. CASE Start
  <2>1. PICK t \in Threads : Write(t) \/ Read(t) \/ Clear(t)
    BY <1>1 DEF Start
  <2> QED BY <2>1, StartNext
<1>2. ASSUME NEW t \in Threads, Step(t) PROVE Inv'
  <2>1. SearchOn(t) \/ SearchDown(t) \/ Insert(t) \/ Remove(t) \/ Lookup(t) \/ ClearAll(t)
    BY <1>2 DEF Step
  <2>2. CASE SearchOn(t)
    BY <2>2, SearchOnNext
  <2>3. CASE SearchDown(t)
    BY <2>3, SearchDownNext
  <2>4. CASE Insert(t)
    <3>1. CASE InsertSearched(t)
      BY <3>1, FoundNext, NewNodeNext
    <3>2. CASE InsertCheck(t)
      BY <3>2, InsertCheckNext
    <3>3. CASE Store(t)
      BY <3>3, StoreNext
    <3>4. CASE Link(t)
      BY <3>4, LinkNext
    <3>5. CASE LinkRace(t)
      BY <3>5, LinkRaceNext
    <3>6. CASE LinkSearched(t)
      BY <3>6, LinkSearchedNext
    <3>7. CASE InsertUnset(t)
      BY <3>7, InsertUnsetNext
    <3>8. CASE InsertCount(t)
      BY <3>8, InsertCountNext
    <3> QED BY <2>4, <3>1, <3>2, <3>3, <3>4, <3>5, <3>6, <3>7, <3>8 DEF Insert
  <2>5. CASE Remove(t)
    BY <2>5, RemoveSearchedNext, RemoveFlagNext, MarkNext, UnlinkNext, UnlinkFailsNext,
       UnlinkSearchedNext, RetireNext DEF Remove
  <2>6. CASE Lookup(t)
    BY <2>6, ReadSearchedNext, ReadAfterNext, ReadEntryNext DEF Lookup
  <2>7. CASE ClearAll(t)
    BY <2>7, ClearHeadsNext, ClearSwapNext, ClearCollectNext, ClearEndsNext DEF ClearAll
  <2> QED BY <2>1, <2>2, <2>3, <2>4, <2>5, <2>6, <2>7
<1>3. CASE Rest \/ UNCHANGED vars
  <2>1. UNCHANGED <<list, pc, local, call>>
    BY <1>3 DEF Rest, vars
  <2> QED BY <2>1, Stutters
<1> QED
  BY <1>1, <1>2, <1>3 DEF Next

-----------------------------------------------------------------------------
(* What is reached from the head is what is on the level.                  *)

Behind(l, S) == S \cup {cell[n][l].to : n \in S \ {Null}}

\* There are finitely many nodes.
LEMMA Sizes ==
  /\ IsFiniteSet(Nodes) /\ Cardinality(Nodes) \in Nat
<1>1. IsFiniteSet(Keys) /\ IsFiniteSet(Threads)
  BY ListAssumption
<1>2. IsFiniteSet(Nodes)
  BY <1>1, FS_Union DEF Nodes
<1> QED
  BY <1>2, FS_CardinalityType

\* There is a function as OnLevel defines it.
LEMMA ReachExists ==
  ASSUME NEW l, NEW N \in Nat
  PROVE  \E f : f = [i \in 0 .. N |-> IF i = 0 THEN {cell[Head][l].to} ELSE Behind(l, f[i - 1])]
<1> DEFINE Is(f, j) == f = [i \in 0 .. j |-> IF i = 0 THEN {cell[Head][l].to} ELSE Behind(l, f[i - 1])]
           None == {j \in Nat : ~\E f : Is(f, j)}
<1>1. SUFFICES ASSUME None # {} PROVE FALSE
  <2>1. None = {} => \E f : Is(f, N)
    OBVIOUS
  <2> QED BY <2>1
<1>2. PICK k \in None : \A j \in None : k <= j
  <2>1. None \subseteq Nat
    OBVIOUS
  <2> HIDE DEF None
  <2> QED BY <1>1, <2>1, LeastNumber
<1>3. CASE k = 0
  <2> DEFINE f == [i \in 0 .. 0 |-> {cell[Head][l].to}]
  <2>1. Is(f, 0)
    OBVIOUS
  <2> QED BY <1>2, <1>3, <2>1
<1>4. CASE k # 0
  <2>0. None \subseteq Nat
    OBVIOUS
  <2>1. k \in Nat /\ k - 1 \in Nat /\ k - 1 \notin None
    <3> HIDE DEF None
    <3> QED BY <1>2, <1>4, <2>0
  <2>2. PICK f : Is(f, k - 1)
    BY <2>1
  <2> DEFINE g == [i \in 0 .. k |-> IF i = k THEN Behind(l, f[k - 1]) ELSE f[i]]
  <2>3. \A i \in 0 .. k - 1 : f[i] = IF i = 0 THEN {cell[Head][l].to} ELSE Behind(l, f[i - 1])
    BY <2>2
  <2>4. \A i \in 0 .. k : /\ g[i] = IF i = k THEN Behind(l, f[k - 1]) ELSE f[i]
                          /\ i # 0 => g[i - 1] = f[i - 1]
    BY <2>1
  <2>5. g = [i \in 0 .. k |-> g[i]]
    OBVIOUS
  <2> HIDE DEF g
  <2>6. ASSUME NEW i \in 0 .. k PROVE g[i] = IF i = 0 THEN {cell[Head][l].to} ELSE Behind(l, g[i - 1])
    <3>1. CASE i = k
      BY <1>4, <2>4, <3>1
    <3>2. CASE i # k
      <4>1. i \in 0 .. k - 1
        BY <2>1, <3>2
      <4> QED BY <2>3, <2>4, <3>2, <4>1
    <3> QED BY <3>1, <3>2
  <2>7. Is(g, k)
    BY <2>5, <2>6
  <2> QED BY <1>2, <2>7
<1> QED
  BY <1>3, <1>4

\* OnLevel follows the links from the head as often as there are nodes.
LEMMA OnLevelIs ==
  ASSUME NEW l
  PROVE  \E f : /\ f[0] = {cell[Head][l].to}
                /\ \A i \in 1 .. Cardinality(Nodes) : f[i] = Behind(l, f[i - 1])
                /\ OnLevel(l) = f[Cardinality(Nodes)] \ {Null}
<1> DEFINE N == Cardinality(Nodes)
           Is(f) == f = [i \in 0 .. N |-> IF i = 0 THEN {cell[Head][l].to}
                                          ELSE f[i - 1] \cup {cell[n][l].to : n \in f[i - 1] \ {Null}}]
           reach == CHOOSE f : Is(f)
<1>1. N \in Nat
  BY Sizes
<1>2. \E f : Is(f)
  <2>1. \E f : f = [i \in 0 .. N |-> IF i = 0 THEN {cell[Head][l].to} ELSE Behind(l, f[i - 1])]
    <3> HIDE DEF N
    <3> QED BY ZenonT(60), SMTT(60), <1>1, ReachExists
  <2> QED BY <2>1 DEF Behind
<1>3. Is(reach)
  <2> HIDE DEF Is
  <2> QED BY <1>2
<1>4. OnLevel(l) = reach[N] \ {Null}
  BY DEF OnLevel
<1> HIDE DEF reach
<1>5. \A i \in 0 .. N : reach[i] = IF i = 0 THEN {cell[Head][l].to} ELSE Behind(l, reach[i - 1])
  BY <1>3 DEF Behind
<1>6. reach[0] = {cell[Head][l].to} /\ \A i \in 1 .. N : reach[i] = Behind(l, reach[i - 1])
  <2> HIDE DEF N
  <2> QED BY <1>1, <1>5
<1> QED
  BY <1>4, <1>6

\* Nothing is reached that the links do not lead to.
LEMMA ReachedIn ==
  ASSUME NEW l, NEW X, cell[Head][l].to \in X \cup {Null},
         \A n \in X : cell[n][l].to \in X \cup {Null}
  PROVE  OnLevel(l) \subseteq X
<1> DEFINE N == Cardinality(Nodes)
<1>1. PICK f : /\ f[0] = {cell[Head][l].to}
               /\ \A i \in 1 .. N : f[i] = Behind(l, f[i - 1])
               /\ OnLevel(l) = f[N] \ {Null}
  BY OnLevelIs
<1>2. N \in Nat
  BY Sizes
<1> HIDE DEF N
<1> DEFINE Bad == {i \in 0 .. N : ~(f[i] \subseteq X \cup {Null})}
<1>3. Bad = {}
  <2>1. SUFFICES ASSUME Bad # {} PROVE FALSE
    OBVIOUS
  <2>2. PICK k \in Bad : \A j \in Bad : k <= j
    <3>1. Bad \subseteq Nat
      BY <1>2
    <3> HIDE DEF Bad
    <3> QED BY <2>1, <3>1, LeastNumber
  <2>3. k # 0 /\ k \in 0 .. N
    BY <1>1, <2>2
  <2>4. k - 1 \in 0 .. N /\ k \in 1 .. N /\ k - 1 \notin Bad
    BY <1>2, <2>2, <2>3
  <2>5. f[k - 1] \subseteq X \cup {Null} /\ f[k] = Behind(l, f[k - 1])
    BY <1>1, <2>4
  <2>6. f[k] \subseteq X \cup {Null}
    BY <2>5 DEF Behind
  <2> QED BY <2>2, <2>6
<1>4. f[N] \subseteq X \cup {Null}
  BY <1>2, <1>3
<1> QED
  BY <1>1, <1>4

\* The nodes with smaller keys.
Less(l, m) == {j \in On(l) : info[j].key < info[m].key}

\* A node on a level has fewer nodes in front of it than those behind it.
LEMMA LessSizes ==
  ASSUME TypeOK, NEW l \in Levels, NEW m \in On(l)
  PROVE  /\ IsFiniteSet(Less(l, m)) /\ Cardinality(Less(l, m)) \in Nat
         /\ Cardinality(Less(l, m)) <= Cardinality(Nodes)
         /\ \A p \in Less(l, m) : /\ Cardinality(Less(l, p)) < Cardinality(Less(l, m))
                                  /\ Cardinality(Less(l, p)) \in Nat
<1>0. \A j \in On(l) : j \in Nodes /\ info[j].key \in Nat
  BY NodesTyped DEF On, Was
<1>1. \A S \in SUBSET Nodes : IsFiniteSet(S) /\ Cardinality(S) \in Nat /\ Cardinality(S) <= Cardinality(Nodes)
  BY Sizes, FS_Subset, FS_CardinalityType
<1>2. \A j \in On(l) : Less(l, j) \in SUBSET Nodes
  BY <1>0 DEF Less
<1>3. ASSUME NEW p \in Less(l, m) PROVE Cardinality(Less(l, p)) < Cardinality(Less(l, m))
  <2>0. p \in On(l) /\ info[p].key < info[m].key
    BY DEF Less
  <2>1. Less(l, p) \subseteq Less(l, m) \ {p}
    BY <1>0, <2>0 DEF Less
  <2>2. IsFiniteSet(Less(l, m)) /\ IsFiniteSet(Less(l, m) \ {p}) /\ Cardinality(Less(l, m)) \in Nat
    BY <1>1, <1>2, FS_Subset
  <2>3. Cardinality(Less(l, m) \ {p}) = Cardinality(Less(l, m)) - 1
    BY <2>2, FS_RemoveElement
  <2>4. Cardinality(Less(l, p)) <= Cardinality(Less(l, m) \ {p}) /\ Cardinality(Less(l, p)) \in Nat
    BY <1>1, <1>2, <2>0, <2>1, <2>2, FS_Subset
  <2> QED BY <2>2, <2>3, <2>4
<1> QED
  BY <1>1, <1>2, <1>3 DEF Less

\* What is on the level is reached, unless clear has taken it away.
LEMMA OnReached ==
  ASSUME Setting, Inv, NEW l \in Levels, ~HeadCut(l)
  PROVE  On(l) \subseteq OnLevel(l)
<1>0. /\ TypeOK /\ Leads(Head, l) /\ (\A m \in On(l) : Leads(m, l)) /\ Ascends(l) /\ Marks(l)
      /\ \A m, n \in On(l) : info[m].key = info[n].key => m = n
  BY DEF Inv, Graph, Chained
<1>k. \A m \in On(l) : /\ m \in Nodes /\ m \in Was(l) /\ info[m].key \in Nat /\ info[m].key \in Keys
                       /\ m # Head /\ m # Null
  BY <1>0, NodesTyped, Names DEF On, Was, Marks
<1> DEFINE N == Cardinality(Nodes)
           rank(m) == Cardinality(Less(l, m))
<1>1. PICK f : /\ f[0] = {cell[Head][l].to}
               /\ \A i \in 1 .. N : f[i] = Behind(l, f[i - 1])
               /\ OnLevel(l) = f[N] \ {Null}
  BY OnLevelIs
<1>2. N \in Nat /\ \A m \in On(l) : rank(m) \in Nat /\ rank(m) <= N
  BY <1>0, Sizes, LessSizes
<1>3. \A m \in On(l) : \A p \in Less(l, m) : rank(p) < rank(m)
  BY <1>0, LessSizes
<1>4. ASSUME NEW m \in On(l), Less(l, m) = {} PROVE cell[Head][l].to = m
  <2> DEFINE q == cell[Head][l].to
  <2>1. q # Null /\ q \in On(l) /\ info[q].key <= info[m].key
    BY <1>0 DEF Leads, Below
  <2> HIDE DEF q
  <2>2. ~(info[q].key < info[m].key)
    BY <1>4, <2>1 DEF Less
  <2>3. info[q].key = info[m].key
    BY <1>k, <2>1, <2>2
  <2>4. q = m
    BY <1>0, <2>1, <2>3
  <2> QED BY <2>4 DEF q
<1>5. ASSUME NEW m \in On(l), Less(l, m) # {}
      PROVE  \E p \in Less(l, m) : cell[p][l].to = m
  <2> DEFINE S == {info[j].key : j \in Less(l, m)}
  <2>1. S \subseteq Keys /\ S \subseteq Nat /\ S # {}
    BY <1>5, <1>k DEF Less
  <2>2. IsFiniteSet(S)
    BY <2>1, ListAssumption, FS_Subset
  <2>3. PICK k \in S : \A j \in S : k >= j
    <3> HIDE DEF S
    <3> QED BY <2>1, <2>2, GreatestOf
  <2>4. PICK p \in Less(l, m) : info[p].key = k
    BY <2>3
  <2>5. p \in On(l) /\ info[p].key < info[m].key /\ \A j \in Less(l, m) : info[j].key <= info[p].key
    BY <1>k, <2>3, <2>4 DEF Less
  <2> DEFINE q == cell[p][l].to
  <2>6. q # Null /\ q \in On(l) /\ info[q].key <= info[m].key
    <3>1. Leads(p, l) /\ Below(p, m)
      BY <1>0, <2>5 DEF Below
    <3> QED BY <3>1 DEF Leads
  <2>7. info[p].key < info[q].key
    BY <1>0, <1>k, <2>5, <2>6 DEF Ascends, Below
  <2> HIDE DEF q
  <2>8. q \notin Less(l, m)
    BY <1>k, <2>5, <2>6, <2>7
  <2>9. info[q].key = info[m].key
    BY <1>k, <2>6, <2>8 DEF Less
  <2>10. q = m
    BY <1>0, <2>6, <2>9
  <2> QED BY <2>10 DEF q
<1> HIDE DEF N, rank
<1> DEFINE Good(i) == \A m \in On(l) : rank(m) <= i => m \in f[i]
           Bad == {i \in 0 .. N : ~Good(i)}
<1>6. Good(0)
  <2> SUFFICES ASSUME NEW m \in On(l), rank(m) <= 0 PROVE m \in f[0]
    OBVIOUS
  <2>1. Less(l, m) = {}
    <3> SUFFICES ASSUME NEW p \in Less(l, m) PROVE FALSE
      OBVIOUS
    <3>1. p \in On(l)
      BY DEF Less
    <3> QED BY <1>2, <1>3, <3>1
  <2> QED BY <1>1, <1>4, <2>1
<1>7. ASSUME NEW i \in 1 .. N, Good(i - 1) PROVE Good(i)
  <2> SUFFICES ASSUME NEW m \in On(l), rank(m) <= i PROVE m \in f[i]
    OBVIOUS
  <2>1. f[i] = Behind(l, f[i - 1])
    BY <1>1
  <2>2. CASE Less(l, m) = {}
    <3>1. \A p \in On(l) : rank(p) \in Nat
      BY <1>2
    <3>2. CASE rank(m) <= i - 1
      BY <1>7, <2>1, <3>2 DEF Behind
    <3>3. CASE rank(m) # 0
      <4>1. rank(m) = 0
        BY <2>2, FS_EmptySet DEF rank
      <4> QED BY <3>3, <4>1
    <3>4. CASE rank(m) = 0
      BY <1>2, <1>7, <2>1, <3>4 DEF Behind
    <3> QED BY <3>3, <3>4
  <2>3. CASE Less(l, m) # {}
    <3>1. PICK p \in Less(l, m) : cell[p][l].to = m
      BY <1>5, <2>3
    <3>2. p \in On(l) /\ rank(p) < rank(m)
      BY <1>3, <3>1 DEF Less
    <3>3. rank(p) <= i - 1
      BY <1>2, <3>2
    <3>4. p \in f[i - 1] /\ p # Null
      BY <1>7, <1>k, <3>2, <3>3
    <3> QED BY <2>1, <3>1, <3>4 DEF Behind
  <2> QED BY <2>2, <2>3
<1>8. Bad = {}
  <2>1. SUFFICES ASSUME Bad # {} PROVE FALSE
    OBVIOUS
  <2>2. PICK k \in Bad : \A j \in Bad : k <= j
    <3>1. Bad \subseteq Nat
      BY <1>2
    <3> HIDE DEF Bad
    <3> QED BY <2>1, <3>1, LeastNumber
  <2>3. k # 0 /\ k \in 0 .. N /\ ~Good(k)
    BY <1>6, <2>2
  <2> HIDE DEF Good
  <2>4. k - 1 \in 0 .. N /\ k \in 1 .. N /\ k - 1 \notin Bad
    BY <1>2, <2>2, <2>3
  <2>5. Good(k - 1)
    BY <2>4
  <2> QED BY <1>7, <2>3, <2>4, <2>5
<1>9. Good(N)
  <2> HIDE DEF Good
  <2> QED BY <1>2, <1>8
<1>10. On(l) \subseteq f[N]
  BY <1>2, <1>9
<1> QED
  BY <1>1, <1>10, <1>k

-----------------------------------------------------------------------------
(* The theorems.                                                           *)

\* Types, and with them the invariant from which the others follow: a search of any
\* call, however often it is overtaken, comes only to nodes that were on the level,
\* that are safe from being freed, and from which all links lead on to such nodes.
THEOREM InvHolds ==
  ASSUME Setting
  PROVE  Spec => []Inv
<1>1. Init => Inv
  BY InitInv
<1>2. Inv /\ [Next]_vars => Inv'
  BY NextInv
<1> QED
  BY <1>1, <1>2, PTL DEF Spec

\* What the heads lead to are the nodes on the level, unless clear took it.
LEMMA SoundFromInv ==
  ASSUME Setting, Inv
  PROVE  LinksSound
<1>0. TypeOK /\ Graph /\ Base /\ Clears /\ Removals /\ 0 \in Levels
  BY LevelsAre DEF Inv, Base, Graph
<1>1. ASSUME NEW l \in Levels PROVE OnLevel(l) \subseteq On(l) /\ (HeadCut(l) => OnLevel(l) = {})
  <2>1. /\ HeadCut(l) => cell[Head][l].to = Null
        /\ cell[Head][l].to # Null => cell[Head][l].to \in On(l)
        /\ \A n \in On(l) : cell[n][l].to # Null => cell[n][l].to \in On(l)
    BY <1>0, LinksLead DEF Graph, Chained
  <2>2. OnLevel(l) \subseteq On(l)
    BY <2>1, ReachedIn
  <2>3. HeadCut(l) => OnLevel(l) \subseteq {}
    <3> SUFFICES ASSUME HeadCut(l) PROVE OnLevel(l) \subseteq {}
      OBVIOUS
    <3>0. \E X : X = {}
      OBVIOUS
    <3>1. PICK X : X = {}
      BY <3>0
    <3>2. cell[Head][l].to \in X \cup {Null}
      BY <2>1
    <3>3. \A n \in X : cell[n][l].to \in X \cup {Null}
      BY <3>1
    <3>4. OnLevel(l) \subseteq X
      BY <3>2, <3>3, ReachedIn
    <3> QED BY <3>1, <3>4
  <2> QED BY <2>2, <2>3
<1>2. LevelsSorted
  <2> SUFFICES ASSUME NEW l \in Levels, NEW n \in OnLevel(l)
               PROVE  /\ cell[n][l].to # Null => info[n].key < info[cell[n][l].to].key
                      /\ info[n].place = "linked" /\ info[n].height > l
    BY DEF LevelsSorted
  <2>1. n \in On(l) /\ n \in Was(l) /\ n \in Nodes /\ l < info[n].height /\ ~HeadCut(l)
    BY <1>1 DEF On, Was
  <2>2. cell[n][l].to # Null => info[n].key < info[cell[n][l].to].key
    BY <1>0, <2>1, Names DEF Graph, Ascends, Below
  <2>3. info[n].place = "linked"
    BY <1>0, <2>1 DEF On, Clears, HeadCut
  <2>4. info[n].height > l
    <3>1. info[n].height \in Nat /\ l \in {0, 1}
      BY <1>0, <2>1, NodesTyped, LevelsAre
    <3> QED BY <2>1, <3>1
  <2> QED BY <2>2, <2>3, <2>4
<1>3. LevelsComplete
  <2> SUFFICES ASSUME \A c \in Threads : pc[c] # "heads", NEW n \in Nodes, NEW l \in Levels,
                      info[n].place = "linked", ~info[n].deleted, l < info[n].height,
                      l = 0 \/ ~info[n].linking
               PROVE  n \in OnLevel(l)
    BY DEF LevelsComplete
  <2>1. n \in Was(l)
    <3>1. CASE l = 0
      BY <1>0, <3>1 DEF Graph, Placed
    <3>2. CASE ~info[n].linking
      BY <3>2 DEF Was
    <3> QED BY <3>1, <3>2
  <2>2. ~Off(n, l)
    <3>1. \A u \in Threads : Active(u) => node[u] # n
      BY <1>0 DEF Removals, RemovalOk
    <3> QED BY <1>0, <3>1, NotRemoved
  <2>3. ~HeadCut(l)
    BY <1>0 DEF HeadCut, Clears
  <2> QED BY <2>1, <2>2, <2>3, OnReached DEF On
<1> QED
  BY <1>2, <1>3 DEF LinksSound

\* Insertions and removals that race level by level, with clear before or after them,
\* keep a skip list of one or two levels sorted, and no node that stays is lost from
\* a level: for any number of threads and keys, whatever the exchanges find.
THEOREM LinksStaySound ==
  ASSUME Setting
  PROVE  Spec => []LinksSound
<1>1. Inv => LinksSound
  BY ZenonT(60), SMTT(60), SoundFromInv
<1> QED
  BY <1>1, InvHolds, PTL

\* What a call has at hand is in its region, and nothing in it is freed.
LEMMA SafeFromInv ==
  ASSUME Setting, Inv
  PROVE  NoUseAfterFree
<1> SUFFICES ASSUME NEW t \in Threads, InCall(t), NEW n \in Handled(t) \ {Null, Head}
             PROVE  ~Freed(n)
  BY DEF NoUseAfterFree
<1>0. TypeOK /\ Graph /\ Base /\ Control(t) /\ 0 \in Levels
  BY LevelsAre DEF Inv, Base, Graph
<1>1. PICK Q \in [Levels -> SUBSET Nodes] : Region(t, Q) /\ Holds(t, Q)
  BY DEF Inv, Regions
<1>2. \A m \in Q[0] : ~Freed(m)
  BY <1>1 DEF Region, Safe, Freed
<1>3. \A l \in Levels : Q[l] \subseteq Q[0] /\ On(l) \subseteq Q[l] /\
        \A m \in Q[l] : cell[m][l].to # Null => cell[m][l].to \in Q[l]
  BY <1>1 DEF Region
<1>4. CASE n = walk[t].at
  <2>1. n \in Nodes /\ walk[t].level \in Levels
    BY <1>0, <1>4, Typed
  <2>2. n \in Q[0]
    BY <1>0, <1>1, <1>3, <1>4, <2>1 DEF Holds
  <2> QED BY <1>2, <2>2
<1>5. CASE n = walk[t].found
  BY <1>1, <1>2, <1>5 DEF Holds
<1>6. CASE n = node[t]
  <2>1. CASE call[t].op = "remove"
    BY <1>1, <1>2, <1>6, <2>1 DEF Holds
  <2>2. CASE call[t].op # "remove"
    <3>1. pc[t] \in Linking \cup {"count", "flag", "mark", "unlink", "retire"}
      BY <1>0, <1>6 DEF Control, RestOk
    <3>2. call[t].op = "insert" /\ pc[t] \in Linking \cup {"count"}
      BY <1>0, <2>2, <3>1 DEF Control, OpAt, Linking
    <3>3. CASE pc[t] = "count"
      BY <1>0, <1>1, <1>2, <1>6, <3>3 DEF Control, RestOk, Holds
    <3>4. CASE pc[t] \in Linking
      BY <1>0, <1>6, <3>2, <3>4 DEF Control, InserterOk, Freed
    <3> QED BY <3>2, <3>3, <3>4
  <2> QED BY <2>1, <2>2
<1>7. ASSUME NEW l \in Ready(t)
      PROVE  /\ l \in Levels /\ ents[t][l].prec # Null
             /\ ents[t][l].prec # Head => ents[t][l].prec \in Q[l]
  BY <1>1 DEF Holds, EntOk, Ready
<1>8. ASSUME pc[t] \in {"link", "exchange", "unlink"}, NEW l \in Undone(ents[t], node[t]), n = ents[t][l].prec
      PROVE  ~Freed(n)
  <2>1. node[t] \in Nodes
    <3>1. node[t] # Null
      BY <1>0, <1>8, Names DEF Control, OpAt, InserterOk, RemoverOk, Linking
    <3> QED BY <1>0, <3>1, Typed
  <2>2. l \in Ready(t)
    BY <1>0, <1>8, <2>1, UndoneLevels DEF Ready
  <2> QED BY <1>2, <1>3, <1>7, <1>8, <2>2
<1>9. ASSUME pc[t] = "exchange", n = cell[ents[t][walk[t].level].prec][walk[t].level].to
      PROVE  ~Freed(n)
  <2>1. walk[t].level \in Ready(t)
    BY <1>0, <1>9, Typed DEF Control, OpAt, InserterOk, Linking, Ready
  <2>2. n \in Q[walk[t].level]
    BY <1>0, <1>3, <1>7, <1>9, <2>1, LinksLead
  <2> QED BY ZenonT(60), SMTT(60), <1>2, <1>3, <1>7, <2>1, <2>2
<1> QED
  BY <1>4, <1>5, <1>6, <1>8, <1>9 DEF Handled

\* No call holds the address of a node that was freed: a node that a call may still
\* come to waits in the garbage for that call, although other nodes, themselves in
\* the garbage or not, lead to it.
THEOREM NoUseAfterFreeHolds ==
  ASSUME Setting
  PROVE  Spec => []NoUseAfterFree
<1>1. Inv => NoUseAfterFree
  BY SafeFromInv
<1> QED
  BY <1>1, InvHolds, PTL

-----------------------------------------------------------------------------
(* len.  A node is linked, then counted; deleted, then counted off.        *)

\* What the theorem on len assumes besides: clear, which does not count, is not called.
NoClear == \A r \in Roles, t \in Threads : r[t] # "clearer"

\* Insertions that have linked their node and not counted it.
Owed(t) ==
  /\ call[t].op = "insert"
  /\ pc[t] = "count" \/ (pc[t] \in Linking /\ ents[t][0].ok)

Owing == {t \in Threads : Owed(t)}
Leaving == {t \in Threads : Active(t)}
Kept == {n \in Nodes : info[n].place = "linked" /\ ~info[n].deleted}

CountOk ==
  /\ count \in Int
  /\ count + Cardinality(Owing) = Cardinality(Kept) + Cardinality(Leaving)

NoneClears == role \in Roles /\ \A t \in Threads : call[t].op # "clear"

\* Steps that neither count nor change what is to be counted.
CountSame(t) ==
  /\ count' = count /\ Kept' = Kept
  /\ Owed(t)' <=> Owed(t)
  /\ Active(t)' <=> Active(t)

\* The sets that are counted are finite.
LEMMA CountedSets ==
  /\ IsFiniteSet(Owing) /\ Cardinality(Owing) \in Nat
  /\ IsFiniteSet(Leaving) /\ Cardinality(Leaving) \in Nat
  /\ IsFiniteSet(Kept) /\ Cardinality(Kept) \in Nat
<1>1. IsFiniteSet(Threads) /\ IsFiniteSet(Nodes)
  BY ListAssumption, Sizes
<1>2. Owing \in SUBSET Threads /\ Leaving \in SUBSET Threads /\ Kept \in SUBSET Nodes
  BY DEF Owing, Leaving, Kept
<1>3. IsFiniteSet(Owing) /\ IsFiniteSet(Leaving) /\ IsFiniteSet(Kept)
  BY <1>1, <1>2, FS_Subset
<1> QED
  BY <1>3, FS_CardinalityType

\* What the other threads have to count stays.
LEMMA OthersOwe ==
  ASSUME NEW t \in Threads, Others(t)
  PROVE  /\ Owing' = IF Owed(t)' THEN Owing \cup {t} ELSE Owing \ {t}
         /\ Leaving' = IF Active(t)' THEN Leaving \cup {t} ELSE Leaving \ {t}
<1>1. ASSUME NEW u \in Threads, u # t
      PROVE  (Owed(u)' <=> Owed(u)) /\ (Active(u)' <=> Active(u))
  BY <1>1 DEF Others, Owed, Active
<1>2. \A u \in Threads : u \in Owing' <=> IF u = t THEN Owed(t)' ELSE u \in Owing
  BY <1>1 DEF Owing
<1>3. \A u \in Threads : u \in Leaving' <=> IF u = t THEN Active(t)' ELSE u \in Leaving
  BY <1>1 DEF Leaving
<1>4. Owing \subseteq Threads /\ Owing' \subseteq Threads /\ Leaving \subseteq Threads /\ Leaving' \subseteq Threads
  BY DEF Owing, Leaving
<1>5. Owing' = IF Owed(t)' THEN Owing \cup {t} ELSE Owing \ {t}
  BY <1>2, <1>4
<1>6. Leaving' = IF Active(t)' THEN Leaving \cup {t} ELSE Leaving \ {t}
  BY <1>3, <1>4
<1> QED
  BY <1>5, <1>6

\* What is counted stays right when nothing changes that is.
LEMMA CountStays ==
  ASSUME CountOk, NEW t \in Threads, Others(t), CountSame(t)
  PROVE  CountOk'
<1>1. (t \in Owing <=> Owed(t)) /\ (t \in Leaving <=> Active(t))
  BY DEF Owing, Leaving
<1>2. Owing' = Owing
  BY <1>1, OthersOwe DEF CountSame
<1>3. Leaving' = Leaving
  BY <1>1, OthersOwe DEF CountSame
<1> QED
  BY <1>2, <1>3 DEF CountOk, CountSame

\* Counting a node that was linked.
LEMMA CountsIn ==
  ASSUME CountOk, NEW t \in Threads, Others(t), count' = count + 1, Kept' = Kept,
         Owed(t), ~Owed(t)', Active(t)' <=> Active(t)
  PROVE  CountOk'
<1>1. t \in Owing /\ (t \in Leaving <=> Active(t))
  BY DEF Owing, Leaving
<1>2. Owing' = Owing \ {t} /\ Leaving' = Leaving
  BY <1>1, OthersOwe
<1>3. Cardinality(Owing \ {t}) = Cardinality(Owing) - 1
  BY <1>1, CountedSets, FS_RemoveElement
<1>4. Cardinality(Owing') = Cardinality(Owing) - 1 /\ Cardinality(Leaving') = Cardinality(Leaving)
  BY <1>2, <1>3
<1>5. Cardinality(Kept') = Cardinality(Kept)
  OBVIOUS
<1> QED
  BY <1>4, <1>5, CountedSets DEF CountOk

\* Counting off a node that was deleted.
LEMMA CountsOff ==
  ASSUME CountOk, NEW t \in Threads, Others(t), count' = count - 1, Kept' = Kept,
         Active(t), ~Active(t)', Owed(t)' <=> Owed(t)
  PROVE  CountOk'
<1>1. t \in Leaving /\ (t \in Owing <=> Owed(t))
  BY DEF Owing, Leaving
<1>2. Leaving' = Leaving \ {t} /\ Owing' = Owing
  BY <1>1, OthersOwe
<1>3. Cardinality(Leaving \ {t}) = Cardinality(Leaving) - 1
  BY <1>1, CountedSets, FS_RemoveElement
<1>4. Cardinality(Leaving') = Cardinality(Leaving) - 1 /\ Cardinality(Owing') = Cardinality(Owing)
  BY <1>2, <1>3
<1>5. Cardinality(Kept') = Cardinality(Kept)
  OBVIOUS
<1> QED
  BY <1>4, <1>5, CountedSets DEF CountOk

\* A node that is linked is to be counted.
LEMMA CountsLinked ==
  ASSUME CountOk, NEW t \in Threads, Others(t), count' = count, NEW n \in Nodes,
         n \notin Kept, Kept' = Kept \cup {n}, ~Owed(t), Owed(t)', Active(t)' <=> Active(t)
  PROVE  CountOk'
<1>1. t \notin Owing /\ (t \in Leaving <=> Active(t))
  BY DEF Owing, Leaving
<1>2. Owing' = Owing \cup {t} /\ Leaving' = Leaving
  BY <1>1, OthersOwe
<1>3. Cardinality(Owing \cup {t}) = Cardinality(Owing) + 1
  BY <1>1, CountedSets, FS_AddElement
<1>4. Cardinality(Kept \cup {n}) = Cardinality(Kept) + 1
  BY CountedSets, FS_AddElement
<1>5. /\ Cardinality(Owing') = Cardinality(Owing) + 1 /\ Cardinality(Leaving') = Cardinality(Leaving)
      /\ Cardinality(Kept') = Cardinality(Kept) + 1
  BY <1>2, <1>3, <1>4
<1> QED
  BY <1>5, CountedSets DEF CountOk

\* A node that is deleted is to be counted off.
LEMMA CountsDeleted ==
  ASSUME CountOk, NEW t \in Threads, Others(t), count' = count, NEW n \in Kept,
         Kept' = Kept \ {n}, ~Active(t), Active(t)', Owed(t)' <=> Owed(t)
  PROVE  CountOk'
<1>1. t \notin Leaving /\ (t \in Owing <=> Owed(t))
  BY DEF Owing, Leaving
<1>2. Leaving' = Leaving \cup {t} /\ Owing' = Owing
  BY <1>1, OthersOwe
<1>3. Cardinality(Leaving \cup {t}) = Cardinality(Leaving) + 1
  BY <1>1, CountedSets, FS_AddElement
<1>4. Cardinality(Kept \ {n}) = Cardinality(Kept) - 1
  BY CountedSets, FS_RemoveElement
<1>5. /\ Cardinality(Leaving') = Cardinality(Leaving) + 1 /\ Cardinality(Owing') = Cardinality(Owing)
      /\ Cardinality(Kept') = Cardinality(Kept) - 1
  BY <1>2, <1>3, <1>4
<1> QED
  BY <1>5, CountedSets DEF CountOk

\* A step outside of linking and removing leaves the count alone.
LEMMA CountQuiet ==
  ASSUME NEW t \in Threads, count' = count, info' = info, ~Owed(t), ~Active(t),
         pc'[t] \notin Linking \cup {"count", "mark", "unlink", "retire"}
  PROVE  CountSame(t)
BY DEF CountSame, Owed, Active, Kept, Linking

\* So does one that goes on linking, or on unlinking.
LEMMA CountGoesOn ==
  ASSUME NEW t \in Threads, count' = count, info' = info, call'[t] = call[t],
         \/ /\ call[t].op = "insert" /\ pc[t] \in Linking /\ pc'[t] \in Linking
            /\ ents'[t][0].ok <=> ents[t][0].ok
         \/ Active(t) /\ pc'[t] \in {"mark", "unlink", "search_again", "retire"}
         \/ pc'[t] = pc[t] /\ (ents'[t][0].ok <=> ents[t][0].ok)
  PROVE  CountSame(t)
BY DEF CountSame, Owed, Active, Kept, Linking

\* Nothing is owed by a call that searches, looks at something, or waits.
LEMMA NothingOwed ==
  ASSUME NEW t \in Threads,
         pc[t] \in {"idle", "search", "check", "flag", "entry", "after", "done"}
  PROVE  ~Owed(t) /\ ~Active(t)
BY DEF Owed, Active, Linking

\* Noting a level leaves alone what was done there.
LEMMA NotedSame ==
  ASSUME Setting, TypeOK, NEW t \in Threads
  PROVE  NewEnts(t)[0].ok <=> ents[t][0].ok
<1>1. ents[t] \in [Levels -> EntRec] /\ walk[t].level \in Levels /\ 0 \in Levels
  BY Typed, LevelsAre
<1>2. CASE ents[t][walk[t].level].ok
  BY <1>2 DEF NewEnts
<1>3. CASE ~ents[t][walk[t].level].ok
  <2> DEFINE e == [prec |-> walk[t].at, next |-> Met(t), ok |-> FALSE]
  <2>1. NewEnts(t) = [ents[t] EXCEPT ![walk[t].level] = e]
    BY <1>3 DEF NewEnts
  <2>2. CASE walk[t].level = 0
    BY <1>1, <1>3, <2>1, <2>2
  <2>3. CASE walk[t].level # 0
    BY <1>1, <2>1, <2>3
  <2> QED BY <2>2, <2>3
<1> QED
  BY <1>2, <1>3

\* Searching counts nothing.
LEMMA SearchCount ==
  ASSUME Setting, Inv, CountOk, NEW t \in Threads, SearchOn(t) \/ SearchDown(t)
  PROVE  CountOk'
<1>0. TypeOK /\ Control(t) /\ Searching(t) /\ count' = count /\ call[t].op \in OpAt(pc[t])
  BY DEF Inv, Control, SearchOn, SearchDown, MetEnough, list
<1>1. CASE SearchOn(t)
  <2>1. Others(t) /\ info' = info /\ pc'[t] = pc[t] /\ ents'[t] = ents[t] /\ call'[t] = call[t]
    BY <1>0, <1>1, SearchOnIs DEF Moves, Own, ListSame
  <2> QED BY <1>0, <2>1, CountGoesOn, CountStays
<1>2. CASE SearchDown(t)
  <2>1. /\ Others(t) /\ info' = info /\ pc'[t] = pc[t] /\ call'[t] = call[t]
        /\ ents'[t] = IF call[t].op \in {"insert", "remove"} THEN NewEnts(t) ELSE NoEnts
    BY <1>0, <1>2, SearchDownIs DEF Moves, Own, ListSame
  <2>2. CASE call[t].op \in {"insert", "remove"}
    BY <1>0, <2>1, <2>2, NotedSame, CountGoesOn, CountStays
  <2>3. CASE call[t].op \notin {"insert", "remove"}
    <3>1. ~Owed(t) /\ ~Active(t)
      BY <2>3 DEF Owed, Active
    <3>2. pc[t] \notin Linking \cup {"count", "mark", "unlink", "retire"}
      BY <1>0, <2>3 DEF OpAt, Linking, Searching
    <3> QED BY <1>0, <2>1, <3>1, <3>2, CountQuiet, CountStays
  <2> QED BY <2>2, <2>3
<1> QED
  BY <1>1, <1>2

\* A lookup counts nothing.
LEMMA ReadCount ==
  ASSUME Setting, Inv, CountOk, NEW t \in Threads, Lookup(t)
  PROVE  CountOk'
<1>0. TypeOK /\ Control(t) /\ pc[t] \in {"search", "entry", "after"}
  BY DEF Inv, Lookup, ReadSearched, ReadAfter, ReadEntry
<1>1. count' = count
  BY DEF Lookup, ReadSearched, ReadAfter, ReadEntry, TakeEntry, FinishWith, list
<1>2. pc[t] # "search" => walk[t].at \in Nodes
  BY <1>0 DEF Control, RestOk
<1>3. Others(t) /\ info' = info /\ pc'[t] \in {"done", "after", "entry", "search"}
  <2>1. CASE ReadSearched(t)
    BY ZenonT(60), SMTT(60), <1>0, <2>1, ReadSearchedIs DEF Moves, Own, ListSame
  <2>2. CASE ReadAfter(t)
    <3>1. pc[t] = "after"
      BY <2>2 DEF ReadAfter
    <3> QED BY <1>0, <1>2, <2>2, <3>1, ReadAfterIs DEF Moves, Own, ListSame
  <2>3. CASE ReadEntry(t)
    <3>1. pc[t] = "entry"
      BY <2>3 DEF ReadEntry
    <3> QED BY <1>0, <1>2, <2>3, <3>1, ReadEntryIs DEF Moves, Own, ListSame
  <2> QED BY <2>1, <2>2, <2>3 DEF Lookup
<1>4. ~Owed(t) /\ ~Active(t)
  BY <1>0, NothingOwed
<1>5. pc'[t] \notin Linking \cup {"count", "mark", "unlink", "retire"}
  BY <1>3 DEF Linking
<1> QED
  BY <1>1, <1>3, <1>4, <1>5, CountQuiet, CountStays

\* The start of a call counts nothing.
LEMMA StartCount ==
  ASSUME Setting, Inv, CountOk, NEW t \in Threads, Write(t) \/ Read(t) \/ Clear(t)
  PROVE  CountOk'
<1>1. TypeOK /\ count' = count
  BY DEF Inv, Write, Read, Clear, Begin, list
<1>2. info' = info /\ pc[t] = "idle" /\ Others(t) /\ pc'[t] \in {"heads", "search"}
  BY <1>1, StartIs DEF Moves, Own, ListSame
<1>3. ~Owed(t) /\ ~Active(t)
  BY <1>2, NothingOwed
<1>4. pc'[t] \notin Linking \cup {"count", "mark", "unlink", "retire"}
  BY <1>2 DEF Linking
<1> QED
  BY <1>1, <1>2, <1>3, <1>4, CountQuiet, CountStays

\* Where the list rests, so does the count.
LEMMA CountRests ==
  ASSUME CountOk, UNCHANGED <<list, pc, local, call>>
  PROVE  CountOk'
<1>1. count' = count /\ info' = info /\ pc' = pc /\ ents' = ents /\ call' = call
  BY DEF list, local
<1>2. Owing' = Owing /\ Leaving' = Leaving /\ Kept' = Kept
  BY <1>1 DEF Owing, Owed, Leaving, Active, Kept
<1> QED
  BY <1>1, <1>2 DEF CountOk

\* A node that is being linked is not deleted: its removal would wait.
Fresh == \A n \in Nodes : info[n].linking => ~info[n].deleted

\* An insertion that gives its node up owes nothing.
LEMMA GiveUpCount ==
  ASSUME Setting, Inv, CountOk, NEW t \in Threads, GiveUp(t), call[t].op = "insert",
         pc[t] \in {"exchange", "search_again"}
  PROVE  CountOk'
<1>0. TypeOK /\ Control(t) /\ t \in Nodes
  BY Names DEF Inv
<1>1. \/ /\ info[t].place # "linked" /\ info' = [info EXCEPT ![t].place = "freed"]
         /\ Moves(t, "search", FromTop(0), NoEnts, Null, call[t])
      \/ UNCHANGED <<list, pc, local, call>>
  BY <1>0, GiveUpIs
<1>2. CASE UNCHANGED <<list, pc, local, call>>
  BY <1>2, CountRests
<1>3. CASE /\ info[t].place # "linked" /\ info' = [info EXCEPT ![t].place = "freed"]
           /\ Moves(t, "search", FromTop(0), NoEnts, Null, call[t])
  <2>1. count' = count
    BY DEF GiveUp, InsertAgain, list
  <2>2. info'[t].place = "freed" /\ \A n \in Nodes : n # t => info'[n] = info[n]
    <3>1. info' = [info EXCEPT ![t] = [info[t] EXCEPT !.place = "freed"]] /\ info[t] \in InfoRec
      BY <1>0, <1>3, NodesTyped
    <3>2. info'[t] = [info[t] EXCEPT !.place = "freed"] /\ \A n \in Nodes : n # t => info'[n] = info[n]
      BY <1>0, <3>1 DEF TypeOK
    <3> QED BY <3>1, <3>2 DEF InfoRec
  <2>3. Kept' = Kept
    BY <1>3, <2>2 DEF Kept
  <2>4. ~ents[t][0].ok
    BY <1>0, <1>3 DEF Control, InserterOk, Linking
  <2>5. pc'[t] = "search" /\ Others(t)
    BY <1>3 DEF Moves, Own
  <2>6. ~Owed(t) /\ ~Owed(t)' /\ ~Active(t) /\ ~Active(t)'
    BY <2>4, <2>5, <1>3 DEF Owed, Active, Linking, Moves, Own
  <2> QED BY <2>1, <2>3, <2>5, <2>6, CountStays DEF CountSame
<1> QED
  BY <1>1, <1>2, <1>3

\* The end of the search of an insertion.
LEMMA InsertSearchedCount ==
  ASSUME Setting, Inv, CountOk, NEW t \in Threads, InsertSearched(t)
  PROVE  CountOk'
<1>0. TypeOK /\ Control(t) /\ t \in Nodes /\ pc[t] = "search" /\ call[t].op = "insert" /\ count' = count
  BY Names DEF Inv, InsertSearched, list
<1>1. ~Owed(t) /\ ~Active(t)
  BY <1>0, NothingOwed
<1>2. CASE NewFound(t) # Null
  <2>1. info' = info /\ Others(t) /\ pc'[t] = "check"
    BY <1>0, <1>2, InsertSearchedIs DEF Moves, Own, ListSame
  <2> QED BY <1>0, <1>1, <2>1, CountQuiet, CountStays DEF Linking
<1>3. CASE NewFound(t) = Null
  <2>1. PICK h \in 1 .. MaxHeight :
          /\ info' = [info EXCEPT ![t] = [key |-> call[t].key, height |-> h, linking |-> TRUE,
                                         deleted |-> FALSE, place |-> "own"]]
          /\ Moves(t, "link", NoWalk, [l \in Levels |-> IF l < h THEN NewEnts(t)[l] ELSE NoEnts[l]],
                   t, call[t])
    BY <1>0, <1>3, InsertSearchedIs
  <2>2. info'[t].place = "own" /\ \A n \in Nodes : n # t => info'[n] = info[n]
    BY <1>0, <2>1 DEF TypeOK
  <2>3. info[t].place # "linked"
    BY <1>0 DEF Control, RestOk
  <2>4. Kept' = Kept
    BY <2>2, <2>3 DEF Kept
  <2> DEFINE e == [l \in Levels |-> IF l < h THEN NewEnts(t)[l] ELSE NoEnts[l]]
  <2>5. ents'[t] = e /\ pc'[t] = "link" /\ call'[t] = call[t] /\ Others(t)
    BY <2>1 DEF Moves, Own
  <2>6. ~e[0].ok
    <3>1. ~ents[t][0].ok /\ 0 \in Levels
      BY <1>0, LevelsAre DEF Control, RestOk, Linking
    <3>2. ~NewEnts(t)[0].ok /\ ~NoEnts[0].ok
      BY <1>0, <3>1, NotedSame, Walks
    <3> QED BY <3>1, <3>2
  <2> HIDE DEF e
  <2>7. ~Owed(t)' /\ ~Active(t)'
    BY <2>5, <2>6 DEF Owed, Active, Linking
  <2> QED BY <1>0, <1>1, <2>4, <2>5, <2>7, CountStays DEF CountSame
<1> QED
  BY <1>2, <1>3

\* An exchange that succeeds on level 0 adds a node, which is still to be counted.
LEMMA LinkCount ==
  ASSUME Setting, Inv, Fresh, CountOk, NEW t \in Threads, Link(t)
  PROVE  CountOk'
<1> DEFINE l == walk[t].level
           es == [ents[t] EXCEPT ![l].ok = TRUE]
<1>0. /\ Base /\ TypeOK /\ Graph /\ Removals /\ Control(t) /\ InCall(t) /\ pc[t] = "exchange" /\ t \in Nodes
      /\ 0 \in Levels /\ l \in Levels /\ call[t].op = "insert" /\ count' = count
  BY Names, LevelsAre, Typed DEF Inv, Base, Graph, Link, InCall, Control, OpAt
<1>1. /\ ~ents[t][l].ok /\ info[t].linking /\ (\A i \in Levels : i < l => ents[t][i].ok) /\ node[t] = t
      /\ info[t].place = IF ents[t][0].ok THEN "linked" ELSE "own"
      /\ l < info[t].height
  BY <1>0 DEF Control, InserterOk, Linking
<1>2. ents[t][l].prec # Null
  <2>1. PICK Q \in [Levels -> SUBSET Nodes] : Region(t, Q) /\ Holds(t, Q)
    BY <1>0 DEF Inv, Regions
  <2>2. l \in Ready(t)
    BY ZenonT(60), SMTT(60), <1>0, <1>1 DEF Ready
  <2> QED BY <2>1, <2>2 DEF Holds, EntOk
<1>3. info' = [info EXCEPT ![t].place = "linked"] /\ After(t, l, es)
  BY <1>0, <1>2, LinkIs
<1>4. /\ info'[t].place = "linked" /\ info'[t].deleted = info[t].deleted
      /\ \A n \in Nodes : n # t => info'[n] = info[n]
  <2>1. info' = [info EXCEPT ![t] = [info[t] EXCEPT !.place = "linked"]] /\ info[t] \in InfoRec
    BY <1>0, <1>3, NodesTyped
  <2>2. info'[t] = [info[t] EXCEPT !.place = "linked"] /\ \A n \in Nodes : n # t => info'[n] = info[n]
    BY <1>0, <2>1 DEF TypeOK
  <2> QED BY <2>1, <2>2 DEF InfoRec
<1>5. ~info[t].deleted
  BY <1>0, <1>1 DEF Fresh
<1>6. es[0].ok
  <2>1. ents[t] \in [Levels -> EntRec] /\ ents[t][0] \in EntRec /\ l \in {0, 1}
    BY <1>0, LevelsAre DEF TypeOK
  <2>2. CASE l = 0
    <3>1. es[0] = [ents[t][0] EXCEPT !.ok = TRUE]
      BY <1>0, <2>1, <2>2
    <3> QED BY <2>1, <3>1 DEF EntRec
  <2>3. CASE l # 0
    <3>1. es[0] = ents[t][0]
      BY <1>0, <2>1, <2>3
    <3> QED BY <1>0, <1>1, <2>1, <2>3, <3>1
  <2> QED BY <2>2, <2>3
<1>7. /\ ents'[t] = es /\ pc'[t] \in {"link", "search_again", "unset"} /\ call'[t] = call[t] /\ Others(t)
  BY <1>3 DEF After, Moves, Own
<1> HIDE DEF es
<1>8. Owed(t)' /\ ~Active(t) /\ ~Active(t)'
  BY <1>0, <1>6, <1>7 DEF Owed, Active, Linking
<1>9. Kept' = Kept \cup {t}
  BY <1>0, <1>4, <1>5 DEF Kept
<1>10. CASE ents[t][0].ok
  <2>1. t \in Kept /\ Owed(t)
    BY <1>0, <1>1, <1>5, <1>10 DEF Kept, Owed, Linking
  <2>2. Kept' = Kept
    BY <1>9, <2>1
  <2> QED BY <1>0, <1>7, <1>8, <2>1, <2>2, CountStays DEF CountSame
<1>11. CASE ~ents[t][0].ok
  <2>1. t \notin Kept /\ ~Owed(t)
    BY <1>0, <1>1, <1>11 DEF Kept, Owed
  <2> QED BY <1>0, <1>7, <1>8, <1>9, <2>1, CountsLinked
<1> QED
  BY ZenonT(60), SMTT(60), <1>10, <1>11

\* Trying again counts nothing.
LEMMA LinkRaceCount ==
  ASSUME Setting, Inv, CountOk, NEW t \in Threads, LinkRace(t)
  PROVE  CountOk'
<1>0. /\ TypeOK /\ Control(t) /\ pc[t] = "exchange" /\ call[t].op = "insert"
      /\ walk[t].level \in Levels
  BY ZenonT(60), SMTT(60), Typed DEF Inv, LinkRace, Control, OpAt
<1>1. ents[t][walk[t].level].prec # Null
  <2>1. PICK Q \in [Levels -> SUBSET Nodes] : Region(t, Q) /\ Holds(t, Q)
    BY <1>0 DEF Inv, Regions, InCall
  <2>2. walk[t].level \in Ready(t)
    BY ZenonT(60), SMTT(60), <1>0 DEF Ready, Control, InserterOk, Linking
  <2> QED BY <2>1, <2>2 DEF Holds, EntOk
<1>2. \/ UNCHANGED <<list, pc, local, call>>
      \/ GiveUp(t)
      \/ info' = info /\ After(t, walk[t].level, ents[t])
  BY <1>0, <1>1, LinkRaceIs
<1>3. CASE info' = info /\ After(t, walk[t].level, ents[t])
  <2>1. ents'[t] = ents[t] /\ pc'[t] \in {"link", "search_again", "unset"} /\ call'[t] = call[t] /\ Others(t)
    BY ZenonT(60), SMTT(60), <1>3 DEF After, Moves, Own
  <2>2. count' = count \/ UNCHANGED <<list, pc, local, call>> \/ GiveUp(t)
    BY ZenonT(60), SMTT(60) DEF LinkRace, list
  <2>3. CASE count' = count
    <3>1. pc[t] \in Linking /\ pc'[t] \in Linking /\ (ents'[t][0].ok <=> ents[t][0].ok)
      BY <1>0, <2>1 DEF Linking
    <3>2. CountSame(t)
      BY <1>0, <1>3, <2>1, <2>3, <3>1, CountGoesOn
    <3> QED BY <2>1, <3>2, CountStays
  <2> QED BY <1>0, <2>2, <2>3, CountRests, GiveUpCount
<1> QED
  BY ZenonT(60), SMTT(60), <1>0, <1>2, <1>3, CountRests, GiveUpCount

\* The search of a retry counts nothing.
LEMMA LinkSearchedCount ==
  ASSUME Setting, Inv, CountOk, NEW t \in Threads, LinkSearched(t)
  PROVE  CountOk'
<1>0. /\ TypeOK /\ Control(t) /\ pc[t] = "search_again" /\ call[t].op = "insert"
  BY DEF Inv, LinkSearched
<1>1. CASE GiveUp(t)
  BY <1>0, <1>1, GiveUpCount
<1>2. CASE ~GiveUp(t)
  <2>1. info' = info /\ Others(t) /\ pc'[t] = "link" /\ call'[t] = call[t] /\ ents'[t] = NewEnts(t)
    BY <1>0, <1>2, LinkSearchedIs DEF Moves, Own, ListSame
  <2>2. count' = count
    BY <1>2 DEF LinkSearched, list
  <2>3. pc[t] \in Linking /\ pc'[t] \in Linking /\ (ents'[t][0].ok <=> ents[t][0].ok)
    BY <1>0, <2>1, NotedSame DEF Linking
  <2>4. CountSame(t)
    BY <1>0, <2>1, <2>2, <2>3, CountGoesOn
  <2> QED BY <2>1, <2>4, CountStays
<1> QED
  BY <1>1, <1>2

\* Neither does any other step of an insertion, but the one that counts.
LEMMA InsertCounts ==
  ASSUME Setting, Inv, Fresh, CountOk, NEW t \in Threads, Insert(t)
  PROVE  CountOk'
<1>0. TypeOK /\ Control(t) /\ t \in Nodes /\ 0 \in Levels
  BY Names, LevelsAre DEF Inv
<1>1. CASE InsertCheck(t)
  <2>1. pc[t] = "check" /\ count' = count
    BY <1>1 DEF InsertCheck, FinishWith, InsertAgain, list
  <2>2. info' = info /\ Others(t) /\ pc'[t] \in {"done", "search"}
    BY <1>0, <1>1, InsertCheckIs DEF Moves, Own, ListSame
  <2>3. ~Owed(t) /\ ~Active(t)
    BY <2>1, NothingOwed
  <2> QED BY <2>1, <2>2, <2>3, CountQuiet, CountStays DEF Linking
<1>2. CASE Store(t)
  <2>1. pc[t] = "link" /\ count' = count
    BY <1>2 DEF Store, list
  <2>2. info' = info /\ Others(t) /\ pc'[t] = "exchange" /\ ents'[t] = ents[t] /\ call'[t] = call[t]
    BY <1>0, <1>2, StoreIs DEF Moves, Own
  <2>3. call[t].op = "insert"
    BY <1>0, <2>1 DEF Control, OpAt
  <2>4. pc[t] \in Linking /\ pc'[t] \in Linking
    BY <2>1, <2>2 DEF Linking
  <2>5. CountSame(t)
    BY <2>1, <2>2, <2>3, <2>4, CountGoesOn
  <2> QED BY <2>2, <2>5, CountStays
<1>3. CASE InsertUnset(t)
  <2>1. pc[t] = "unset" /\ count' = count
    BY <1>3 DEF InsertUnset, list
  <2>2. info' = [info EXCEPT ![t].linking = FALSE] /\ Moves(t, "count", walk[t], ents[t], node[t], call[t])
    BY <1>0, <1>3, InsertUnsetIs
  <2>3. \A n \in Nodes : info'[n].place = info[n].place /\ info'[n].deleted = info[n].deleted
    <3>1. info' = [info EXCEPT ![t] = [info[t] EXCEPT !.linking = FALSE]] /\ info[t] \in InfoRec
      BY <1>0, <2>2, NodesTyped
    <3>2. info'[t] = [info[t] EXCEPT !.linking = FALSE] /\ \A n \in Nodes : n # t => info'[n] = info[n]
      BY <1>0, <3>1 DEF TypeOK
    <3>3. info'[t].place = info[t].place /\ info'[t].deleted = info[t].deleted
      BY <3>1, <3>2 DEF InfoRec
    <3> QED BY <3>2, <3>3
  <2>4. Kept' = Kept
    BY <2>3 DEF Kept
  <2>5. call[t].op = "insert"
    BY <1>0, <2>1 DEF Control, OpAt
  <2>6. ents[t][0].ok
    <3>1. info[t].height \in Nat /\ info[t].height > 0
      BY <1>0, <2>1, <2>5, NodesTyped DEF Control, InserterOk, Linking
    <3> QED BY <1>0, <2>1, <2>5, <3>1 DEF Control, InserterOk, Linking
  <2>7. Others(t) /\ pc'[t] = "count" /\ call'[t] = call[t]
    BY <2>2 DEF Moves, Own
  <2>8. Owed(t) /\ Owed(t)' /\ ~Active(t) /\ ~Active(t)'
    BY <2>1, <2>5, <2>6, <2>7 DEF Owed, Active, Linking
  <2> QED BY <2>1, <2>4, <2>7, <2>8, CountStays DEF CountSame
<1>4. CASE InsertCount(t)
  <2>1. pc[t] = "count" /\ count' = count + 1
    BY <1>4 DEF InsertCount
  <2>2. info' = info /\ Others(t) /\ pc'[t] = "done"
    BY <1>0, <1>4, InsertCountIs DEF Moves, Own, ListSame
  <2>3. call[t].op = "insert"
    BY <1>0, <2>1 DEF Control, OpAt
  <2>4. Owed(t) /\ ~Owed(t)' /\ ~Active(t) /\ ~Active(t)' /\ Kept' = Kept
    BY <2>1, <2>2, <2>3 DEF Owed, Active, Linking, Kept
  <2> QED BY <2>1, <2>2, <2>4, CountsIn
<1> QED
  BY <1>1, <1>2, <1>3, <1>4, InsertSearchedCount, LinkCount, LinkRaceCount, LinkSearchedCount DEF Insert

\* A flag set takes a node off those that are kept, and it is still to be counted off.
LEMMA RemoveFlagCount ==
  ASSUME Setting, Inv, Inv', CountOk, NEW t \in Threads, RemoveFlag(t)
  PROVE  CountOk'
<1> DEFINE n == node[t]
<1>0. TypeOK /\ Control(t) /\ pc[t] = "flag" /\ call[t].op = "remove" /\ count' = count
  BY DEF Inv, RemoveFlag, Control, OpAt, FinishWith
<1>1. n \in Nodes
  BY <1>0, Typed DEF Control, RemoverOk
<1>2. ~Owed(t) /\ ~Active(t)
  BY <1>0, NothingOwed
<1>3. \/ ListSame(t) /\ Moves(t, "done", NoWalk, NoEnts, Null, Promise!NoCall)
      \/ /\ ~info[n].deleted /\ info' = [info EXCEPT ![n].deleted = TRUE]
         /\ Moves(t, "mark", walk[t], ents[t], n, call[t])
  BY <1>0, <1>1, RemoveFlagIs
<1> HIDE DEF n
<1>4. CASE ListSame(t) /\ Moves(t, "done", NoWalk, NoEnts, Null, Promise!NoCall)
  <2>1. info' = info /\ Others(t) /\ pc'[t] = "done"
    BY <1>4 DEF Moves, Own, ListSame
  <2> QED BY <1>0, <1>2, <2>1, CountQuiet, CountStays DEF Linking
<1>5. CASE /\ ~info[n].deleted /\ info' = [info EXCEPT ![n].deleted = TRUE]
           /\ Moves(t, "mark", walk[t], ents[t], n, call[t])
  <2>1. /\ info'[n].deleted /\ info'[n].place = info[n].place
        /\ \A m \in Nodes : m # n => info'[m] = info[m]
    <3>1. info' = [info EXCEPT ![n] = [info[n] EXCEPT !.deleted = TRUE]] /\ info[n] \in InfoRec
      BY <1>0, <1>1, <1>5, NodesTyped
    <3>2. info'[n] = [info[n] EXCEPT !.deleted = TRUE] /\ \A m \in Nodes : m # n => info'[m] = info[m]
      BY <1>0, <1>1, <3>1 DEF TypeOK
    <3> QED BY <3>1, <3>2 DEF InfoRec
  <2>2. pc'[t] = "mark" /\ call'[t] = call[t] /\ node'[t] = n /\ Others(t)
    BY <1>5 DEF Moves, Own
  <2>3. Active(t)' /\ ~Owed(t)'
    BY <1>0, <2>2 DEF Active, Owed
  <2>4. info'[n].place = "linked"
    BY <2>2, <2>3 DEF Inv, Removals, RemovalOk
  <2>5. n \in Kept /\ Kept' = Kept \ {n}
    BY <1>1, <1>5, <2>1, <2>4 DEF Kept
  <2> QED BY <1>0, <1>2, <2>2, <2>3, <2>5, CountsDeleted
<1> QED
  BY <1>3, <1>4, <1>5

\* The node retired is counted off.
LEMMA RetireCount ==
  ASSUME Setting, Inv, CountOk, NEW t \in Threads, Retire(t)
  PROVE  CountOk'
<1> DEFINE n == node[t]
<1>0. /\ TypeOK /\ Control(t) /\ pc[t] = "retire" /\ call[t].op = "remove" /\ count' = count - 1
      /\ Active(t) /\ Removals
  BY DEF Inv, Retire, Control, OpAt, Active
<1>1. n \in Nodes /\ info[n].deleted /\ info[n].place = "linked"
  BY <1>0 DEF Removals, RemovalOk, Was
<1>2. /\ info' = [info EXCEPT ![n].place = "garbage", ![n].deleted = TRUE]
      /\ Moves(t, "done", NoWalk, NoEnts, Null, Promise!NoCall)
  BY <1>0, <1>1, RetireIs
<1> HIDE DEF n
<1>3. info'[n].deleted /\ \A m \in Nodes : m # n => info'[m] = info[m]
  <2> DEFINE i == [info[n] EXCEPT !.place = "garbage", !.deleted = TRUE]
  <2>1. info' = [info EXCEPT ![n] = i] /\ info[n] \in InfoRec
    BY <1>0, <1>1, <1>2, NodesTyped
  <2>2. i.deleted = TRUE
    BY <2>1, InfoGarbage
  <2> HIDE DEF i
  <2>3. info'[n] = i /\ \A m \in Nodes : m # n => info'[m] = info[m]
    BY <1>0, <1>1, <2>1 DEF TypeOK
  <2> QED BY <2>2, <2>3
<1>4. Kept' = Kept
  BY <1>1, <1>3 DEF Kept
<1>5. Others(t) /\ pc'[t] = "done"
  BY <1>2 DEF Moves, Own
<1>6. ~Active(t)' /\ ~Owed(t)' /\ ~Owed(t)
  BY <1>0, <1>5 DEF Active, Owed, Linking
<1> QED
  BY <1>0, <1>4, <1>5, <1>6, CountsOff

\* No other step of a removal changes what is to be counted.
LEMMA RemoveCount ==
  ASSUME Setting, Inv, Inv', CountOk, NEW t \in Threads, Remove(t)
  PROVE  CountOk'
<1>0. TypeOK /\ Control(t)
  BY DEF Inv
<1>1. CASE RemoveSearched(t)
  <2>1. pc[t] = "search" /\ count' = count
    BY <1>1 DEF RemoveSearched, FinishWith, list
  <2>2. info' = info /\ Others(t) /\ pc'[t] \in {"done", "flag"}
    BY <1>0, <1>1, RemoveSearchedIs DEF Moves, Own, ListSame
  <2>3. ~Owed(t) /\ ~Active(t)
    BY <2>1, NothingOwed
  <2> QED BY <2>1, <2>2, <2>3, CountQuiet, CountStays DEF Linking
<1>2. CASE Mark(t) \/ Unlink(t) \/ UnlinkFails(t) \/ UnlinkSearched(t)
  <2>1. pc[t] \in {"mark", "unlink", "search_again"} /\ count' = count /\ info' = info
    BY ZenonT(60), SMTT(60), <1>2 DEF Mark, Unlink, UnlinkFails, UnlinkSearched, list
  <2>2. call[t].op = "remove"
    BY <1>0, <1>2, <2>1 DEF Mark, Unlink, UnlinkFails, UnlinkSearched, Control, OpAt
  <2>3. pc'[t] \in {"mark", "unlink", "search_again", "retire"}
    BY <1>0, <1>2 DEF Mark, Unlink, UnlinkFails, UnlinkSearched, Goto, TypeOK
  <2>4. Others(t) /\ call'[t] = call[t]
    <3>1. CASE Mark(t)
      BY <1>0, <3>1 DEF Mark, Goto, Others, TypeOK
    <3>2. CASE Unlink(t)
      BY <1>0, <3>2 DEF Unlink, Goto, Others, TypeOK
    <3>3. CASE UnlinkFails(t)
      BY <1>0, <3>3 DEF UnlinkFails, Goto, Others, TypeOK
    <3>4. CASE UnlinkSearched(t)
      BY <1>0, <3>4 DEF UnlinkSearched, Goto, Others, TypeOK
    <3> QED BY <1>2, <3>1, <3>2, <3>3, <3>4
  <2>5. Active(t)
    BY <2>1, <2>2 DEF Active
  <2>6. CountSame(t)
    BY <2>1, <2>3, <2>4, <2>5, CountGoesOn
  <2> QED BY ZenonT(60), SMTT(60), <2>4, <2>6, CountStays
<1> QED
  BY <1>1, <1>2, RemoveFlagCount, RetireCount DEF Remove

\* Flags of one node change, and its place.
LEMMA FreshStays ==
  ASSUME TypeOK, Fresh, NEW n \in Nodes, NEW i \in InfoRec, info' = [info EXCEPT ![n] = i],
         i.linking => ~i.deleted
  PROVE  Fresh'
<1>1. info'[n] = i /\ \A m \in Nodes : m # n => info'[m] = info[m]
  BY DEF TypeOK
<1> QED
  BY <1>1 DEF Fresh

\* A node being linked stays as it is to others, whatever a thread does.
LEMMA FreshNext ==
  ASSUME Setting, Inv, Fresh, NEW t \in Threads, NoneClears,
         \/ SearchOn(t) \/ SearchDown(t) \/ Insert(t) \/ Remove(t) \/ Lookup(t) \/ ClearAll(t)
  PROVE  Fresh'
<1>0. /\ TypeOK /\ Control(t) /\ Removals /\ t \in Nodes /\ info[t] \in InfoRec
      /\ call[t].op # "clear" /\ call[t].op \in OpAt(pc[t]) /\ (info[t].linking => ~info[t].deleted)
  BY Names, NodesTyped DEF Inv, Control, Fresh, NoneClears
<1>1. CASE info' = info
  BY <1>1 DEF Fresh
<1>2. CASE InsertSearched(t)
  <2>1. NewFound(t) # Null => info' = info
    BY <1>0, <1>2, InsertSearchedIs DEF ListSame
  <2>2. CASE NewFound(t) = Null
    <3>1. PICK h \in 1 .. MaxHeight :
            info' = [info EXCEPT ![t] = [key |-> call[t].key, height |-> h, linking |-> TRUE,
                                         deleted |-> FALSE, place |-> "own"]]
      BY <1>0, <1>2, <2>2, InsertSearchedIs
    <3>2. /\ info'[t].linking /\ ~info'[t].deleted
          /\ \A m \in Nodes : m # t => info'[m] = info[m]
      BY <1>0, <3>1 DEF TypeOK
    <3> QED BY <3>2 DEF Fresh
  <2> QED BY <1>1, <2>1, <2>2
<1>3. ASSUME NEW p \in Places, info' = [info EXCEPT ![t].place = p] PROVE Fresh'
  <2> DEFINE i == [info[t] EXCEPT !.place = p]
  <2>1. i \in InfoRec /\ info' = [info EXCEPT ![t] = i] /\ i.linking = info[t].linking /\ i.deleted = info[t].deleted
    BY <1>0, <1>3 DEF InfoRec
  <2> HIDE DEF i
  <2> QED BY <1>0, <2>1, FreshStays
<1>4. CASE InsertUnset(t)
  <2> DEFINE i == [info[t] EXCEPT !.linking = FALSE]
  <2>1. info' = [info EXCEPT ![t] = i]
    BY <1>4 DEF InsertUnset
  <2>2. i \in InfoRec /\ ~i.linking
    BY <1>0 DEF InfoRec
  <2> HIDE DEF i
  <2> QED BY <1>0, <2>1, <2>2, FreshStays
<1>5. CASE RemoveFlag(t)
  <2> DEFINE n == node[t]
             i == [info[n] EXCEPT !.deleted = TRUE]
  <2>1. info' = info \/ (~info[n].linking /\ info' = [info EXCEPT ![n] = i])
    BY <1>5 DEF RemoveFlag, FinishWith
  <2>2. pc[t] = "flag"
    BY <1>5 DEF RemoveFlag
  <2>3. n \in Nodes
    BY <1>0, <2>2, Typed DEF Control, RemoverOk, OpAt
  <2>4. CASE ~info[n].linking /\ info' = [info EXCEPT ![n] = i]
    <3>1. i \in InfoRec /\ ~i.linking
      BY <1>0, <2>3, <2>4, NodesTyped DEF InfoRec
    <3> HIDE DEF i, n
    <3> QED BY <1>0, <2>3, <2>4, <3>1, FreshStays
  <2> QED BY <1>1, <2>1, <2>4
<1>6. CASE Retire(t)
  <2> DEFINE n == node[t]
             i == [info[n] EXCEPT !.place = "garbage", !.deleted = TRUE]
  <2>1. Active(t)
    BY <1>0, <1>6 DEF Retire, Active, OpAt
  <2>2. n \in Nodes /\ ~info[n].linking /\ info[n].place = "linked"
    BY <1>0, <2>1 DEF Removals, RemovalOk, Was
  <2>3. info' = [info EXCEPT ![n] = i]
    BY <1>0, <1>6, <2>2, RetireIs
  <2>4. i \in InfoRec /\ ~i.linking
    BY <1>0, <2>2, NodesTyped DEF InfoRec, Places
  <2> HIDE DEF i, n
  <2> QED BY <1>0, <2>2, <2>3, <2>4, FreshStays
<1>7. CASE SearchOn(t) \/ SearchDown(t) \/ Lookup(t)
  BY <1>1, <1>7 DEF SearchOn, SearchDown, Lookup, ReadSearched, ReadAfter, ReadEntry, TakeEntry,
     FinishWith, list
<1>8. CASE Insert(t)
  <2>1. ASSUME GiveUp(t) PROVE Fresh'
    <3>1. info' = info \/ info' = [info EXCEPT ![t].place = "freed"]
      BY <2>1 DEF GiveUp, list
    <3> QED BY <1>1, <1>3, <3>1 DEF Places
  <2>2. CASE Link(t)
    <3>1. info' = [info EXCEPT ![t].place = "linked"]
      BY <2>2 DEF Link
    <3> QED BY ZenonT(60), SMTT(60), <1>3, <3>1 DEF Places
  <2>3. CASE InsertCheck(t) \/ Store(t) \/ InsertCount(t)
    BY <1>1, <2>3 DEF InsertCheck, FinishWith, Store, InsertCount
  <2>4. CASE LinkRace(t) \/ LinkSearched(t)
    <3>1. info' = info \/ GiveUp(t)
      BY ZenonT(60), SMTT(60), <2>4 DEF LinkRace, LinkSearched, list
    <3> QED BY ZenonT(60), SMTT(60), <1>1, <2>1, <3>1
  <2> QED BY <1>2, <1>4, <1>8, <2>2, <2>3, <2>4 DEF Insert
<1>9. CASE Remove(t)
  <2>1. CASE RemoveSearched(t) \/ Mark(t) \/ Unlink(t) \/ UnlinkFails(t) \/ UnlinkSearched(t)
    BY <1>1, <2>1 DEF RemoveSearched, FinishWith, Mark, Unlink, UnlinkFails, UnlinkSearched, list
  <2> QED BY ZenonT(60), SMTT(60), <1>5, <1>6, <1>9, <2>1 DEF Remove
<1>10. ~ClearAll(t)
  BY <1>0 DEF ClearAll, ClearHeads, ClearSwap, ClearCollect, ClearEnds, OpAt
<1> QED
  BY <1>7, <1>8, <1>9, <1>10

\* A list that calls made before has as many entries as were counted.
LEMMA CountInit ==
  ASSUME Setting, NoClear, Init
  PROVE  NoneClears /\ Fresh /\ CountOk
<1>1. PICK h \in Initial :
        /\ info = [n \in Nodes |->
             [key |-> IF n \in Keys THEN n ELSE 0,
              height |-> IF n \in Keys THEN h[n] ELSE 0,
              linking |-> FALSE, deleted |-> FALSE,
              place |-> IF n \in Keys /\ h[n] > 0 THEN "linked" ELSE "none"]]
        /\ count = Cardinality({k \in Keys : h[k] > 0})
  BY DEF Init
<1>2. /\ role \in Roles /\ call = [t \in Threads |-> Promise!NoCall] /\ pc = [t \in Threads |-> "idle"]
  BY DEF Init
<1>3. NoneClears
  BY <1>2 DEF NoneClears, Promise!NoCall
<1>4. Fresh
  BY <1>1 DEF Fresh
<1>5. Kept = {k \in Keys : h[k] > 0}
  <2>1. \A n \in Nodes : n \in Kept <=> n \in Keys /\ h[n] > 0
    BY <1>1 DEF Kept
  <2>2. Kept \subseteq Nodes /\ Keys \subseteq Nodes
    BY Names DEF Kept
  <2> QED BY <2>1, <2>2
<1>6. Owing = {} /\ Leaving = {}
  BY <1>2 DEF Owing, Leaving, Owed, Active, Linking
<1>7. Cardinality({}) = 0
  BY FS_EmptySet
<1>8. count = Cardinality(Kept) /\ Cardinality(Owing) = 0 /\ Cardinality(Leaving) = 0
  BY <1>1, <1>5, <1>6, <1>7
<1> QED
  BY <1>3, <1>4, <1>8, CountedSets DEF CountOk

\* No thread becomes one that calls clear.
LEMMA NoneClearsNext ==
  ASSUME Setting, NoClear, Inv, NoneClears, [Next]_vars
  PROVE  NoneClears'
<1>1. role' = role /\ TypeOK
  BY DEF Next, Start, Step, Rest, vars, Inv
<1>2. \A t \in Threads : role[t] # "clearer"
  BY DEF NoClear, NoneClears
<1>3. CASE Start
  <2>1. PICK t \in Threads : Write(t) \/ Read(t)
    BY <1>2, <1>3 DEF Start, Clear
  <2>2. PICK op, k, p, w : op \in {"insert", "remove"} \cup ReadOps /\ Begin(t, op, k, p, w)
    <3>1. CASE Write(t)
      <4>1. PICK v \in Writes[t] : Begin(t, v[1], v[2], "search", FromTop(0))
        BY <3>1 DEF Write
      <4>2. v[1] \in {"insert", "remove"}
        BY <4>1, ListAssumption
      <4> QED BY <4>1, <4>2
    <3>2. CASE Read(t)
      BY <3>2 DEF Read
    <3> QED BY <2>1, <3>1, <3>2
  <2>3. op # "clear"
    BY <2>2, ListAssumption
  <2>4. call' = [call EXCEPT ![t] = [op |-> op, key |-> k]]
    BY <2>2 DEF Begin
  <2>5. \A u \in Threads : call'[u].op # "clear"
    BY <1>1, <2>3, <2>4 DEF NoneClears, TypeOK
  <2> QED BY <1>1, <2>5 DEF NoneClears
<1>4. ASSUME NEW t \in Threads, Step(t) PROVE NoneClears'
  <2>1. call' = call \/ call' = [call EXCEPT ![t] = Promise!NoCall]
    <3>1. ASSUME Finish(t) PROVE call' = [call EXCEPT ![t] = Promise!NoCall]
      BY <3>1 DEF Finish
    <3>2. CASE SearchOn(t) \/ SearchDown(t)
      BY ZenonT(60), SMTT(60), <3>2 DEF SearchOn, SearchDown
    <3>3. CASE Insert(t)
      BY ZenonT(60), SMTT(60), <3>1, <3>3 DEF Insert, InsertSearched, InsertCheck, FinishWith, InsertAgain, Store, Link,
         LinkRace, GiveUp, LinkSearched, InsertUnset, InsertCount
    <3>4. CASE Remove(t)
      BY <3>1, <3>4 DEF Remove, RemoveSearched, FinishWith, RemoveFlag, Mark, Unlink, UnlinkFails,
         UnlinkSearched, Retire
    <3>5. CASE Lookup(t)
      BY <3>1, <3>5 DEF Lookup, ReadSearched, ReadAfter, ReadEntry, TakeEntry, FinishWith
    <3>6. CASE ClearAll(t)
      BY <3>1, <3>6 DEF ClearAll, ClearHeads, ClearSwap, ClearCollect, ClearEnds
    <3> QED BY <1>4, <3>2, <3>3, <3>4, <3>5, <3>6 DEF Step
  <2>2. Promise!NoCall.op = "none"
    BY DEF Promise!NoCall
  <2>3. \A u \in Threads : call'[u].op # "clear"
    <3>1. CASE call' = call
      BY <3>1 DEF NoneClears
    <3>2. CASE call' = [call EXCEPT ![t] = Promise!NoCall]
      <4>1. \A u \in Threads : call'[u] = IF u = t THEN Promise!NoCall ELSE call[u]
        BY <1>1, <3>2 DEF TypeOK
      <4> QED BY <2>2, <4>1 DEF NoneClears
    <3> QED BY <2>1, <3>1, <3>2
  <2> QED BY <1>1, <2>3 DEF NoneClears
<1>5. CASE Rest \/ UNCHANGED vars
  <2>1. call' = call
    BY <1>5 DEF Rest, vars
  <2> QED BY <1>1, <2>1 DEF NoneClears
<1> QED
  BY <1>3, <1>4, <1>5 DEF Next

\* Every step keeps the count.
LEMMA CountNext ==
  ASSUME Setting, Inv, Inv', NoneClears, Fresh, CountOk, [Next]_vars
  PROVE  Fresh' /\ CountOk'
<1>1. CASE Start
  <2>1. PICK t \in Threads : Write(t) \/ Read(t) \/ Clear(t)
    BY <1>1 DEF Start
  <2>2. info' = info
    BY <2>1 DEF Write, Read, Clear, Begin, list
  <2> QED BY <2>1, <2>2, StartCount DEF Fresh
<1>2. ASSUME NEW t \in Threads, Step(t) PROVE Fresh' /\ CountOk'
  <2>1. SearchOn(t) \/ SearchDown(t) \/ Insert(t) \/ Remove(t) \/ Lookup(t) \/ ClearAll(t)
    BY <1>2 DEF Step
  <2>2. Fresh'
    BY <2>1, FreshNext
  <2>3. ~ClearAll(t)
    <3>1. call[t].op # "clear" /\ call[t].op \in OpAt(pc[t])
      BY DEF Inv, Control, NoneClears
    <3> QED BY <3>1 DEF ClearAll, ClearHeads, ClearSwap, ClearCollect, ClearEnds, OpAt
  <2> QED BY <2>1, <2>2, <2>3, SearchCount, InsertCounts, RemoveCount, ReadCount
<1>3. CASE Rest \/ UNCHANGED vars
  <2>1. UNCHANGED <<list, pc, local, call>> /\ info' = info
    BY <1>3 DEF Rest, vars, list
  <2> QED BY <2>1, CountRests DEF Fresh
<1> QED
  BY <1>1, <1>2, <1>3 DEF Next

\* Without calls in progress nothing is owed, and each node kept has its own key.
LEMMA LenFromCount ==
  ASSUME Setting, Inv, CountOk
  PROVE  LenCounts
<1> SUFFICES ASSUME \A t \in Threads : ~InCall(t) PROVE count = Cardinality(Present)
  BY DEF LenCounts
<1>0. Base /\ Graph /\ Removals /\ 0 \in Levels
  BY LevelsAre DEF Inv, Base, Graph
<1>1. \A t \in Threads : pc[t] \in {"idle", "done"}
  BY DEF InCall
<1>2. \A t \in Threads : ~Active(t) /\ ~Owed(t)
  BY <1>1, NothingOwed
<1>3. Owing = {} /\ Leaving = {}
  BY <1>2 DEF Owing, Leaving
<1>4. Cardinality(Owing) = 0 /\ Cardinality(Leaving) = 0
  BY <1>3, FS_EmptySet
<1>5. count = Cardinality(Kept)
  BY <1>4, CountedSets DEF CountOk
<1>6. Kept \subseteq On(0)
  <2> SUFFICES ASSUME NEW n \in Kept PROVE n \in On(0)
    OBVIOUS
  <2>1. n \in Nodes /\ info[n].place = "linked"
    BY DEF Kept
  <2>2. n \in Was(0)
    BY <1>0, <2>1 DEF Graph, Placed
  <2>3. ~Off(n, 0)
    BY <1>0, <1>2, <2>1, NotRemoved
  <2> QED BY <2>1, <2>2, <2>3 DEF On
<1>7. \A m, n \in Kept : info[m].key = info[n].key => m = n
  BY <1>0, <1>6 DEF Graph, Chained
<1>8. Present = {info[n].key : n \in Kept}
  BY DEF Present, Kept
<1> DEFINE f == [n \in Kept |-> info[n].key]
<1>9. f \in Surjection(Kept, Present) /\ f \in Injection(Kept, Present)
  <2>1. f \in [Kept -> Present] /\ \A n \in Kept : f[n] = info[n].key
    BY <1>8
  <2>2. \A x \in Present : \E n \in Kept : f[n] = x
    BY <1>8
  <2>3. \A m, n \in Kept : f[m] = f[n] => m = n
    BY <1>7, <2>1
  <2> HIDE DEF f
  <2> QED BY <2>1, <2>2, <2>3 DEF Surjection, Injection, IsInjective
<1>10. Cardinality(Present) = Cardinality(Kept)
  <2> HIDE DEF f
  <2> QED BY <1>9, CountedSets, FS_Surjection
<1> QED
  BY <1>5, <1>10

\* len counts on the linking of a node and its removal in separate steps, and a removal
\* may count off a node before its insertion counts it; but when all calls have
\* returned it is the number of keys that can be found.
THEOREM LenHolds ==
  ASSUME Setting, NoClear
  PROVE  Spec => []LenCounts
<1> DEFINE CInv == Inv /\ NoneClears /\ Fresh /\ CountOk
<1>1. Init => CInv
  BY InitInv, CountInit
<1>2. CInv /\ [Next]_vars => CInv'
  <2> SUFFICES ASSUME CInv, [Next]_vars PROVE CInv'
    OBVIOUS
  <2>1. Inv'
    BY NextInv
  <2>2. NoneClears'
    BY NoneClearsNext
  <2>3. Fresh' /\ CountOk'
    BY <2>1, CountNext
  <2> QED BY <2>1, <2>2, <2>3
<1>3. CInv => LenCounts
  BY LenFromCount
<1> HIDE DEF CInv
<1> QED
  BY <1>1, <1>2, <1>3, PTL DEF Spec
=============================================================================
