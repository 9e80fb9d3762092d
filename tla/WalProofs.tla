------------------------------- MODULE WalProofs -------------------------------
(***************************************************************************)
(* Proofs about Wal, for every size of blocks, buffers, rotations and      *)
(* payloads, any number of threads that call advance_lsn, and any number   *)
(* of appends, crashes and reopenings.                                     *)
(***************************************************************************)
EXTENDS Wal, WellFoundedInduction, TLAPS

-----------------------------------------------------------------------------
(* The types of the variables.                                             *)

PartType == [lsn : 1 .. MaxLsn, kind : {"Full", "First", "Middle", "Last"}, from : Nat, units : Nat]
BlockType == [min : Nat, max : 0 .. MaxLsn, wmin : Nat, parts : Seq(PartType)]
RotType == [first : Nat, blocks : Seq(BlockType), synced : Nat]
ManiType == [entries : Seq(Nat), synced : Nat]

DiskTypes ==
  /\ data \in Seq(RotType) /\ \A i \in DOMAIN data : data[i].synced <= Len(data[i].blocks)
  /\ mani \in Seq(ManiType) /\ \A i \in DOMAIN mani : mani[i].synced <= Len(mani[i].entries)

CallerTypes ==
  /\ running \in BOOLEAN /\ min_lsn \in Nat /\ max_lsn \in 0 .. MaxLsn
  /\ ring \in Seq(1 .. MaxLsn) /\ next_lsn \in 0 .. MaxLsn + 1
  /\ adv \in [Advancers -> Nat]

FlusherTypes ==
  /\ pc \in Labels /\ buf \in Seq(BlockType) /\ used \in 0 .. BlockUnits
  /\ cur \in [lsn : 0 .. MaxLsn, left : Nat, split : BOOLEAN]
  /\ min \in Nat /\ rotatable \in BOOLEAN /\ last_min_lsn \in Nat /\ next_no_use_lsn \in Nat
  /\ last_filled_lsn \in 0 .. MaxLsn /\ max_flushed_lsn \in 0 .. MaxLsn

HistoryTypes ==
  /\ opens \in Nat /\ size \in [Lsns -> Nat] /\ acked \in 0 .. MaxLsn /\ needed \in Nat

TypeInv == DiskTypes /\ CallerTypes /\ FlusherTypes /\ HistoryTypes

-----------------------------------------------------------------------------
(* The flushing thread: where it is, and what it works with.               *)

\* Where it can go on, by what it does.
Packers == {<<"pop">>, <<"lsn">>}
Returns(l) ==
  CASE l \in {"flush", "write", "sync", "rot_sync", "rot_new", "flushed"} -> Packers
    [] l = "remove" -> {<<"top">>, <<"mani", "top">>, <<"flushed", "pop">>, <<"flushed", "lsn">>}
    [] l \in {"mani", "mani_sync", "mani_rot"} ->
         {<<"top">>, <<"remove", "top">>, <<"remove", "mani", "top">>,
          <<"write", "pop">>, <<"write", "lsn">>}
    [] OTHER -> {<<>>}

\* The blocks in the buffer are complete and on their way to the file.
ToWrite ==
  pc \in {"flush", "write"} \/ (pc \in {"mani", "mani_sync", "mani_rot"} /\ Head(then) = "write")
\* They are in the file.
Written ==
  pc \in {"sync", "rot_sync", "rot_new", "flushed"} \/ (pc = "remove" /\ Head(then) = "flushed")
Early == pc \in {"closed", "open_data"}

Control ==
  /\ then \in Returns(pc)
  /\ ToWrite \/ Written => buf # <<>>
  /\ pc \in {"rot_sync", "rot_new"} => rotatable
  /\ (ToWrite \/ pc \in {"write", "sync", "rot_sync", "rot_new"}) /\ rotatable => ~cur.split
  /\ pc \in {"closed", "open_data", "start"} =>
       buf = <<>> /\ used = 0 /\ last_filled_lsn = 0
  /\ pc = "closed" => max_lsn = 0 /\ ~running
  /\ Early => ring = <<>> /\ ~running
  /\ pc # "closed" => mani # <<>>
  /\ ~Early => data # <<>>

\* The LSNs popped; of these the ones that are in blocks, and that are in full.
Popped == next_lsn - Len(ring) - 1
Filled == IF cur.lsn # 0 /\ ~cur.split THEN Popped - 1 ELSE Popped
Finished == IF cur.lsn # 0 THEN Popped - 1 ELSE Popped

Numbers ==
  /\ pc # "closed" => /\ Popped >= 0
                      /\ \A i \in DOMAIN ring : ring[i] = Popped + i
  /\ cur.lsn = 0 => cur = NoEntry
  /\ cur.lsn # 0 => /\ cur.lsn = Popped
                    /\ IF cur.split THEN 0 < cur.left /\ cur.left < size[cur.lsn]
                       ELSE cur.left = size[cur.lsn]
  /\ pc \in {"closed", "open_data", "start", "top", "quiet", "lsn"} => cur.lsn = 0
  /\ then # <<>> /\ then[Len(then)] # "pop" => cur.lsn = 0
  /\ pc \in {"open_data", "start"} => max_lsn = Popped
  /\ pc \notin {"closed", "open_data", "start"} => max_flushed_lsn = Finished
  /\ pc # "closed" => max_lsn <= Finished

\* What callers no longer need, and what the disk says of it.
Need == Larger(needed, 1)
Advanced ==
  /\ min_lsn <= Need /\ min <= Need /\ \A a \in Advancers : adv[a] <= Need
  /\ \A i \in DOMAIN mani : \A j \in DOMAIN mani[i].entries : mani[i].entries[j] <= Need
  /\ \A i \in DOMAIN data : \A j \in DOMAIN data[i].blocks : data[i].blocks[j].wmin <= Need
  /\ \A j \in DOMAIN buf : buf[j].wmin <= Need

-----------------------------------------------------------------------------
(* The manifest, and what is synced.                                       *)

\* Nothing was appended before the first entry of the manifest is on disk.
Fresh == Len(mani) = 1 /\ mani[1].synced = 0
Beginning ==
  /\ acked = 0 /\ max_lsn = 0 /\ min_lsn = 0 /\ \A a \in Advancers : adv[a] = 0
  /\ Len(data) <= 1 /\ \A i \in DOMAIN data : data[i].first = 1 /\ data[i].blocks = <<>>
  /\ \/ pc \in {"closed", "open_data", "start"}
     \/ pc = "remove" /\ then = <<"mani", "top">>
     \/ pc \in {"mani", "mani_sync"} /\ then = <<"top">>

Manifest ==
  /\ mani = <<>> => data = <<>> /\ acked = 0 /\ \A a \in Advancers : adv[a] = 0
  /\ Len(mani) <= 2
  /\ mani # <<>> /\ pc # "mani_sync" => Last(mani).synced = Len(Last(mani).entries)
  /\ pc \in {"mani_sync", "mani_rot"} => Last(mani).entries # <<>>
  /\ Fresh => Beginning

Synced ==
  \A i \in DOMAIN data :
    i < Len(data) \/ pc \notin {"sync", "rot_sync"} => data[i].synced = Len(data[i].blocks)

-----------------------------------------------------------------------------
(* The stream of parts: those on disk, and those in the buffer.            *)

With(D, blocks) == IF D = <<>> THEN D ELSE [D EXCEPT ![Len(D)].blocks = @ \o blocks]
Stream == With(data, IF Written THEN <<>> ELSE buf)

LsnAt(D, x) == PartAt(D, x).lsn
KindAt(D, x) == PartAt(D, x).kind
FromAt(D, x) == PartAt(D, x).from
ToAt(D, x) == PartAt(D, x).from + PartAt(D, x).units

\* LSNs do not go back, and the name of a rotation separates them.
Ordered(D) == \A x, y \in Places(D) : Before(x, y) => LsnAt(D, x) <= LsnAt(D, y)
Ascending(D) == \A i, j \in DOMAIN D : i < j => D[i].first <= D[j].first
Named(D) ==
  \A x \in Places(D), i \in DOMAIN D :
    /\ x[1] < i => LsnAt(D, x) < D[i].first
    /\ x[1] >= i => D[i].first <= LsnAt(D, x)

\* The first e units of entry l, of s units, are in the stream.
Mine(D, l) == {x \in Places(D) : LsnAt(D, x) = l}
Begins(D, l) == \E x \in Mine(D, l) : FromAt(D, x) = 0
Called(D, l, s) ==
  \A x \in Mine(D, l) : /\ KindAt(D, x) \in {"Full", "First"} <=> FromAt(D, x) = 0
                        /\ KindAt(D, x) \in {"Full", "Last"} <=> ToAt(D, x) = s
GoesOn(D, l, e) ==
  \A x \in Mine(D, l) :
    /\ ToAt(D, x) <= e
    /\ ToAt(D, x) = e \/ \E y \in Mine(D, l) : Before(x, y) /\ FromAt(D, y) = ToAt(D, x)
Apart(D, l, s) ==
  \A x, y \in Mine(D, l) : Before(x, y) => ToAt(D, x) # s /\ ToAt(D, x) <= FromAt(D, y)
Tiled(D, l, e, s) == Begins(D, l) /\ Called(D, l, s) /\ GoesOn(D, l, e) /\ Apart(D, l, s)

\* How much of entry l is in blocks.
Packed(l) == IF cur.split /\ l = cur.lsn THEN size[l] - cur.left ELSE size[l]

\* The stream ends within entry l.
CutOff(D, l) ==
  \E x \in Mine(D, l) : /\ KindAt(D, x) \in {"First", "Middle"}
                        /\ \A y \in Places(D) : ~Before(x, y)

WholeRunning ==
  \A l \in 1 .. Filled : l < needed \/ l \in torn \/ Tiled(Stream, l, Packed(l), size[l])
WholeClosed ==
  \A l \in Lsns \ {0} :
    /\ l <= acked => l < needed \/ l \in torn \/ Tiled(data, l, size[l], size[l])
    /\ (\E x \in Places(data) : l <= LsnAt(data, x)) =>
         l < needed \/ l \in torn \/ Tiled(data, l, size[l], size[l]) \/ CutOff(data, l)
Whole == IF pc = "closed" THEN WholeClosed ELSE WholeRunning

-----------------------------------------------------------------------------
(* Headers, and what was reported.                                         *)

Headed(b) == b.parts # <<>> /\ b.max = Last(b.parts).lsn

Headers ==
  /\ \A i \in DOMAIN data : \A j \in DOMAIN data[i].blocks : Headed(data[i].blocks[j])
  /\ \A j \in DOMAIN buf :
       (j < Len(buf) \/ ToWrite \/ Written) /\ buf[j].parts # <<>> => Headed(buf[j])
  /\ Written => \A j \in DOMAIN buf : buf[j].parts # <<>>
  /\ buf # <<>> /\ Last(buf).parts # <<>> => Last(Last(buf).parts).lsn = last_filled_lsn
  /\ \A j \in DOMAIN buf : buf[j].parts # <<>> => last_filled_lsn # 0
  /\ last_filled_lsn # 0 => last_filled_lsn = Filled
  /\ Written /\ Last(data).blocks # <<>> => Last(Last(data).blocks).max = last_filled_lsn

\* New parts come behind all that are there, in the last rotation.
Behind ==
  pc # "closed" =>
    /\ \A x \in Places(Stream) : LsnAt(Stream, x) <= Filled
    /\ data # <<>> => Last(data).first <= Filled + 1
    /\ data # <<>> /\ cur.split => Last(data).first <= Filled

\* What was reported is synced, and what is not was not reported.
Reported == Larger(acked, max_lsn)
Acked ==
  /\ pc # "closed" => acked <= Finished
  /\ \A x \in Places(Stream) :
       x[1] = Len(data) /\ x[2] > Last(data).synced => Reported < LsnAt(Stream, x)
  /\ data # <<>> /\ Last(data).synced > 0 =>
       Reported <= Last(data).blocks[Last(data).synced].max

Log ==
  /\ Ordered(Stream) /\ Ascending(Stream) /\ Named(Stream)
  /\ Headers /\ Behind /\ Acked /\ Whole

IInv ==
  /\ TypeInv /\ Control /\ Numbers /\ Advanced /\ Synced
  /\ faults = {} => Manifest /\ Log

-----------------------------------------------------------------------------
(* Lemmas: places.                                                         *)

\* x is the place of a part in D.
IsPlace(D, x) ==
  /\ x = <<x[1], x[2], x[3]>>
  /\ x[1] \in DOMAIN D /\ x[2] \in DOMAIN D[x[1]].blocks
  /\ x[3] \in DOMAIN D[x[1]].blocks[x[2]].parts

\* The places are the triples that name a rotation, a block and a part.
LEMMA PlaceIff ==
  ASSUME NEW D, NEW x
  PROVE  x \in Places(D) <=> IsPlace(D, x)
<1>1. ASSUME x \in Places(D) PROVE IsPlace(D, x)
  <2>1. PICK i \in DOMAIN D : x \in UNION {{<<i, j, k>> : k \in DOMAIN D[i].blocks[j].parts} :
                                             j \in DOMAIN D[i].blocks}
    BY <1>1 DEF Places
  <2>2. PICK j \in DOMAIN D[i].blocks : x \in {<<i, j, k>> : k \in DOMAIN D[i].blocks[j].parts}
    BY <2>1
  <2>3. PICK k \in DOMAIN D[i].blocks[j].parts : x = <<i, j, k>>
    BY <2>2
  <2> QED BY <2>3 DEF IsPlace
<1>2. ASSUME IsPlace(D, x) PROVE x \in Places(D)
  <2> DEFINE i == x[1] j == x[2] k == x[3]
  <2>1. x \in {<<i, j, n>> : n \in DOMAIN D[i].blocks[j].parts}
    BY <1>2 DEF IsPlace
  <2>2. x \in UNION {{<<i, m, n>> : n \in DOMAIN D[i].blocks[m].parts} : m \in DOMAIN D[i].blocks}
    BY <2>1, <1>2 DEF IsPlace
  <2> QED BY <2>2, <1>2 DEF IsPlace, Places
<1> QED
  BY <1>1, <1>2

\* Places are triples of positive numbers, and there is a part at each.
LEMMA PlaceTypes ==
  ASSUME NEW D \in Seq(RotType), NEW x \in Places(D)
  PROVE  /\ x = <<x[1], x[2], x[3]>>
         /\ x[1] \in 1 .. Len(D)
         /\ x[2] \in 1 .. Len(D[x[1]].blocks)
         /\ x[3] \in 1 .. Len(D[x[1]].blocks[x[2]].parts)
         /\ PartAt(D, x) \in PartType
<1>1. IsPlace(D, x)
  BY PlaceIff
<1>2. /\ x[1] \in 1 .. Len(D)
      /\ D[x[1]] \in RotType
  BY <1>1 DEF IsPlace
<1>3. D[x[1]].blocks \in Seq(BlockType)
  BY <1>2 DEF RotType
<1>4. /\ x[2] \in 1 .. Len(D[x[1]].blocks)
      /\ D[x[1]].blocks[x[2]] \in BlockType
  BY <1>1, <1>3 DEF IsPlace
<1>5. D[x[1]].blocks[x[2]].parts \in Seq(PartType)
  BY <1>4 DEF BlockType
<1>6. /\ x[3] \in 1 .. Len(D[x[1]].blocks[x[2]].parts)
      /\ D[x[1]].blocks[x[2]].parts[x[3]] \in PartType
  BY <1>1, <1>5 DEF IsPlace
<1> QED
  BY <1>1, <1>2, <1>4, <1>6 DEF IsPlace, PartAt

\* What is at a place has these types.
LEMMA AtTypes ==
  ASSUME NEW D \in Seq(RotType), NEW x \in Places(D)
  PROVE  /\ LsnAt(D, x) \in 1 .. MaxLsn /\ FromAt(D, x) \in Nat /\ ToAt(D, x) \in Nat
         /\ FromAt(D, x) <= ToAt(D, x)
         /\ KindAt(D, x) \in {"Full", "First", "Middle", "Last"}
BY PlaceTypes DEF PartType, LsnAt, FromAt, ToAt, KindAt

\* Places are in a total order.
LEMMA BeforeTotal ==
  ASSUME NEW D \in Seq(RotType), NEW x \in Places(D), NEW y \in Places(D)
  PROVE  (Before(x, y) \/ Before(y, x) \/ x = y) /\ ~(Before(x, y) /\ Before(y, x))
<1>1. /\ x = <<x[1], x[2], x[3]>> /\ x[1] \in Nat /\ x[2] \in Nat /\ x[3] \in Nat
      /\ y = <<y[1], y[2], y[3]>> /\ y[1] \in Nat /\ y[2] \in Nat /\ y[3] \in Nat
  BY PlaceTypes
<1>2. Before(x, y) \/ Before(y, x) \/ (x[1] = y[1] /\ x[2] = y[2] /\ x[3] = y[3])
  BY <1>1 DEF Before
<1>3. ~(Before(x, y) /\ Before(y, x))
  BY <1>1 DEF Before
<1> QED
  BY <1>1, <1>2, <1>3

LEMMA BeforeTransitive ==
  ASSUME NEW D \in Seq(RotType), NEW x \in Places(D), NEW y \in Places(D), NEW z \in Places(D),
         Before(x, y), Before(y, z)
  PROVE  Before(x, z)
<1>1. /\ x[1] \in Nat /\ x[2] \in Nat /\ x[3] \in Nat
      /\ y[1] \in Nat /\ y[2] \in Nat /\ y[3] \in Nat
      /\ z[1] \in Nat /\ z[2] \in Nat /\ z[3] \in Nat
  BY PlaceTypes
<1> QED
  BY SMTT(60), <1>1 DEF Before

\* A nonempty set of numbers with a bound has a greatest one.
LEMMA LargestNumber ==
  ASSUME NEW S, S \subseteq Nat, S # {}, NEW b \in Nat, \A x \in S : x <= b
  PROVE  \E x \in S : \A y \in S : y <= x
<1> DEFINE R == OpToRel(<, Nat)
           T == {b - x : x \in S}
<1>1. IsWellFoundedOn(R, Nat)
  BY NatLessThanWellFounded
<1>2. \A x, y \in Nat : <<x, y>> \in R <=> x < y
  BY DEF OpToRel
<1>3. T \subseteq Nat /\ T # {}
  <2>1. \A x \in S : b - x \in Nat
    OBVIOUS
  <2> QED BY <2>1
<1> HIDE DEF R
<1>4. PICK t \in T : \A u \in T : ~(<<u, t>> \in R)
  BY <1>1, <1>3, WFMin
<1>5. PICK x \in S : t = b - x
  BY <1>4
<1>6. ASSUME NEW y \in S PROVE y <= x
  <2>1. b - y \in T /\ b - y \in Nat /\ b - x \in Nat /\ y \in Nat /\ x \in Nat
    BY <1>3, <1>5
  <2>2. ~(b - y < b - x)
    BY <2>1, <1>2, <1>4, <1>5
  <2> QED BY <2>1, <2>2
<1> QED
  BY <1>6

\* Of some places one is the last.
LEMMA LastPlace ==
  ASSUME NEW D \in Seq(RotType), NEW P \in SUBSET Places(D), P # {}
  PROVE  \E z \in P : \A y \in P : ~Before(z, y)
<1> DEFINE I == {x[1] : x \in P}
<1>1. \A x \in P : /\ x[1] \in 1 .. Len(D) /\ x[2] \in 1 .. Len(D[x[1]].blocks)
                   /\ x[3] \in 1 .. Len(D[x[1]].blocks[x[2]].parts)
  BY PlaceTypes
<1>2. ASSUME NEW i \in 1 .. Len(D)
      PROVE  D[i].blocks \in Seq(BlockType) /\ Len(D[i].blocks) \in Nat
  <2>1. D[i] \in RotType
    OBVIOUS
  <2>2. D[i].blocks \in Seq(BlockType)
    BY <2>1 DEF RotType
  <2> HIDE DEF I
  <2> QED BY <2>2
<1>3. ASSUME NEW i \in 1 .. Len(D), NEW j \in 1 .. Len(D[i].blocks)
      PROVE  Len(D[i].blocks[j].parts) \in Nat
  <2>1. D[i].blocks[j] \in BlockType
    BY <1>2
  <2>2. D[i].blocks[j].parts \in Seq(PartType)
    BY <2>1 DEF BlockType
  <2> QED BY <2>2
<1>4. PICK i \in I : \A n \in I : n <= i
  <2>1. I \subseteq Nat /\ I # {} /\ \A n \in I : n <= Len(D)
    BY <1>1
  <2>2. Len(D) \in Nat
    OBVIOUS
  <2> HIDE DEF I
  <2> QED BY <2>1, <2>2, LargestNumber
<1> DEFINE J == {x[2] : x \in {y \in P : y[1] = i}}
<1>5. i \in 1 .. Len(D)
  BY <1>1
<1>6. PICK j \in J : \A n \in J : n <= j
  <2>1. J \subseteq Nat /\ J # {} /\ \A n \in J : n <= Len(D[i].blocks)
    BY <1>1, <1>4
  <2> HIDE DEF J
  <2> QED BY <2>1, <1>2, <1>5, LargestNumber
<1> DEFINE K == {x[3] : x \in {y \in P : y[1] = i /\ y[2] = j}}
<1>7. j \in 1 .. Len(D[i].blocks)
  BY <1>1
<1>8. PICK k \in K : \A n \in K : n <= k
  <2>1. K \subseteq Nat /\ K # {} /\ \A n \in K : n <= Len(D[i].blocks[j].parts)
    <3>1. \A x \in P : x[1] = i /\ x[2] = j =>
                         x[3] \in Nat /\ x[3] <= Len(D[i].blocks[j].parts)
      BY SMTT(60), <1>1
    <3>2. K # {}
      BY <1>6
    <3> QED BY <3>1, <3>2
  <2> HIDE DEF K
  <2> QED BY <2>1, <1>3, <1>5, <1>7, LargestNumber
<1>9. PICK z \in P : z[1] = i /\ z[2] = j /\ z[3] = k
  BY <1>8
<1>10. ASSUME NEW y \in P PROVE ~Before(z, y)
  <2>1. y[1] <= i /\ y[1] \in Nat /\ y[2] \in Nat /\ y[3] \in Nat
    BY <1>1, <1>4
  <2>2. y[1] = i => y[2] <= j
    BY <1>6
  <2>3. y[1] = i /\ y[2] = j => y[3] <= k
    BY <1>8
  <2>4. z[1] \in Nat /\ z[2] \in Nat /\ z[3] \in Nat
    BY <1>1
  <2> QED BY <2>1, <2>2, <2>3, <2>4, <1>9 DEF Before
<1> QED
  BY <1>10

\* A nonempty set of numbers has a least one.
LEMMA LeastNumber ==
  ASSUME NEW S, S \subseteq Nat, S # {}
  PROVE  \E x \in S : \A y \in S : x <= y
<1> DEFINE R == OpToRel(<, Nat)
<1>1. IsWellFoundedOn(R, Nat)
  BY NatLessThanWellFounded
<1>2. \A x, y \in Nat : <<x, y>> \in R <=> x < y
  BY DEF OpToRel
<1> HIDE DEF R
<1>3. PICK x \in S : \A y \in S : ~(<<y, x>> \in R)
  BY <1>1, WFMin
<1>4. ASSUME NEW y \in S PROVE x <= y
  <2>1. x \in Nat /\ y \in Nat /\ ~(y < x)
    BY <1>2, <1>3
  <2> QED BY <2>1
<1> QED
  BY <1>4

\* Of some places one is the first.
LEMMA FirstPlace ==
  ASSUME NEW D \in Seq(RotType), NEW P \in SUBSET Places(D), P # {}
  PROVE  \E z \in P : \A y \in P : ~Before(y, z)
<1> DEFINE I == {x[1] : x \in P}
<1>1. \A x \in P : x[1] \in Nat /\ x[2] \in Nat /\ x[3] \in Nat
  BY PlaceTypes
<1>2. PICK i \in I : \A n \in I : i <= n
  <2>1. I \subseteq Nat /\ I # {}
    BY <1>1
  <2> HIDE DEF I
  <2> QED BY <2>1, LeastNumber
<1> DEFINE J == {x[2] : x \in {y \in P : y[1] = i}}
<1>3. PICK j \in J : \A n \in J : j <= n
  <2>1. J \subseteq Nat /\ J # {}
    BY <1>1, <1>2
  <2> HIDE DEF J
  <2> QED BY <2>1, LeastNumber
<1> DEFINE K == {x[3] : x \in {y \in P : y[1] = i /\ y[2] = j}}
<1>4. PICK k \in K : \A n \in K : k <= n
  <2>1. K \subseteq Nat /\ K # {}
    BY <1>1, <1>3
  <2> HIDE DEF K
  <2> QED BY <2>1, LeastNumber
<1>5. PICK z \in P : z[1] = i /\ z[2] = j /\ z[3] = k
  BY <1>4
<1>6. ASSUME NEW y \in P PROVE ~Before(y, z)
  <2>1. i <= y[1] /\ y[1] \in Nat /\ y[2] \in Nat /\ y[3] \in Nat
    BY <1>1, <1>2
  <2>2. y[1] = i => j <= y[2]
    BY <1>3
  <2>3. y[1] = i /\ y[2] = j => k <= y[3]
    BY <1>4
  <2>4. z[1] \in Nat /\ z[2] \in Nat /\ z[3] \in Nat
    BY <1>1
  <2> QED BY <2>1, <2>2, <2>3, <2>4, <1>5 DEF Before
<1> QED
  BY <1>6

\* LastOf some places is one of them, and none of them comes after it.
LEMMA LastOfIs ==
  ASSUME NEW D \in Seq(RotType), NEW P \in SUBSET Places(D), P # {}
  PROVE  LastOf(P) \in P /\ \A y \in P : y = LastOf(P) \/ Before(y, LastOf(P))
<1>1. \E z \in P : \A y \in P : ~Before(z, y)
  BY LastPlace
<1>2. LastOf(P) \in P /\ \A y \in P : ~Before(LastOf(P), y)
  BY <1>1 DEF LastOf
<1> QED
  BY <1>2, BeforeTotal

-----------------------------------------------------------------------------
(* Lemmas: what becomes of the stream.                                     *)

SameNames(D, E) == Len(E) = Len(D) /\ \A i \in DOMAIN D : E[i].first = D[i].first
SameParts(D, E) ==
  Places(E) = Places(D) /\ \A x \in Places(D) : PartAt(E, x) = PartAt(D, x)

\* E is D with part p behind all others, at place z in the last rotation.
Added(D, E, z, p) ==
  /\ Places(E) = Places(D) \cup {z} /\ z \notin Places(D)
  /\ \A x \in Places(D) : PartAt(E, x) = PartAt(D, x) /\ Before(x, z)
  /\ PartAt(E, z) = p /\ z[1] = Len(D)

\* E is D without some of the last parts.
CutTo(D, E) ==
  /\ Places(E) \subseteq Places(D)
  /\ \A x \in Places(E) : PartAt(E, x) = PartAt(D, x)
  /\ \A x \in Places(E), y \in Places(D) : Before(y, x) => y \in Places(E)

\* The same parts of entry l at the same places make up as much of it.
LEMMA TiledSame ==
  ASSUME NEW D, NEW E, NEW l, NEW e, NEW s,
         Mine(E, l) = Mine(D, l), \A x \in Mine(D, l) : PartAt(E, x) = PartAt(D, x),
         Tiled(D, l, e, s)
  PROVE  Tiled(E, l, e, s)
<1> DEFINE M == Mine(D, l)
<1>1. \A x \in M : /\ FromAt(E, x) = FromAt(D, x) /\ ToAt(E, x) = ToAt(D, x)
                   /\ KindAt(E, x) = KindAt(D, x)
  BY DEF FromAt, ToAt, KindAt
<1>2. M = Mine(E, l)
  OBVIOUS
<1>3. Begins(E, l)
  BY <1>1, <1>2 DEF Tiled, Begins
<1>4. Called(E, l, s)
  BY <1>1, <1>2 DEF Tiled, Called
<1>5. GoesOn(E, l, e)
  BY <1>1, <1>2 DEF Tiled, GoesOn
<1>6. Apart(E, l, s)
  BY <1>1, <1>2 DEF Tiled, Apart
<1> QED
  BY <1>3, <1>4, <1>5, <1>6 DEF Tiled

LEMMA SamePartsMine ==
  ASSUME NEW D, NEW E, SameParts(D, E), NEW l
  PROVE  Mine(E, l) = Mine(D, l) /\ \A x \in Mine(D, l) : PartAt(E, x) = PartAt(D, x)
BY DEF SameParts, Mine, LsnAt

\* The same parts: nothing changes.
LEMMA SamePartsTiled ==
  ASSUME NEW D, NEW E, SameParts(D, E), NEW l, NEW e, NEW s, Tiled(D, l, e, s)
  PROVE  Tiled(E, l, e, s)
<1>1. Mine(E, l) = Mine(D, l) /\ \A x \in Mine(D, l) : PartAt(E, x) = PartAt(D, x)
  BY SamePartsMine
<1> QED
  BY <1>1, TiledSame

LEMMA SamePartsOrdered ==
  ASSUME NEW D, NEW E, SameParts(D, E), Ordered(D)
  PROVE  Ordered(E)
BY DEF SameParts, Ordered, LsnAt

LEMMA SameNamesNamed ==
  ASSUME NEW D \in Seq(RotType), NEW E \in Seq(RotType),
         SameParts(D, E), SameNames(D, E), Named(D), Ascending(D)
  PROVE  Named(E) /\ Ascending(E)
<1>1. DOMAIN E = DOMAIN D
  BY DEF SameNames
<1>2. Named(E)
  BY <1>1 DEF SameParts, SameNames, Named, LsnAt
<1>3. Ascending(E)
  BY <1>1 DEF SameNames, Ascending
<1> QED
  BY <1>2, <1>3

\* A cut keeps the order, and the names separate what is left.
LEMMA CutOrdered ==
  ASSUME NEW D \in Seq(RotType), NEW E \in Seq(RotType),
         CutTo(D, E), SameNames(D, E), Ordered(D), Named(D), Ascending(D)
  PROVE  Ordered(E) /\ Named(E) /\ Ascending(E)
<1>1. DOMAIN E = DOMAIN D
  BY DEF SameNames
<1>2. Ordered(E)
  BY DEF CutTo, Ordered, LsnAt
<1>3. Named(E)
  BY <1>1 DEF CutTo, SameNames, Named, LsnAt
<1>4. Ascending(E)
  BY <1>1 DEF SameNames, Ascending
<1> QED
  BY <1>2, <1>3, <1>4

\* An entry of which nothing is cut off is as it was.
LEMMA CutMine ==
  ASSUME NEW D, NEW E, CutTo(D, E), NEW l, Mine(D, l) \subseteq Places(E)
  PROVE  Mine(E, l) = Mine(D, l) /\ \A x \in Mine(D, l) : PartAt(E, x) = PartAt(D, x)
BY DEF CutTo, Mine, LsnAt

\* When an entry with a later one, or with a part, before the cut is not there in
\* full, the stream is cut off within it.
LEMMA CutWithin ==
  ASSUME NEW D \in Seq(RotType), NEW E \in Seq(RotType), CutTo(D, E), Ordered(D),
         NEW l \in Nat, NEW e \in Nat, NEW s \in Nat, Tiled(D, l, e, s), e <= s,
         NEW w \in Places(E), l <= LsnAt(E, w),
         e = s \/ \A x \in Places(D) : LsnAt(D, x) <= l
  PROVE  Tiled(E, l, s, s) \/ CutOff(E, l)
<1>1. PICK z \in Places(E) : \A y \in Places(E) : ~Before(z, y)
  BY LastPlace
<1>2. z \in Places(D) /\ w \in Places(D) /\ LsnAt(E, w) = LsnAt(D, w) /\ PartAt(E, z) = PartAt(D, z)
  BY DEF CutTo, LsnAt
<1>3. LsnAt(E, z) = LsnAt(D, z) /\ KindAt(E, z) = KindAt(D, z)
  BY <1>2 DEF LsnAt, KindAt
<1>4. l <= LsnAt(D, z)
  <2>1. Before(w, z) \/ w = z
    BY <1>1, BeforeTotal
  <2>2. LsnAt(D, w) \in Nat /\ LsnAt(D, z) \in Nat
    BY SMTT(60), <1>2, AtTypes
  <2>3. CASE w = z
    BY <2>3, <1>2
  <2>4. CASE Before(w, z)
    <3>1. LsnAt(D, w) <= LsnAt(D, z)
      BY <2>4, <1>2 DEF Ordered
    <3> QED BY <3>1, <2>2, <1>2
  <2> QED BY <2>1, <2>3, <2>4
<1>5. CASE \E y \in Mine(D, l) : y \notin Places(E)
  <2>1. PICK y \in Places(D) : y \notin Places(E) /\ LsnAt(D, y) = l
    BY <1>5 DEF Mine
  <2>2. Before(z, y)
    <3>1. z # y /\ ~Before(y, z)
      BY <2>1 DEF CutTo
    <3> QED BY <3>1, <1>2, BeforeTotal
  <2>3. LsnAt(D, z) = l
    <3>1. LsnAt(D, z) <= l
      BY <2>1, <2>2, <1>2 DEF Ordered
    <3>2. LsnAt(D, z) \in Nat
      BY SMTT(60), <1>2, AtTypes
    <3> QED BY <3>1, <3>2, <1>4
  <2>4. z \in Mine(D, l) /\ y \in Mine(D, l) /\ z \in Mine(E, l)
    BY <2>1, <2>3, <1>2, <1>3 DEF Mine
  <2>5. ToAt(D, z) # s
    BY <2>2, <2>4 DEF Tiled, Apart
  <2>6. KindAt(D, z) \in {"First", "Middle"}
    <3>1. KindAt(D, z) \notin {"Full", "Last"}
      BY <2>4, <2>5 DEF Tiled, Called
    <3>2. KindAt(D, z) \in {"Full", "First", "Middle", "Last"}
      BY <1>2, AtTypes
    <3> QED BY <3>1, <3>2
  <2> QED BY <2>4, <2>6, <1>1, <1>3 DEF CutOff
<1>6. CASE Mine(D, l) \subseteq Places(E)
  <2>1. Mine(E, l) = Mine(D, l) /\ \A x \in Mine(D, l) : PartAt(E, x) = PartAt(D, x)
    BY <1>6, CutMine
  <2>2. CASE e = s
    <3>1. Tiled(E, l, e, s)
      BY <2>1, TiledSame
    <3> QED BY <3>1, <2>2
  <2>3. CASE e # s
    <3>1. LsnAt(D, z) = l
      <4>1. LsnAt(D, z) <= l /\ LsnAt(D, z) \in Nat
        BY SMTT(60), <2>3, <1>2, AtTypes
      <4> QED BY <4>1, <1>4
    <3>2. z \in Mine(D, l) /\ z \in Mine(E, l)
      BY <3>1, <1>2, <1>3 DEF Mine
    <3>3. ToAt(D, z) # s
      <4>1. ToAt(D, z) <= e /\ ToAt(D, z) \in Nat
        BY <3>2, <1>2, AtTypes DEF Tiled, GoesOn
      <4> QED BY <4>1, <2>3
    <3>4. KindAt(D, z) \in {"First", "Middle"}
      <4>1. KindAt(D, z) \notin {"Full", "Last"}
        BY <3>2, <3>3 DEF Tiled, Called
      <4>2. KindAt(D, z) \in {"Full", "First", "Middle", "Last"}
        BY <1>2, AtTypes
      <4> QED BY <4>1, <4>2
    <3> QED BY <3>2, <3>4, <1>1, <1>3 DEF CutOff
  <2> QED BY <2>2, <2>3
<1> QED
  BY <1>5, <1>6

\* A part behind all others, of an entry no earlier than they are.
LEMMA AddedOrdered ==
  ASSUME NEW D \in Seq(RotType), NEW E \in Seq(RotType), NEW z, NEW p \in PartType,
         Added(D, E, z, p), SameNames(D, E), Ordered(D), Named(D), Ascending(D),
         \A x \in Places(D) : LsnAt(D, x) <= p.lsn,
         D # <<>>, D[Len(D)].first <= p.lsn
  PROVE  Ordered(E) /\ Named(E) /\ Ascending(E)
<1>1. DOMAIN E = DOMAIN D /\ \A i \in DOMAIN D : E[i].first = D[i].first
  BY DEF SameNames
<1>2. \A x \in Places(D) : /\ LsnAt(E, x) = LsnAt(D, x) /\ x \in Places(E)
                           /\ Before(x, z)
  BY DEF Added, LsnAt
<1>3. /\ Places(E) = Places(D) \cup {z} /\ LsnAt(E, z) = p.lsn /\ z[1] = Len(D)
      /\ z \in Places(E) /\ p.lsn \in Nat
  BY DEF Added, LsnAt, PartType
<1>4. Ordered(E)
  <2> SUFFICES ASSUME NEW x \in Places(E), NEW y \in Places(E), Before(x, y)
               PROVE  LsnAt(E, x) <= LsnAt(E, y)
    BY DEF Ordered
  <2>1. CASE x \in Places(D) /\ y \in Places(D)
    BY <2>1, <1>2 DEF Ordered
  <2>2. CASE x \in Places(D) /\ y = z
    BY <2>2, <1>2, <1>3
  <2>3. CASE x = z
    <3>1. ~Before(z, y)
      BY <2>3, <1>2, <1>3, BeforeTotal
    <3> QED BY <3>1, <2>3
  <2> QED BY <2>1, <2>2, <2>3, <1>3
<1>5. Ascending(E)
  BY <1>1 DEF Ascending
<1>6. Named(E)
  <2> SUFFICES ASSUME NEW x \in Places(E), NEW i \in DOMAIN D
               PROVE  /\ x[1] < i => LsnAt(E, x) < D[i].first
                      /\ x[1] >= i => D[i].first <= LsnAt(E, x)
    BY <1>1 DEF Named
  <2>1. CASE x \in Places(D)
    BY <2>1, <1>2 DEF Named
  <2>2. CASE x = z
    <3>1. i \in Nat /\ i <= Len(D) /\ Len(D) \in DOMAIN D
      OBVIOUS
    <3>2. D[i] \in RotType /\ D[Len(D)] \in RotType
      BY <3>1
    <3>3. D[i].first \in Nat /\ D[Len(D)].first \in Nat
      BY <3>2 DEF RotType
    <3>4. D[i].first <= D[Len(D)].first
      <4>1. CASE i = Len(D)
        BY <4>1, <3>3
      <4>2. CASE i < Len(D)
        BY <4>2, <3>1 DEF Ascending
      <4> QED BY <3>1, <4>1, <4>2
    <3> QED BY <3>1, <3>3, <3>4, <2>2, <1>3
  <2> QED BY <2>1, <2>2, <1>3
<1> QED
  BY <1>4, <1>5, <1>6

\* It is nothing to the other entries.
LEMMA AddedOther ==
  ASSUME NEW D, NEW E, NEW z, NEW p, Added(D, E, z, p),
         NEW l, l # p.lsn, NEW e, NEW s, Tiled(D, l, e, s)
  PROVE  Tiled(E, l, e, s)
<1>1. Mine(E, l) = Mine(D, l) /\ \A x \in Mine(D, l) : PartAt(E, x) = PartAt(D, x)
  BY DEF Added, Mine, LsnAt
<1> QED
  BY <1>1, TiledSame

\* The first part of an entry.
LEMMA AddedFirst ==
  ASSUME NEW D \in Seq(RotType), NEW E \in Seq(RotType), NEW z, NEW p \in PartType,
         Added(D, E, z, p), Mine(D, p.lsn) = {}, NEW s,
         p.from = 0, p.kind \in {"Full", "First"}, p.kind = "Full" <=> p.units = s
  PROVE  Tiled(E, p.lsn, p.units, s)
<1> DEFINE l == p.lsn
<1>1. Mine(E, l) = {z} /\ PartAt(E, z) = p
  BY DEF Added, Mine, LsnAt
<1>2. z \in Places(E)
  BY DEF Added
<1>3. FromAt(E, z) = 0 /\ ToAt(E, z) = p.units /\ KindAt(E, z) = p.kind /\ p.units \in Nat
  BY <1>1 DEF FromAt, ToAt, KindAt, PartType
<1>4. ~Before(z, z)
  BY <1>2, BeforeTotal
<1>5. Begins(E, l)
  BY <1>1, <1>3 DEF Begins
<1>6. Called(E, l, s)
  BY <1>1, <1>3 DEF Called
<1>7. GoesOn(E, l, p.units)
  BY <1>1, <1>3 DEF GoesOn
<1>8. Apart(E, l, s)
  BY <1>1, <1>4 DEF Apart
<1> QED
  BY <1>5, <1>6, <1>7, <1>8 DEF Tiled

\* The next part of an entry.
LEMMA AddedNext ==
  ASSUME NEW D \in Seq(RotType), NEW E \in Seq(RotType), NEW z, NEW p \in PartType,
         Added(D, E, z, p), NEW s \in Nat, Tiled(D, p.lsn, p.from, s),
         0 < p.from, p.from < s,
         p.kind \in {"Middle", "Last"}, p.kind = "Last" <=> p.from + p.units = s
  PROVE  Tiled(E, p.lsn, p.from + p.units, s)
<1> DEFINE l == p.lsn e == p.from + p.units M == Mine(D, l)
<1>1. Mine(E, l) = M \cup {z} /\ PartAt(E, z) = p /\ M \subseteq Places(D) /\ z \notin M
  BY DEF Added, Mine, LsnAt
<1>2. z \in Places(E) /\ M \subseteq Places(E)
  BY <1>1 DEF Added
<1>3. /\ FromAt(E, z) = p.from /\ ToAt(E, z) = e /\ KindAt(E, z) = p.kind
      /\ p.units \in Nat /\ p.from \in Nat /\ e \in Nat
  BY <1>1 DEF FromAt, ToAt, KindAt, PartType
<1>4. \A x \in M : /\ FromAt(E, x) = FromAt(D, x) /\ ToAt(E, x) = ToAt(D, x)
                   /\ KindAt(E, x) = KindAt(D, x)
                   /\ Before(x, z) /\ ~Before(z, x)
                   /\ ToAt(D, x) \in Nat /\ ToAt(D, x) <= p.from
  <2>1. ASSUME NEW x \in M PROVE PartAt(E, x) = PartAt(D, x) /\ Before(x, z)
    BY <1>1 DEF Added
  <2>2. ASSUME NEW x \in M PROVE ~Before(z, x)
    BY <2>1, <1>2, BeforeTotal
  <2>3. ASSUME NEW x \in M PROVE ToAt(D, x) \in Nat /\ ToAt(D, x) <= p.from
    BY <1>1, AtTypes DEF Tiled, GoesOn
  <2> QED BY <2>1, <2>2, <2>3 DEF FromAt, ToAt, KindAt
<1>5. Begins(E, l)
  BY <1>1, <1>4 DEF Begins, Tiled
<1>6. Called(E, l, s)
  <2>1. \A x \in M : /\ KindAt(E, x) \in {"Full", "First"} <=> FromAt(E, x) = 0
                     /\ KindAt(E, x) \in {"Full", "Last"} <=> ToAt(E, x) = s
    BY <1>4 DEF Called, Tiled
  <2>2. /\ KindAt(E, z) \in {"Full", "First"} <=> FromAt(E, z) = 0
        /\ KindAt(E, z) \in {"Full", "Last"} <=> ToAt(E, z) = s
    BY <1>3
  <2> QED BY <2>1, <2>2, <1>1 DEF Called
<1>7. GoesOn(E, l, e)
  <2>1. ASSUME NEW x \in M
        PROVE  /\ ToAt(E, x) <= e
               /\ \E y \in Mine(E, l) : Before(x, y) /\ FromAt(E, y) = ToAt(E, x)
    <3>1. ToAt(E, x) <= e
      BY <1>3, <1>4
    <3>2. ToAt(D, x) = p.from \/ \E y \in M : Before(x, y) /\ FromAt(D, y) = ToAt(D, x)
      BY DEF Tiled, GoesOn
    <3>3. CASE ToAt(D, x) = p.from
      BY <3>1, <3>3, <1>1, <1>3, <1>4
    <3>4. CASE \E y \in M : Before(x, y) /\ FromAt(D, y) = ToAt(D, x)
      BY <3>1, <3>4, <1>1, <1>4
    <3> QED BY <3>2, <3>3, <3>4
  <2> QED BY <2>1, <1>1, <1>3 DEF GoesOn
<1>8. Apart(E, l, s)
  <2> SUFFICES ASSUME NEW x \in Mine(E, l), NEW y \in Mine(E, l), Before(x, y)
               PROVE  ToAt(E, x) # s /\ ToAt(E, x) <= FromAt(E, y)
    BY DEF Apart
  <2>1. x \in M
    <3>1. ~Before(z, z)
      BY <1>2, BeforeTotal
    <3> QED BY <3>1, <1>1, <1>4
  <2>2. CASE y \in M
    BY <2>1, <2>2, <1>4 DEF Apart, Tiled
  <2>3. CASE y = z
    BY <2>1, <2>3, <1>3, <1>4
  <2> QED BY <2>2, <2>3, <1>1
<1> QED
  BY <1>5, <1>6, <1>7, <1>8 DEF Tiled

\* The place in D of what is at place x in Tail(D).
Shifted(x) == <<x[1] + 1, x[2], x[3]>>

LEMMA TailPlaces ==
  ASSUME NEW D \in Seq(RotType), D # <<>>
  PROVE  /\ \A x \in Places(Tail(D)) : /\ Shifted(x) \in Places(D)
                                       /\ PartAt(Tail(D), x) = PartAt(D, Shifted(x))
         /\ \A y \in Places(D) : y[1] > 1 => \E x \in Places(Tail(D)) : y = Shifted(x)
         /\ \A x, y \in Places(Tail(D)) : Before(x, y) <=> Before(Shifted(x), Shifted(y))
<1> DEFINE E == Tail(D)
<1>1. E \in Seq(RotType) /\ Len(E) = Len(D) - 1 /\ \A i \in 1 .. Len(D) - 1 : E[i] = D[i + 1]
  OBVIOUS
<1>2. ASSUME NEW x \in Places(E)
      PROVE  Shifted(x) \in Places(D) /\ PartAt(E, x) = PartAt(D, Shifted(x))
  <2>1. IsPlace(E, x)
    BY PlaceIff
  <2>2. E[x[1]] = D[x[1] + 1] /\ x[1] + 1 \in DOMAIN D
    BY <1>1, <2>1 DEF IsPlace
  <2>3. IsPlace(D, Shifted(x))
    BY <2>1, <2>2 DEF IsPlace, Shifted
  <2> QED BY <2>2, <2>3, PlaceIff DEF PartAt, Shifted
<1>3. ASSUME NEW y \in Places(D), y[1] > 1 PROVE \E x \in Places(E) : y = Shifted(x)
  <2> DEFINE x == <<y[1] - 1, y[2], y[3]>>
  <2>1. IsPlace(D, y)
    BY PlaceIff
  <2>2. x[1] \in DOMAIN E /\ E[x[1]] = D[y[1]] /\ y[1] \in Nat
    BY <1>1, <1>3, <2>1 DEF IsPlace
  <2>3. IsPlace(E, x)
    BY <2>1, <2>2 DEF IsPlace
  <2>4. y = Shifted(x)
    BY <2>1, <2>2 DEF IsPlace, Shifted
  <2> QED BY <2>3, <2>4, PlaceIff
<1>4. ASSUME NEW x \in Places(E), NEW y \in Places(E)
      PROVE  Before(x, y) <=> Before(Shifted(x), Shifted(y))
  <2>1. x[1] \in 1 .. Len(E) /\ y[1] \in 1 .. Len(E)
    <3> HIDE DEF E
    <3> QED BY <1>1, PlaceTypes
  <2> QED BY <2>1 DEF Before, Shifted
<1> QED
  BY <1>2, <1>3, <1>4

LEMMA TailOrdered ==
  ASSUME NEW D \in Seq(RotType), D # <<>>, Ordered(D), Named(D), Ascending(D)
  PROVE  Ordered(Tail(D)) /\ Named(Tail(D)) /\ Ascending(Tail(D))
<1> DEFINE E == Tail(D)
<1>1. E \in Seq(RotType) /\ Len(E) = Len(D) - 1 /\ \A i \in 1 .. Len(D) - 1 : E[i] = D[i + 1]
  OBVIOUS
<1>2. \A x \in Places(E) : /\ Shifted(x) \in Places(D)
                           /\ LsnAt(E, x) = LsnAt(D, Shifted(x))
  BY TailPlaces DEF LsnAt
<1>3. Ordered(E)
  BY <1>2, TailPlaces DEF Ordered
<1>4. Named(E)
  <2> SUFFICES ASSUME NEW x \in Places(E), NEW i \in DOMAIN E
               PROVE  /\ x[1] < i => LsnAt(E, x) < E[i].first
                      /\ x[1] >= i => E[i].first <= LsnAt(E, x)
    BY DEF Named
  <2>1. x[1] \in 1 .. Len(E)
    <3> HIDE DEF E
    <3> QED BY <1>1, PlaceTypes
  <2>2. i + 1 \in DOMAIN D /\ E[i] = D[i + 1] /\ i \in Nat
    BY <1>1
  <2>3. /\ Shifted(x)[1] < i + 1 => LsnAt(D, Shifted(x)) < D[i + 1].first
        /\ Shifted(x)[1] >= i + 1 => D[i + 1].first <= LsnAt(D, Shifted(x))
    BY <1>2, <2>2 DEF Named
  <2>4. Shifted(x)[1] = x[1] + 1
    BY DEF Shifted
  <2> QED BY <2>1, <2>2, <2>3, <2>4, <1>2
<1>5. Ascending(E)
  <2> SUFFICES ASSUME NEW i \in DOMAIN E, NEW j \in DOMAIN E, i < j
               PROVE  E[i].first <= E[j].first
    BY DEF Ascending
  <2>1. /\ i + 1 \in DOMAIN D /\ j + 1 \in DOMAIN D /\ i + 1 < j + 1
        /\ E[i] = D[i + 1] /\ E[j] = D[j + 1]
    BY <1>1
  <2> QED BY <2>1 DEF Ascending
<1> QED
  BY <1>3, <1>4, <1>5

\* An entry of which nothing was in the first rotation is as it was.
LEMMA TailTiled ==
  ASSUME NEW D \in Seq(RotType), D # <<>>, NEW l, NEW e, NEW s, Tiled(D, l, e, s),
         \A x \in Mine(D, l) : x[1] > 1
  PROVE  Tiled(Tail(D), l, e, s)
<1> DEFINE E == Tail(D)
<1>1. \A x \in Mine(E, l) :
        /\ Shifted(x) \in Mine(D, l)
        /\ FromAt(E, x) = FromAt(D, Shifted(x)) /\ ToAt(E, x) = ToAt(D, Shifted(x))
        /\ KindAt(E, x) = KindAt(D, Shifted(x))
  BY TailPlaces DEF Mine, LsnAt, FromAt, ToAt, KindAt
<1>2. \A y \in Mine(D, l) : \E x \in Mine(E, l) : y = Shifted(x)
  <2> SUFFICES ASSUME NEW y \in Mine(D, l) PROVE \E x \in Mine(E, l) : y = Shifted(x)
    OBVIOUS
  <2>1. PICK x \in Places(E) : y = Shifted(x)
    BY TailPlaces DEF Mine
  <2>2. LsnAt(E, x) = l
    BY <2>1, TailPlaces DEF Mine, LsnAt
  <2> QED BY <2>1, <2>2 DEF Mine
<1>3. \A x, y \in Mine(E, l) : Before(x, y) <=> Before(Shifted(x), Shifted(y))
  BY TailPlaces DEF Mine
<1>4. Begins(E, l)
  <2>1. PICK y \in Mine(D, l) : FromAt(D, y) = 0
    BY DEF Tiled, Begins
  <2>2. PICK x \in Mine(E, l) : y = Shifted(x)
    BY <1>2
  <2> QED BY <2>1, <2>2, <1>1 DEF Begins
<1>5. Called(E, l, s)
  BY <1>1 DEF Tiled, Called
<1>6. GoesOn(E, l, e)
  <2> SUFFICES ASSUME NEW x \in Mine(E, l)
               PROVE  /\ ToAt(E, x) <= e
                      /\ ToAt(E, x) = e
                         \/ \E y \in Mine(E, l) : Before(x, y) /\ FromAt(E, y) = ToAt(E, x)
    BY DEF GoesOn
  <2>1. ToAt(E, x) <= e
    BY <1>1 DEF Tiled, GoesOn
  <2>2. CASE ToAt(D, Shifted(x)) = e
    BY <2>1, <2>2, <1>1
  <2>3. CASE ToAt(D, Shifted(x)) # e
    <3>1. PICK y \in Mine(D, l) : Before(Shifted(x), y) /\ FromAt(D, y) = ToAt(D, Shifted(x))
      BY <2>3, <1>1 DEF Tiled, GoesOn
    <3>2. PICK w \in Mine(E, l) : y = Shifted(w)
      BY <1>2
    <3>3. Before(x, w) /\ FromAt(E, w) = ToAt(E, x)
      BY <3>1, <3>2, <1>1, <1>3
    <3> QED BY <2>1, <3>3
  <2> QED BY <2>2, <2>3
<1>7. Apart(E, l, s)
  <2> SUFFICES ASSUME NEW x \in Mine(E, l), NEW y \in Mine(E, l), Before(x, y)
               PROVE  ToAt(E, x) # s /\ ToAt(E, x) <= FromAt(E, y)
    BY DEF Apart
  <2>1. Before(Shifted(x), Shifted(y))
    BY <1>3
  <2>2. ToAt(D, Shifted(x)) # s /\ ToAt(D, Shifted(x)) <= FromAt(D, Shifted(y))
    BY <2>1, <1>1 DEF Tiled, Apart
  <2> QED BY <2>2, <1>1
<1> QED
  BY <1>4, <1>5, <1>6, <1>7 DEF Tiled

-----------------------------------------------------------------------------
(* Lemmas: blocks behind those of the last rotation.                       *)

\* Rotations and blocks have their types.
LEMMA RotTypes ==
  ASSUME NEW D \in Seq(RotType), NEW i \in 1 .. Len(D)
  PROVE  /\ D[i] \in RotType /\ D[i].first \in Nat /\ D[i].synced \in Nat
         /\ D[i].blocks \in Seq(BlockType) /\ Len(D[i].blocks) \in Nat
         /\ \A j \in 1 .. Len(D[i].blocks) : /\ D[i].blocks[j] \in BlockType
                                             /\ D[i].blocks[j].parts \in Seq(PartType)
                                             /\ D[i].blocks[j].max \in 0 .. MaxLsn
                                             /\ D[i].blocks[j].wmin \in Nat
<1>1. D[i] \in RotType
  OBVIOUS
<1>2. D[i].blocks \in Seq(BlockType) /\ D[i].first \in Nat /\ D[i].synced \in Nat
  BY <1>1 DEF RotType
<1>3. ASSUME NEW j \in 1 .. Len(D[i].blocks)
      PROVE  /\ D[i].blocks[j] \in BlockType /\ D[i].blocks[j].parts \in Seq(PartType)
             /\ D[i].blocks[j].max \in 0 .. MaxLsn /\ D[i].blocks[j].wmin \in Nat
  <2>1. D[i].blocks[j] \in BlockType
    BY <1>2
  <2> QED BY <2>1 DEF BlockType
<1>4. Len(D[i].blocks) \in Nat
  BY <1>2
<1> QED
  BY <1>1, <1>2, <1>3, <1>4

LEMMA BlockTypes ==
  ASSUME NEW B \in Seq(BlockType), NEW j \in 1 .. Len(B)
  PROVE  /\ B[j] \in BlockType /\ B[j].parts \in Seq(PartType) /\ Len(B[j].parts) \in Nat
         /\ B[j].max \in 0 .. MaxLsn /\ B[j].wmin \in Nat /\ B[j].min \in Nat
<1>1. B[j] \in BlockType
  OBVIOUS
<1>2. B[j].parts \in Seq(PartType)
  BY <1>1 DEF BlockType
<1> QED
  BY <1>1, <1>2 DEF BlockType

LEMMA WithNone ==
  ASSUME NEW D \in Seq(RotType)
  PROVE  With(D, <<>>) = D
<1>1. CASE D = <<>>
  BY <1>1 DEF With
<1>2. CASE D # <<>>
  <2>1. Len(D) \in 1 .. Len(D)
    BY <1>2
  <2>2. D[Len(D)] \in RotType /\ D[Len(D)].blocks \in Seq(BlockType)
    BY <2>1, RotTypes
  <2>3. D[Len(D)].blocks \o <<>> = D[Len(D)].blocks
    BY <2>2
  <2>4. [D[Len(D)] EXCEPT !.blocks = @ \o <<>>] = D[Len(D)]
    BY <2>2, <2>3 DEF RotType
  <2>5. [D EXCEPT ![Len(D)] = D[Len(D)]] = D
    OBVIOUS
  <2>6. With(D, <<>>) = [D EXCEPT ![Len(D)] = [D[Len(D)] EXCEPT !.blocks = @ \o <<>>]]
    BY <1>2 DEF With
  <2> QED BY <2>4, <2>5, <2>6
<1> QED
  BY <1>1, <1>2

\* Only the blocks of the last rotation are changed.
LEMMA WithFacts ==
  ASSUME NEW D \in Seq(RotType), D # <<>>, NEW B \in Seq(BlockType)
  PROVE  /\ With(D, B) \in Seq(RotType) /\ Len(With(D, B)) = Len(D)
         /\ \A i \in 1 .. Len(D) : /\ With(D, B)[i].first = D[i].first
                                   /\ With(D, B)[i].synced = D[i].synced
                                   /\ i < Len(D) => With(D, B)[i] = D[i]
         /\ With(D, B)[Len(D)].blocks = D[Len(D)].blocks \o B
<1> DEFINE n == Len(D)
           R == [D[n] EXCEPT !.blocks = @ \o B]
<1>1. n \in 1 .. Len(D)
  OBVIOUS
<1>2. D[n] \in RotType /\ D[n].blocks \in Seq(BlockType)
  BY <1>1, RotTypes
<1>3. D[n].blocks \o B \in Seq(BlockType)
  BY <1>2
<1>4. /\ R \in RotType /\ R.blocks = D[n].blocks \o B
      /\ R.first = D[n].first /\ R.synced = D[n].synced
  BY <1>2, <1>3 DEF RotType
<1>5. With(D, B) = [D EXCEPT ![n] = R]
  BY DEF With
<1> HIDE DEF R
<1> QED
  BY <1>1, <1>4, <1>5

\* The blocks there, and those behind.
LEMMA WithBlocks ==
  ASSUME NEW D \in Seq(RotType), D # <<>>, NEW B \in Seq(BlockType)
  PROVE  LET A == D[Len(D)].blocks
             C == With(D, B)[Len(D)].blocks
         IN  /\ Len(C) = Len(A) + Len(B) /\ Len(A) \in Nat /\ Len(B) \in Nat
             /\ \A j \in 1 .. Len(A) : C[j] = A[j]
             /\ \A j \in 1 .. Len(B) : C[Len(A) + j] = B[j]
<1> DEFINE A == D[Len(D)].blocks
<1>1. A \in Seq(BlockType)
  BY RotTypes
<1>2. With(D, B)[Len(D)].blocks = A \o B
  BY WithFacts
<1> HIDE DEF A
<1>3. /\ Len(A \o B) = Len(A) + Len(B) /\ Len(A) \in Nat /\ Len(B) \in Nat
      /\ \A j \in 1 .. Len(A) : (A \o B)[j] = A[j]
      /\ \A j \in 1 .. Len(B) : (A \o B)[Len(A) + j] = B[j]
  BY <1>1
<1> QED
  BY <1>2, <1>3 DEF A

\* A place is one that was there, or one in the blocks behind.
InBlocks(D, B, x) ==
  \E j \in DOMAIN B : \E k \in DOMAIN B[j].parts : x = <<Len(D), Len(D[Len(D)].blocks) + j, k>>

LEMMA WithPlaces ==
  ASSUME NEW D \in Seq(RotType), D # <<>>, NEW B \in Seq(BlockType)
  PROVE  /\ \A x : x \in Places(With(D, B)) <=> x \in Places(D) \/ InBlocks(D, B, x)
         /\ \A x \in Places(D) : PartAt(With(D, B), x) = PartAt(D, x)
         /\ \A j \in DOMAIN B : \A k \in DOMAIN B[j].parts :
              PartAt(With(D, B), <<Len(D), Len(D[Len(D)].blocks) + j, k>>) = B[j].parts[k]
<1> DEFINE E == With(D, B)
           n == Len(D)
           m == Len(D[n].blocks)
<1>1. /\ E \in Seq(RotType) /\ Len(E) = n /\ n \in 1 .. Len(D) /\ n \in Nat
      /\ \A i \in 1 .. n : i < n => E[i] = D[i]
  BY WithFacts
<1>2. /\ Len(E[n].blocks) = m + Len(B) /\ m \in Nat /\ Len(B) \in Nat
      /\ \A j \in 1 .. m : E[n].blocks[j] = D[n].blocks[j]
      /\ \A j \in 1 .. Len(B) : E[n].blocks[m + j] = B[j]
  BY WithBlocks
<1>3. DOMAIN D = 1 .. n /\ DOMAIN E = 1 .. n /\ DOMAIN B = 1 .. Len(B)
  BY <1>1
<1>4. DOMAIN D[n].blocks = 1 .. m /\ DOMAIN E[n].blocks = 1 .. m + Len(B)
  <2>1. D[n].blocks \in Seq(BlockType) /\ E[n].blocks \in Seq(BlockType)
    BY <1>1, RotTypes
  <2> QED BY <2>1, <1>2
<1> HIDE DEF E, m
<1>5. ASSUME NEW x, x \in Places(D) PROVE x \in Places(E) /\ PartAt(E, x) = PartAt(D, x)
  <2>1. IsPlace(D, x)
    BY <1>5, PlaceIff
  <2>2. E[x[1]].blocks[x[2]] = D[x[1]].blocks[x[2]] /\ x[2] \in DOMAIN E[x[1]].blocks
    <3>1. x[1] \in 1 .. n /\ x[2] \in DOMAIN D[x[1]].blocks
      BY <2>1, <1>3 DEF IsPlace
    <3>2. CASE x[1] < n
      BY <3>1, <3>2, <1>1
    <3>3. CASE x[1] = n
      <4>1. x[2] \in 1 .. m /\ x[2] \in 1 .. m + Len(B)
        BY <3>1, <3>3, <1>2, <1>4
      <4> QED BY <4>1, <3>3, <1>2, <1>4
    <3> QED BY <3>1, <3>2, <3>3, <1>1
  <2>3. IsPlace(E, x)
    BY <2>1, <2>2, <1>3 DEF IsPlace
  <2> QED BY <2>2, <2>3, PlaceIff DEF PartAt
<1>6. ASSUME NEW j \in DOMAIN B, NEW k \in DOMAIN B[j].parts
      PROVE  <<n, m + j, k>> \in Places(E) /\ PartAt(E, <<n, m + j, k>>) = B[j].parts[k]
  <2>1. E[n].blocks[m + j] = B[j] /\ m + j \in DOMAIN E[n].blocks
    BY <1>2, <1>3, <1>4
  <2>2. IsPlace(E, <<n, m + j, k>>)
    BY <2>1, <1>1, <1>3 DEF IsPlace
  <2> QED BY <2>1, <2>2, PlaceIff DEF PartAt
<1>7. ASSUME NEW x, x \in Places(E), x \notin Places(D) PROVE InBlocks(D, B, x)
  <2>1. IsPlace(E, x) /\ ~IsPlace(D, x)
    BY <1>7, PlaceIff
  <2>2. x[1] = n
    BY <2>1, <1>1, <1>3 DEF IsPlace
  <2>3. x[2] \in Nat /\ x[2] > m /\ x[2] <= m + Len(B)
    <3>1. x[2] \in 1 .. m + Len(B) /\ n \in DOMAIN D
      BY <2>1, <2>2, <1>3, <1>4 DEF IsPlace
    <3>2. x[2] \notin 1 .. m
      <4>1. ASSUME x[2] \in 1 .. m PROVE E[n].blocks[x[2]] = D[n].blocks[x[2]]
        BY <4>1, <1>2
      <4> QED BY <4>1, <3>1, <2>1, <2>2, <1>4 DEF IsPlace
    <3> QED BY <3>1, <3>2, <1>2
  <2> DEFINE j == x[2] - m
  <2>4. j \in DOMAIN B /\ x[2] = m + j
    BY <2>3, <1>2, <1>3
  <2>5. E[n].blocks[x[2]] = B[j]
    BY <2>4, <1>2, <1>3
  <2>6. x[3] \in DOMAIN B[j].parts /\ x = <<n, m + j, x[3]>>
    BY <2>1, <2>2, <2>4, <2>5 DEF IsPlace
  <2> QED BY <2>4, <2>6 DEF InBlocks, m
<1>8. \A x : InBlocks(D, B, x) => x \in Places(E)
  BY <1>6 DEF InBlocks, m
<1> QED
  BY <1>5, <1>6, <1>7, <1>8 DEF E, m

\* Headers do not matter, and neither do empty blocks at the end.
SameBlocks(B, C) ==
  /\ Len(B) <= Len(C)
  /\ \A j \in DOMAIN C : C[j].parts = IF j <= Len(B) THEN B[j].parts ELSE <<>>

LEMMA SameBlocksWith ==
  ASSUME NEW D \in Seq(RotType), D # <<>>, NEW B \in Seq(BlockType), NEW C \in Seq(BlockType),
         SameBlocks(B, C)
  PROVE  SameParts(With(D, B), With(D, C)) /\ SameNames(With(D, B), With(D, C))
<1>1. SameNames(With(D, B), With(D, C))
  <2>1. /\ Len(With(D, B)) = Len(D) /\ Len(With(D, C)) = Len(D)
        /\ DOMAIN With(D, B) = 1 .. Len(D)
    BY WithFacts
  <2>2. \A i \in 1 .. Len(D) : With(D, C)[i].first = With(D, B)[i].first
    BY WithFacts
  <2> QED BY <2>1, <2>2 DEF SameNames
<1>2. DOMAIN B \subseteq DOMAIN C /\ \A j \in DOMAIN B : C[j].parts = B[j].parts
  BY DEF SameBlocks
<1>3. \A j \in DOMAIN C : \A k \in DOMAIN C[j].parts : j \in DOMAIN B
  BY DEF SameBlocks
<1>4. \A x : InBlocks(D, B, x) <=> InBlocks(D, C, x)
  BY <1>2, <1>3 DEF InBlocks
<1>5. Places(With(D, B)) = Places(With(D, C))
  <2>1. \A x : x \in Places(With(D, B)) <=> x \in Places(With(D, C))
    BY <1>4, WithPlaces
  <2> QED BY <2>1
<1>6. ASSUME NEW x \in Places(With(D, B))
      PROVE  PartAt(With(D, C), x) = PartAt(With(D, B), x)
  <2>1. CASE x \in Places(D)
    BY <2>1, WithPlaces
  <2>2. CASE InBlocks(D, B, x)
    <3>1. PICK j \in DOMAIN B : \E k \in DOMAIN B[j].parts :
                                  x = <<Len(D), Len(D[Len(D)].blocks) + j, k>>
      BY <2>2 DEF InBlocks
    <3>2. PICK k \in DOMAIN B[j].parts : x = <<Len(D), Len(D[Len(D)].blocks) + j, k>>
      BY <3>1
    <3>3. PartAt(With(D, B), x) = B[j].parts[k]
      BY <3>2, WithPlaces
    <3>4. PartAt(With(D, C), x) = C[j].parts[k]
      BY <3>2, <1>2, WithPlaces
    <3> QED BY <3>3, <3>4, <1>2
  <2> QED BY <2>1, <2>2, WithPlaces
<1> QED
  BY <1>1, <1>5, <1>6 DEF SameParts

\* C is B with one more part in the last block.
OneMore(B, C, p) ==
  /\ B # <<>> /\ Len(C) = Len(B)
  /\ \A j \in DOMAIN B : C[j].parts = IF j = Len(B) THEN Append(B[j].parts, p) ELSE B[j].parts

LEMMA OneMoreWith ==
  ASSUME NEW D \in Seq(RotType), D # <<>>, NEW B \in Seq(BlockType), NEW C \in Seq(BlockType),
         NEW p \in PartType, OneMore(B, C, p)
  PROVE  /\ SameNames(With(D, B), With(D, C))
         /\ \E z : /\ Added(With(D, B), With(D, C), z, p)
                   /\ z[2] = Len(D[Len(D)].blocks) + Len(B)
<1> DEFINE n == Len(D)
           m == Len(D[n].blocks)
           b == Len(B)
           q == Len(B[b].parts) + 1
           z == <<n, m + b, q>>
<1>1. SameNames(With(D, B), With(D, C))
  <2>1. /\ Len(With(D, B)) = Len(D) /\ Len(With(D, C)) = Len(D)
        /\ DOMAIN With(D, B) = 1 .. Len(D)
    BY WithFacts
  <2>2. \A i \in 1 .. Len(D) : With(D, C)[i].first = With(D, B)[i].first
    BY WithFacts
  <2> QED BY <2>1, <2>2 DEF SameNames
<1>2. /\ n \in Nat /\ m \in Nat /\ b \in 1 .. Len(B) /\ b \in Nat /\ n > 0
      /\ DOMAIN C = DOMAIN B /\ DOMAIN B = 1 .. b
  <2>1. n \in 1 .. Len(D)
    OBVIOUS
  <2>2. m \in Nat
    BY <2>1, RotTypes
  <2> QED BY <2>2 DEF OneMore
<1>3. \A j \in DOMAIN B : j # b => C[j].parts = B[j].parts
  BY <1>2 DEF OneMore
<1>4. /\ B[b].parts \in Seq(PartType) /\ q \in Nat /\ q >= 1
      /\ DOMAIN B[b].parts = 1 .. q - 1 /\ DOMAIN C[b].parts = 1 .. q
      /\ \A k \in DOMAIN B[b].parts : C[b].parts[k] = B[b].parts[k]
      /\ C[b].parts[q] = p
  <2>1. B[b].parts \in Seq(PartType)
    BY <1>2, BlockTypes
  <2>2. C[b].parts = Append(B[b].parts, p)
    BY <1>2 DEF OneMore
  <2> QED BY SMTT(60), <2>1, <2>2
<1> HIDE DEF m, b, q
<1>5. \A x : InBlocks(D, C, x) <=> InBlocks(D, B, x) \/ x = z
  <2>1. ASSUME NEW x, InBlocks(D, C, x) PROVE InBlocks(D, B, x) \/ x = z
    <3>1. PICK j \in DOMAIN C : \E k \in DOMAIN C[j].parts : x = <<n, m + j, k>>
      BY <2>1 DEF InBlocks, m
    <3>2. PICK k \in DOMAIN C[j].parts : x = <<n, m + j, k>>
      BY <3>1
    <3>3. CASE j # b
      BY <3>2, <3>3, <1>2, <1>3 DEF InBlocks, m
    <3>4. CASE j = b /\ k # q
      <4>1. k \in DOMAIN B[j].parts
        BY <3>4, <1>4
      <4> QED BY <4>1, <3>2, <1>2 DEF InBlocks, m
    <3>5. CASE j = b /\ k = q
      BY <3>5, <3>2
    <3> QED BY <3>3, <3>4, <3>5
  <2>2. ASSUME NEW x, InBlocks(D, B, x) PROVE InBlocks(D, C, x)
    <3>1. PICK j \in DOMAIN B : \E k \in DOMAIN B[j].parts : x = <<n, m + j, k>>
      BY <2>2 DEF InBlocks, m
    <3>2. PICK k \in DOMAIN B[j].parts : x = <<n, m + j, k>>
      BY <3>1
    <3>3. k \in DOMAIN C[j].parts
      <4>1. CASE j = b
        BY <4>1, <1>4
      <4>2. CASE j # b
        BY <4>2, <1>3
      <4> QED BY <4>1, <4>2
    <3> QED BY <3>2, <3>3, <1>2 DEF InBlocks, m
  <2>3. InBlocks(D, C, z)
    BY SMTT(60), <1>2, <1>4 DEF InBlocks, m
  <2> QED BY <2>1, <2>2, <2>3
<1>6. ASSUME NEW x \in Places(With(D, B))
      PROVE  PartAt(With(D, C), x) = PartAt(With(D, B), x) /\ Before(x, z)
  <2>1. CASE x \in Places(D)
    <3>1. x[1] \in 1 .. n /\ (x[1] = n => x[2] \in 1 .. m)
      BY <2>1, PlaceTypes DEF m
    <3>2. Before(x, z)
      BY <3>1, <1>2 DEF Before
    <3> QED BY <2>1, <3>2, WithPlaces
  <2>2. CASE InBlocks(D, B, x)
    <3>1. PICK j \in DOMAIN B : \E k \in DOMAIN B[j].parts : x = <<n, m + j, k>>
      BY <2>2 DEF InBlocks, m
    <3>2. PICK k \in DOMAIN B[j].parts : x = <<n, m + j, k>>
      BY <3>1
    <3>3. k \in DOMAIN C[j].parts /\ C[j].parts[k] = B[j].parts[k]
      <4>1. CASE j = b
        BY <4>1, <1>4
      <4>2. CASE j # b
        BY <4>2, <1>3
      <4> QED BY <4>1, <4>2
    <3>4. PartAt(With(D, B), x) = B[j].parts[k]
      BY <3>2, WithPlaces DEF m
    <3>5. PartAt(With(D, C), x) = C[j].parts[k]
      BY <3>2, <3>3, <1>2, WithPlaces DEF m
    <3>6. Before(x, z)
      BY <3>2, <1>2, <1>4 DEF Before
    <3> QED BY <3>3, <3>4, <3>5, <3>6
  <2> QED BY <2>1, <2>2, WithPlaces
<1>7. z \notin Places(With(D, B))
  <2>1. ~Before(z, z)
    BY <1>2, <1>4 DEF Before
  <2> QED BY <2>1, <1>6
<1>8. Places(With(D, C)) = Places(With(D, B)) \cup {z}
  <2>1. \A x : x \in Places(With(D, C)) <=> x \in Places(With(D, B)) \/ x = z
    BY <1>5, WithPlaces
  <2> QED BY <2>1
<1>9. PartAt(With(D, C), z) = p
  <2>1. PartAt(With(D, C), z) = C[b].parts[q]
    <3>1. b \in DOMAIN C /\ q \in DOMAIN C[b].parts
      BY <1>2, <1>4
    <3>2. PartAt(With(D, C), <<Len(D), Len(D[Len(D)].blocks) + b, q>>) = C[b].parts[q]
      BY <3>1, WithPlaces
    <3> QED BY <3>2 DEF m
  <2> QED BY <2>1, <1>4
<1>10. Len(With(D, B)) = n
  BY WithFacts
<1>11. Added(With(D, B), With(D, C), z, p) /\ z[2] = Len(D[Len(D)].blocks) + Len(B)
  BY <1>6, <1>7, <1>8, <1>9, <1>10 DEF Added, m, b
<1> QED
  BY <1>1, <1>11

\* Only the blocks matter.
LEMMA SameRotsPlaces ==
  ASSUME NEW D \in Seq(RotType), NEW E \in Seq(RotType), Len(E) = Len(D),
         \A i \in 1 .. Len(D) : E[i].blocks = D[i].blocks
  PROVE  SameParts(D, E)
<1>1. DOMAIN E = DOMAIN D /\ DOMAIN D = 1 .. Len(D)
  OBVIOUS
<1>2. \A x : IsPlace(D, x) <=> IsPlace(E, x)
  BY <1>1 DEF IsPlace
<1>3. Places(E) = Places(D)
  <2>1. \A x : x \in Places(D) <=> x \in Places(E)
    BY <1>2, PlaceIff
  <2> QED BY <2>1
<1>4. \A x \in Places(D) : PartAt(E, x) = PartAt(D, x)
  <2> SUFFICES ASSUME NEW x \in Places(D) PROVE PartAt(E, x) = PartAt(D, x)
    OBVIOUS
  <2>1. x[1] \in 1 .. Len(D)
    BY PlaceTypes
  <2> QED BY <2>1 DEF PartAt
<1> QED
  BY <1>3, <1>4 DEF SameParts

\* A new rotation is empty.
LEMMA NewRotPlaces ==
  ASSUME NEW D \in Seq(RotType), NEW f \in Nat
  PROVE  Append(D, NewRot(f)) \in Seq(RotType) /\ SameParts(D, Append(D, NewRot(f)))
<1> DEFINE r == NewRot(f)
           E == Append(D, r)
<1>1. r \in RotType /\ r.blocks = <<>>
  BY DEF NewRot, RotType
<1> HIDE DEF r
<1>2. /\ E \in Seq(RotType) /\ Len(E) = Len(D) + 1
      /\ \A i \in 1 .. Len(D) : E[i] = D[i]
      /\ E[Len(D) + 1] = r
      /\ DOMAIN D = 1 .. Len(D) /\ DOMAIN E = 1 .. Len(D) + 1 /\ Len(D) \in Nat
  BY <1>1
<1> HIDE DEF E
<1>3. \A x : IsPlace(D, x) => IsPlace(E, x)
  BY <1>2 DEF IsPlace
<1>4. ASSUME NEW x, IsPlace(E, x) PROVE IsPlace(D, x)
  <2>1. x[1] # Len(D) + 1
    BY <1>1, <1>2, <1>4 DEF IsPlace
  <2>2. x[1] \in 1 .. Len(D)
    BY <2>1, <1>2, <1>4 DEF IsPlace
  <2> QED BY <2>2, <1>2, <1>4 DEF IsPlace
<1>5. Places(E) = Places(D)
  <2>1. \A x : x \in Places(D) <=> x \in Places(E)
    BY <1>3, <1>4, PlaceIff
  <2> QED BY <2>1
<1>6. ASSUME NEW x \in Places(D) PROVE PartAt(E, x) = PartAt(D, x)
  <2>1. x[1] \in 1 .. Len(D)
    BY PlaceTypes
  <2> QED BY <2>1, <1>2 DEF PartAt
<1> QED
  BY <1>2, <1>5, <1>6 DEF SameParts, E, r

\* E is D with the last rotation cut behind n blocks.
CutBehind(D, E, n) ==
  /\ Len(E) = Len(D)
  /\ \A i \in 1 .. Len(D) : /\ E[i].first = D[i].first
                            /\ i < Len(D) => E[i] = D[i]
  /\ E[Len(D)].blocks = SubSeq(D[Len(D)].blocks, 1, n)

LEMMA CutPlaces ==
  ASSUME NEW D \in Seq(RotType), D # <<>>, NEW B \in Seq(BlockType), NEW E \in Seq(RotType),
         NEW n \in 0 .. Len(D[Len(D)].blocks), CutBehind(D, E, n)
  PROVE  /\ CutTo(With(D, B), E) /\ SameNames(With(D, B), E)
         /\ \A y \in Places(With(D, B)) : y \notin Places(E) => y[1] = Len(D) /\ y[2] > n
<1> DEFINE m == Len(D)
           F == With(D, B)
           A == D[m].blocks
<1>1. /\ m \in Nat /\ m \in 1 .. Len(D) /\ DOMAIN D = 1 .. m /\ DOMAIN E = 1 .. m
      /\ A \in Seq(BlockType) /\ Len(A) \in Nat
  <2>1. m \in 1 .. Len(D) /\ m \in Nat /\ DOMAIN D = 1 .. m
    OBVIOUS
  <2>2. DOMAIN E = 1 .. m
    BY DEF CutBehind
  <2> QED BY <2>1, <2>2, RotTypes
<1>2. /\ n \in Nat /\ n <= Len(A) /\ DOMAIN E[m].blocks = 1 .. n
      /\ \A j \in 1 .. n : E[m].blocks[j] = A[j]
  <2> HIDE DEF A
  <2>1. E[m].blocks = SubSeq(A, 1, n) /\ n \in 0 .. Len(A)
    BY DEF CutBehind, A
  <2> QED BY <2>1, <1>1
<1>3. \A i \in 1 .. m : i < m => E[i] = D[i]
  BY DEF CutBehind
<1>4. /\ F \in Seq(RotType) /\ Len(F) = m /\ DOMAIN F = 1 .. m
      /\ \A i \in 1 .. m : F[i].first = D[i].first
  BY WithFacts
<1>5. SameNames(F, E)
  BY <1>4 DEF SameNames, CutBehind
<1>6. \A x \in Places(D) : x \in Places(F) /\ PartAt(F, x) = PartAt(D, x)
  BY WithPlaces
<1>7. \A y \in Places(F) : y \in Places(D) \/ (y[1] = m /\ y[2] > Len(A) /\ y[2] \in Nat)
  <2> SUFFICES ASSUME NEW y \in Places(F), y \notin Places(D)
               PROVE  y[1] = m /\ y[2] > Len(A) /\ y[2] \in Nat
    OBVIOUS
  <2>1. InBlocks(D, B, y)
    BY WithPlaces
  <2>2. PICK j \in DOMAIN B : \E k \in DOMAIN B[j].parts : y = <<m, Len(A) + j, k>>
    BY <2>1 DEF InBlocks
  <2>3. j \in Nat /\ j > 0
    OBVIOUS
  <2> QED BY <2>2, <2>3, <1>1
<1> HIDE DEF F, A, m
<1>8. ASSUME NEW x \in Places(E)
      PROVE  x \in Places(D) /\ PartAt(E, x) = PartAt(D, x) /\ (x[1] = m => x[2] <= n)
  <2>1. IsPlace(E, x)
    BY PlaceIff
  <2>2. CASE x[1] # m
    <3>1. E[x[1]] = D[x[1]]
      BY <2>1, <2>2, <1>1, <1>3 DEF IsPlace
    <3>2. IsPlace(D, x)
      BY <3>1, <2>1, <1>1 DEF IsPlace
    <3> QED BY <3>1, <3>2, <2>2, PlaceIff DEF PartAt
  <2>3. CASE x[1] = m
    <3>1. x[2] \in 1 .. n /\ x[2] \in DOMAIN D[m].blocks
      BY <2>1, <2>3, <1>1, <1>2 DEF IsPlace, A
    <3>2. E[m].blocks[x[2]] = D[m].blocks[x[2]]
      BY <3>1, <1>2 DEF A
    <3>3. IsPlace(D, x)
      BY <3>1, <3>2, <2>1, <2>3, <1>1 DEF IsPlace
    <3> QED BY SMTT(60), <3>1, <3>2, <3>3, <2>3, PlaceIff DEF PartAt
  <2> QED BY <2>2, <2>3
<1>9. ASSUME NEW y \in Places(D), y[1] # m \/ y[2] <= n PROVE y \in Places(E)
  <2>1. IsPlace(D, y)
    BY PlaceIff
  <2>2. CASE y[1] # m
    <3>1. E[y[1]] = D[y[1]]
      BY <2>1, <2>2, <1>1, <1>3 DEF IsPlace
    <3>2. IsPlace(E, y)
      BY <3>1, <2>1, <1>1 DEF IsPlace
    <3> QED BY <3>2, PlaceIff
  <2>3. CASE y[1] = m
    <3>1. y[2] \in 1 .. n
      BY <2>1, <2>3, <1>1, <1>2, <1>9 DEF IsPlace, A
    <3>2. E[m].blocks[y[2]] = D[m].blocks[y[2]]
      BY <3>1, <1>2 DEF A
    <3>3. IsPlace(E, y)
      BY <3>1, <3>2, <2>1, <2>3, <1>1, <1>2 DEF IsPlace
    <3> QED BY <3>3, PlaceIff
  <2> QED BY <2>2, <2>3
<1>10. \A y \in Places(F) : y[1] \in 1 .. m /\ y[2] \in Nat
  <2>1. \A y \in Places(F) : y[1] \in 1 .. Len(F) /\ y[2] \in 1 .. Len(F[y[1]].blocks)
    BY <1>4, PlaceTypes
  <2> QED BY <2>1, <1>4
<1>11. \A y \in Places(F) : y \notin Places(E) => y[1] = m /\ y[2] > n
  BY <1>1, <1>2, <1>7, <1>9, <1>10
<1>12. \A x \in Places(E), y \in Places(F) : Before(y, x) => y \in Places(E)
  <2> SUFFICES ASSUME NEW x \in Places(E), NEW y \in Places(F), Before(y, x), y \notin Places(E)
               PROVE  FALSE
    OBVIOUS
  <2>1. y[1] = m /\ y[2] > n
    BY <1>11
  <2>2. x \in Places(F) /\ (x[1] = m => x[2] <= n)
    BY <1>6, <1>8
  <2>3. x[1] \in 1 .. m /\ x[2] \in Nat /\ y[1] \in 1 .. m /\ y[2] \in Nat
    BY <2>2, <1>10
  <2> QED BY <2>1, <2>2, <2>3, <1>1, <1>2 DEF Before
<1>13. CutTo(F, E)
  BY <1>6, <1>8, <1>12 DEF CutTo
<1> QED
  BY <1>5, <1>11, <1>13 DEF F, m

\* Sequences of the same length with the same elements are the same.
LEMMA SameElements ==
  ASSUME NEW S, NEW s \in Seq(S), NEW t \in Seq(S), Len(s) = Len(t),
         \A i \in 1 .. Len(s) : s[i] = t[i]
  PROVE  s = t
OBVIOUS

\* Removing the first rotation commutes with it.
LEMMA TailWith ==
  ASSUME NEW D \in Seq(RotType), Len(D) > 1, NEW B \in Seq(BlockType)
  PROVE  With(Tail(D), B) = Tail(With(D, B))
<1> DEFINE T == Tail(D) n == Len(D)
<1>1. /\ D # <<>> /\ n \in Nat /\ n > 1
      /\ T \in Seq(RotType) /\ T # <<>> /\ Len(T) = n - 1
      /\ \A i \in 1 .. n - 1 : T[i] = D[i + 1]
  <2>1. D # <<>> /\ n \in Nat /\ n > 1
    OBVIOUS
  <2>2. /\ T \in Seq(RotType) /\ Len(T) = n - 1
        /\ \A i \in 1 .. n - 1 : T[i] = D[i + 1]
    BY <2>1
  <2>3. T # <<>>
    <3> HIDE DEF T
    <3> QED BY <2>1, <2>2
  <2> QED BY <2>1, <2>2, <2>3
<1>2. With(D, B) = [D EXCEPT ![n] = [D[n] EXCEPT !.blocks = @ \o B]]
  BY <1>1 DEF With
<1>3. With(T, B) = [T EXCEPT ![n - 1] = [T[n - 1] EXCEPT !.blocks = @ \o B]]
  <2> HIDE DEF T
  <2> QED BY <1>1 DEF With
<1>4. With(D, B) \in Seq(RotType) /\ Len(With(D, B)) = n
  BY <1>1, WithFacts
<1>5. T \in Seq(RotType) /\ With(T, B) \in Seq(RotType) /\ Len(With(T, B)) = n - 1
  <2> HIDE DEF T
  <2> QED BY <1>1, WithFacts
<1> DEFINE r == [D[n] EXCEPT !.blocks = @ \o B]
<1>6. T[n - 1] = D[n]
  BY <1>1
<1>7. With(T, B) = [T EXCEPT ![n - 1] = r] /\ With(D, B) = [D EXCEPT ![n] = r]
  BY <1>2, <1>3, <1>6
<1> HIDE DEF r, T
<1>8. \A i \in 1 .. n - 1 : With(T, B)[i] = With(D, B)[i + 1]
  BY <1>1, <1>7
<1> DEFINE W == With(D, B) V == With(T, B)
<1> HIDE DEF W, V
<1>9. /\ W \in Seq(RotType) /\ Len(W) = n /\ V \in Seq(RotType) /\ Len(V) = n - 1
      /\ \A i \in 1 .. n - 1 : V[i] = W[i + 1]
  BY <1>4, <1>5, <1>8 DEF W, V
<1>10. V = Tail(W)
  <2>1. Tail(W) \in Seq(RotType) /\ Len(Tail(W)) = n - 1
    BY <1>1, <1>9
  <2>2. \A i \in 1 .. n - 1 : Tail(W)[i] = V[i]
    BY <1>1, <1>9
  <2> DEFINE X == Tail(W)
  <2>3. X \in Seq(RotType) /\ Len(X) = Len(V) /\ \A i \in 1 .. Len(X) : X[i] = V[i]
    BY <2>1, <2>2, <1>9
  <2> HIDE DEF X
  <2>4. X = V
    BY <2>3, <1>9, SameElements
  <2> QED BY <2>4 DEF X
<1> QED
  BY <1>10 DEF W, V, T

-----------------------------------------------------------------------------
(* The types are kept.                                                     *)

\* The constants.
LEMMA ConstantTypes ==
  /\ BlockUnits \in Nat /\ BlockUnits > 0 /\ BufBlocks \in Nat /\ RotBlocks \in Nat
  /\ RotBlocks > 0 /\ MaxLsn \in Nat /\ Sizes \subseteq Nat
BY WalAssumption

LEMMA HeadTail ==
  ASSUME NEW S, NEW s \in Seq(S), s # <<>>
  PROVE  /\ Head(s) \in S /\ Head(s) = s[1] /\ Tail(s) \in Seq(S) /\ Len(Tail(s)) = Len(s) - 1
         /\ \A i \in 1 .. Len(s) - 1 : Tail(s)[i] = s[i + 1]
OBVIOUS

LEMMA TailLeft ==
  ASSUME NEW S, NEW s \in Seq(S), Len(s) > 1
  PROVE  /\ Tail(s) \in Seq(S) /\ Tail(s) # <<>> /\ Len(Tail(s)) = Len(s) - 1
         /\ \A i \in 1 .. Len(s) - 1 : Tail(s)[i] = s[i + 1]
<1>1. s # <<>> /\ Len(s) \in Nat
  OBVIOUS
<1>2. Tail(s) \in Seq(S) /\ Len(Tail(s)) = Len(s) - 1
  BY <1>1, HeadTail
<1>3. Len(Tail(s)) # 0
  BY <1>1, <1>2
<1>4. Len(<<>>) = 0
  OBVIOUS
<1>5. Tail(s) # <<>>
  BY <1>3, <1>4
<1> QED
  BY <1>1, <1>2, <1>5, HeadTail

LEMMA LargerIs ==
  ASSUME NEW a \in Nat, NEW b \in Nat
  PROVE  Larger(a, b) \in {a, b} /\ Larger(a, b) >= a /\ Larger(a, b) >= b /\ Larger(a, b) \in Nat
BY DEF Larger

\* What is restored from the disk.
LEMMA RestoredCases ==
  ASSUME DiskTypes, Restored.ok
  PROVE  \/ /\ mani = <<>> \/ Last(mani).entries = <<>>
            /\ Restored.min = 0 /\ Restored.max = 0
         \/ /\ mani # <<>> /\ Last(mani).entries # <<>>
            /\ data # <<>> /\ Last(data).blocks # <<>>
            /\ Restored.max = Last(Last(data).blocks).max
            /\ Restored.min \in {1, Last(Last(mani).entries), Last(Last(data).blocks).wmin}
<1>1. CASE mani = <<>>
  BY <1>1 DEF Restored
<1>2. CASE mani # <<>> /\ data = <<>>
  BY <1>2 DEF Restored
<1>3. CASE mani # <<>> /\ data # <<>>
  BY <1>3 DEF Restored, Larger
<1> QED
  BY <1>1, <1>2, <1>3

\* The last rotation, the last manifest.
LEMMA LastTypes ==
  ASSUME DiskTypes
  PROVE  /\ data # <<>> => /\ Len(data) \in 1 .. Len(data) /\ Last(data) = data[Len(data)]
                           /\ Last(data) \in RotType /\ Last(data).blocks \in Seq(BlockType)
                           /\ Last(data).first \in Nat /\ Last(data).synced \in Nat
                           /\ Last(data).synced <= Len(Last(data).blocks)
                           /\ Len(Last(data).blocks) \in Nat
         /\ mani # <<>> => /\ Len(mani) \in 1 .. Len(mani) /\ Last(mani) = mani[Len(mani)]
                           /\ Last(mani) \in ManiType /\ Last(mani).entries \in Seq(Nat)
                           /\ Last(mani).synced \in Nat
                           /\ Last(mani).synced <= Len(Last(mani).entries)
                           /\ Len(Last(mani).entries) \in Nat
<1>1. ASSUME data # <<>>
      PROVE  /\ Len(data) \in 1 .. Len(data) /\ Last(data) = data[Len(data)]
             /\ Last(data) \in RotType /\ Last(data).blocks \in Seq(BlockType)
             /\ Last(data).first \in Nat /\ Last(data).synced \in Nat
             /\ Last(data).synced <= Len(Last(data).blocks)
             /\ Len(Last(data).blocks) \in Nat
  <2>1. Len(data) \in 1 .. Len(data) /\ Len(data) \in DOMAIN data /\ Last(data) = data[Len(data)]
    BY <1>1 DEF DiskTypes, Last
  <2> QED BY <2>1, RotTypes DEF DiskTypes
<1>2. ASSUME mani # <<>>
      PROVE  /\ Len(mani) \in 1 .. Len(mani) /\ Last(mani) = mani[Len(mani)]
             /\ Last(mani) \in ManiType /\ Last(mani).entries \in Seq(Nat)
             /\ Last(mani).synced \in Nat
             /\ Last(mani).synced <= Len(Last(mani).entries)
             /\ Len(Last(mani).entries) \in Nat
  <2>1. Len(mani) \in 1 .. Len(mani) /\ Len(mani) \in DOMAIN mani /\ Last(mani) = mani[Len(mani)]
    BY <1>2 DEF DiskTypes, Last
  <2>2. Last(mani) \in ManiType
    BY <2>1 DEF DiskTypes
  <2>3. Last(mani).entries \in Seq(Nat) /\ Last(mani).synced \in Nat
    BY <2>2 DEF ManiType
  <2> QED BY <2>1, <2>2, <2>3 DEF DiskTypes
<1> QED
  BY <1>1, <1>2

LEMMA RestoredTypes ==
  ASSUME DiskTypes, Restored.ok
  PROVE  Restored.min \in Nat /\ Restored.max \in 0 .. MaxLsn
<1>1. CASE Restored.min = 0 /\ Restored.max = 0
  BY <1>1, ConstantTypes
<1>2. CASE /\ mani # <<>> /\ Last(mani).entries # <<>>
           /\ data # <<>> /\ Last(data).blocks # <<>>
           /\ Restored.max = Last(Last(data).blocks).max
           /\ Restored.min \in {1, Last(Last(mani).entries), Last(Last(data).blocks).wmin}
  <2> DEFINE B == Last(data).blocks e == Last(mani).entries
  <2>1. B \in Seq(BlockType) /\ B # <<>> /\ e \in Seq(Nat) /\ e # <<>>
    BY <1>2, LastTypes
  <2> HIDE DEF B, e
  <2>2. Len(B) \in 1 .. Len(B) /\ Last(B) = B[Len(B)] /\ Last(e) \in Nat
    BY <2>1 DEF Last
  <2>3. Last(B).max \in 0 .. MaxLsn /\ Last(B).wmin \in Nat
    BY <2>1, <2>2, BlockTypes
  <2> QED BY <2>2, <2>3, <1>2 DEF B, e
<1> QED
  BY <1>1, <1>2, RestoredCases

\* A rotation with other blocks, or with more of it synced.
Changed(D, B, n) == [D EXCEPT ![Len(D)].blocks = B, ![Len(D)].synced = n]

LEMMA LastChanged ==
  ASSUME NEW D \in Seq(RotType), D # <<>>, NEW B \in Seq(BlockType), NEW n \in Nat
  PROVE  /\ Changed(D, B, n) \in Seq(RotType) /\ Len(Changed(D, B, n)) = Len(D)
         /\ \A i \in 1 .. Len(D) : /\ Changed(D, B, n)[i].first = D[i].first
                                   /\ i < Len(D) => Changed(D, B, n)[i] = D[i]
         /\ Changed(D, B, n)[Len(D)].blocks = B /\ Changed(D, B, n)[Len(D)].synced = n
<1> DEFINE m == Len(D)
           R == [D[m] EXCEPT !.blocks = B, !.synced = n]
<1>1. m \in 1 .. Len(D) /\ D[m] \in RotType
  OBVIOUS
<1>2. R \in RotType /\ R.blocks = B /\ R.first = D[m].first /\ R.synced = n
  BY <1>1 DEF RotType
<1>3. Changed(D, B, n) = [D EXCEPT ![m] = R]
  BY DEF Changed
<1> HIDE DEF R
<1> QED
  BY <1>1, <1>2, <1>3

SyncedTo(D, n) == [D EXCEPT ![Len(D)].synced = n]

LEMMA LastSynced ==
  ASSUME NEW D \in Seq(RotType), D # <<>>, NEW n \in Nat
  PROVE  /\ SyncedTo(D, n) \in Seq(RotType) /\ Len(SyncedTo(D, n)) = Len(D)
         /\ \A i \in 1 .. Len(D) : /\ SyncedTo(D, n)[i].first = D[i].first
                                   /\ SyncedTo(D, n)[i].blocks = D[i].blocks
                                   /\ i < Len(D) => SyncedTo(D, n)[i] = D[i]
         /\ SyncedTo(D, n)[Len(D)].synced = n
<1> DEFINE m == Len(D)
           R == [D[m] EXCEPT !.synced = n]
<1>1. m \in 1 .. Len(D) /\ D[m] \in RotType
  OBVIOUS
<1>2. R \in RotType /\ R.blocks = D[m].blocks /\ R.first = D[m].first /\ R.synced = n
  BY <1>1 DEF RotType
<1>3. SyncedTo(D, n) = [D EXCEPT ![m] = R]
  BY DEF SyncedTo
<1> HIDE DEF R
<1> QED
  BY <1>1, <1>2, <1>3

ManiTo(M, e, n) == [M EXCEPT ![Len(M)].entries = e, ![Len(M)].synced = n]

LEMMA ManiChanged ==
  ASSUME NEW M \in Seq(ManiType), M # <<>>, NEW e \in Seq(Nat), NEW n \in Nat
  PROVE  /\ ManiTo(M, e, n) \in Seq(ManiType) /\ Len(ManiTo(M, e, n)) = Len(M)
         /\ \A i \in 1 .. Len(M) : i < Len(M) => ManiTo(M, e, n)[i] = M[i]
         /\ ManiTo(M, e, n)[Len(M)].entries = e /\ ManiTo(M, e, n)[Len(M)].synced = n
<1> DEFINE m == Len(M)
           R == [M[m] EXCEPT !.entries = e, !.synced = n]
<1>1. m \in 1 .. Len(M) /\ M[m] \in ManiType
  OBVIOUS
<1>2. R \in ManiType /\ R.entries = e /\ R.synced = n
  BY <1>1 DEF ManiType
<1>3. ManiTo(M, e, n) = [M EXCEPT ![m] = R]
  BY DEF ManiTo
<1> HIDE DEF R
<1> QED
  BY <1>1, <1>2, <1>3

\* A crash cuts off some of what is not synced.
LEMMA HaltData ==
  ASSUME DiskTypes, Halt, data # <<>>
  PROVE  \E n \in 0 .. Len(Last(data).blocks) :
           /\ data' \in Seq(RotType) /\ CutBehind(data, data', n)
           /\ data'[Len(data)].synced = n /\ Last(data).synced <= n
<1> DEFINE m == Len(data)
<1>1. PICK n \in Last(data).synced .. Len(Last(data).blocks) :
        data' = [data EXCEPT ![m].blocks = SubSeq(@, 1, n), ![m].synced = n]
  BY DEF Halt
<1>2. /\ Last(data) = data[m] /\ data[m].blocks \in Seq(BlockType) /\ Last(data).synced \in Nat
      /\ Len(data[m].blocks) \in Nat
  BY LastTypes
<1>3. n \in 0 .. Len(data[m].blocks) /\ Last(data).synced <= n /\ n \in Nat
  BY <1>1, <1>2
<1> DEFINE A == data[m].blocks
<1>4. SubSeq(A, 1, n) \in Seq(BlockType)
  <2> HIDE DEF A
  <2> QED BY <1>2, <1>3 DEF A
<1>5. data' = Changed(data, SubSeq(A, 1, n), n)
  BY <1>1 DEF Changed
<1> HIDE DEF A
<1>6. /\ data' \in Seq(RotType) /\ Len(data') = m
      /\ \A i \in 1 .. m : /\ data'[i].first = data[i].first
                           /\ i < m => data'[i] = data[i]
      /\ data'[m].blocks = SubSeq(A, 1, n) /\ data'[m].synced = n
  BY ZenonT(60), SMTT(60), <1>3, <1>4, <1>5, LastChanged DEF DiskTypes
<1>7. CutBehind(data, data', n)
  BY <1>6 DEF CutBehind, A
<1> QED
  BY <1>2, <1>3, <1>6, <1>7

LEMMA HaltMani ==
  ASSUME DiskTypes, Halt, mani # <<>>
  PROVE  \E n \in 0 .. Len(Last(mani).entries) :
           /\ mani' \in Seq(ManiType) /\ Len(mani') = Len(mani)
           /\ \A i \in 1 .. Len(mani) : i < Len(mani) => mani'[i] = mani[i]
           /\ mani'[Len(mani)].entries = SubSeq(Last(mani).entries, 1, n)
           /\ mani'[Len(mani)].synced = n /\ Last(mani).synced <= n
<1> DEFINE m == Len(mani)
           e == mani[m].entries
<1>1. PICK n \in Last(mani).synced .. Len(Last(mani).entries) :
        mani' = [mani EXCEPT ![m].entries = SubSeq(@, 1, n), ![m].synced = n]
  BY DEF Halt
<1>2. Last(mani) = mani[m] /\ e \in Seq(Nat) /\ Last(mani).synced \in Nat /\ Len(e) \in Nat
  BY LastTypes
<1>3. n \in 0 .. Len(e) /\ Last(mani).synced <= n /\ n \in Nat
  BY <1>1, <1>2
<1>4. SubSeq(e, 1, n) \in Seq(Nat)
  <2> HIDE DEF e
  <2> QED BY <1>2, <1>3
<1>5. mani' = ManiTo(mani, SubSeq(e, 1, n), n)
  BY <1>1 DEF ManiTo
<1> DEFINE f == SubSeq(e, 1, n)
<1> HIDE DEF e, f
<1>6. /\ mani' \in Seq(ManiType) /\ Len(mani') = m
      /\ \A i \in 1 .. m : i < m => mani'[i] = mani[i]
      /\ mani'[m].entries = f /\ mani'[m].synced = n
  <2>1. f \in Seq(Nat) /\ mani' = ManiTo(mani, f, n) /\ mani \in Seq(ManiType)
    BY <1>4, <1>5 DEF f, DiskTypes
  <2> QED BY <2>1, <1>3, ManiChanged
<1> QED
  BY <1>2, <1>3, <1>6 DEF e, f

\* What is written comes behind the blocks of the last rotation.
LEMMA WriteData ==
  ASSUME Write, data # <<>>
  PROVE  data' = With(data, buf)
BY DEF Write, With

\* sync_all.
LEMMA SyncFacts ==
  ASSUME DiskTypes, SyncData, data # <<>>
  PROVE  /\ data' \in Seq(RotType) /\ Len(data') = Len(data)
         /\ \A i \in 1 .. Len(data) : /\ data'[i].first = data[i].first
                                      /\ data'[i].blocks = data[i].blocks
                                      /\ i < Len(data) => data'[i] = data[i]
         /\ data'[Len(data)].synced = Len(data[Len(data)].blocks)
<1>1. Len(Last(data).blocks) \in Nat /\ Last(data) = data[Len(data)]
  BY LastTypes
<1>2. data' = SyncedTo(data, Len(data[Len(data)].blocks))
  BY <1>1 DEF SyncData, SyncedTo
<1> DEFINE n == Len(data[Len(data)].blocks)
<1>3. data' = SyncedTo(data, n) /\ n \in Nat /\ data \in Seq(RotType)
  BY <1>1, <1>2 DEF DiskTypes
<1>4. data'[Len(data)].synced = n
  <2> HIDE DEF n
  <2> QED BY <1>3, LastSynced
<1> HIDE DEF n
<1> QED
  BY <1>3, <1>4, LastSynced DEF n

\* An entry goes to the manifest, and is synced.
LEMMA ManiFacts ==
  ASSUME DiskTypes, Mani, mani # <<>>, min \in Nat
  PROVE  /\ mani' \in Seq(ManiType) /\ Len(mani') = Len(mani)
         /\ \A i \in 1 .. Len(mani) : i < Len(mani) => mani'[i] = mani[i]
         /\ mani'[Len(mani)].entries = Append(mani[Len(mani)].entries, min)
         /\ mani'[Len(mani)].synced = mani[Len(mani)].synced
<1> DEFINE m == Len(mani)
           R == [mani[m] EXCEPT !.entries = Append(@, min)]
<1>1. m \in 1 .. Len(mani) /\ mani[m] \in ManiType /\ mani[m].entries \in Seq(Nat)
  BY LastTypes
<1>2. R \in ManiType /\ R.entries = Append(mani[m].entries, min) /\ R.synced = mani[m].synced
  <2>1. Append(mani[m].entries, min) \in Seq(Nat)
    BY <1>1
  <2> QED BY <1>1, <2>1 DEF ManiType
<1>3. mani' = [mani EXCEPT ![m] = R]
  BY DEF Mani
<1> HIDE DEF R
<1> QED
  BY <1>1, <1>2, <1>3 DEF DiskTypes

LEMMA ManiSyncFacts ==
  ASSUME DiskTypes, ManiSync, mani # <<>>
  PROVE  /\ mani' \in Seq(ManiType) /\ Len(mani') = Len(mani)
         /\ \A i \in 1 .. Len(mani) : /\ mani'[i].entries = mani[i].entries
                                      /\ i < Len(mani) => mani'[i] = mani[i]
         /\ mani'[Len(mani)].synced = Len(mani[Len(mani)].entries)
<1> DEFINE m == Len(mani)
           n == Len(mani[m].entries)
           R == [mani[m] EXCEPT !.synced = n]
<1>1. m \in 1 .. Len(mani) /\ mani[m] \in ManiType /\ n \in Nat /\ Last(mani) = mani[m]
  BY LastTypes
<1>2. R \in ManiType /\ R.entries = mani[m].entries /\ R.synced = n
  BY <1>1 DEF ManiType
<1>3. mani' = [mani EXCEPT ![m] = R]
  BY <1>1 DEF ManiSync
<1> HIDE DEF R
<1> QED
  BY <1>1, <1>2, <1>3 DEF DiskTypes

\* fix_block_headers changes the header of the last block.
LEMMA FixedFacts ==
  ASSUME NEW B \in Seq(BlockType), NEW f \in 0 .. MaxLsn, min_lsn \in Nat
  PROVE  /\ Fixed(B, f) \in Seq(BlockType) /\ Len(Fixed(B, f)) = Len(B)
         /\ \A j \in 1 .. Len(B) : /\ Fixed(B, f)[j].parts = B[j].parts
                                   /\ j < Len(B) => Fixed(B, f)[j] = B[j]
                                   /\ j = Len(B) => /\ Fixed(B, f)[j].max = f
                                                    /\ Fixed(B, f)[j].wmin = min_lsn
<1>1. CASE B = <<>>
  BY <1>1 DEF Fixed
<1>2. CASE B # <<>>
  <2> DEFINE m == Len(B)
             R == [B[m] EXCEPT !.max = f, !.wmin = min_lsn]
  <2>1. m \in 1 .. Len(B) /\ B[m] \in BlockType
    BY <1>2
  <2>2. R \in BlockType /\ R.parts = B[m].parts /\ R.max = f /\ R.wmin = min_lsn
    BY <2>1 DEF BlockType
  <2>3. Fixed(B, f) = [B EXCEPT ![m] = R]
    BY <1>2 DEF Fixed
  <2> HIDE DEF R
  <2> QED BY <2>1, <2>2, <2>3
<1> QED
  BY <1>1, <1>2

\* The part that is packed.
NextPart(kind) ==
  [lsn |-> cur.lsn, kind |-> kind, from |-> size[cur.lsn] - cur.left,
   units |-> IF kind \in {"Full", "Last"} THEN cur.left ELSE Room - 1]

LEMMA WithPartFacts ==
  ASSUME FlusherTypes, buf # <<>>, NEW kind, NextPart(kind) \in PartType
  PROVE  /\ WithPart(kind) \in Seq(BlockType) /\ Len(WithPart(kind)) = Len(buf)
         /\ OneMore(buf, WithPart(kind), NextPart(kind))
         /\ \A j \in 1 .. Len(buf) : /\ j < Len(buf) => WithPart(kind)[j] = buf[j]
                                     /\ WithPart(kind)[j].wmin = buf[j].wmin
<1> DEFINE m == Len(buf)
           p == NextPart(kind)
           R == [buf[m] EXCEPT !.parts = Append(@, p)]
<1>1. m \in 1 .. Len(buf) /\ buf[m] \in BlockType /\ buf \in Seq(BlockType)
  BY DEF FlusherTypes
<1>2. WithPart(kind) = [buf EXCEPT ![m] = R]
  BY DEF WithPart, NextPart
<1> HIDE DEF p
<1>3. buf[m].parts \in Seq(PartType) /\ p \in PartType
  BY <1>1 DEF BlockType, p
<1>4. Append(buf[m].parts, p) \in Seq(PartType)
  BY <1>3
<1>5. R \in BlockType /\ R.parts = Append(buf[m].parts, p) /\ R.wmin = buf[m].wmin
  BY <1>1, <1>4 DEF BlockType
<1> HIDE DEF R
<1>6. /\ WithPart(kind) \in Seq(BlockType) /\ Len(WithPart(kind)) = m
      /\ \A j \in 1 .. m : WithPart(kind)[j] = IF j = m THEN R ELSE buf[j]
  BY <1>1, <1>2, <1>5
<1>7. OneMore(buf, WithPart(kind), p)
  <2>1. DOMAIN buf = 1 .. m
    BY <1>1
  <2>2. \A j \in 1 .. m : WithPart(kind)[j].parts =
                             IF j = m THEN Append(buf[j].parts, p) ELSE buf[j].parts
    BY <1>5, <1>6
  <2> QED BY <2>1, <2>2, <1>6 DEF OneMore
<1> QED
  BY <1>5, <1>6, <1>7 DEF p

\* The end of a turn of the loop that packs entries.
LEMMA FlushIfDueFacts ==
  ASSUME NEW B \in Seq(BlockType), NEW u, NEW f \in 0 .. MaxLsn, NEW split, min_lsn \in Nat,
         FlushIfDue(B, u, f, split)
  PROVE  /\ buf' \in Seq(BlockType) /\ Len(buf') = Len(B)
         /\ \A j \in 1 .. Len(B) : /\ buf'[j].parts = B[j].parts
                                   /\ j < Len(B) => buf'[j] = B[j]
                                   /\ buf'[j].wmin \in {B[j].wmin, min_lsn}
         /\ used' = u /\ last_filled_lsn' = f /\ data' = data /\ mani' = mani
         /\ UNCHANGED <<shared, min, next_no_use_lsn, history>>
         /\ \/ /\ pc' = "flush" /\ then' = <<"pop">> \o then /\ rotatable' = ~split
               /\ \A j \in 1 .. Len(B) : j = Len(B) => buf'[j].max = f
               /\ u = BlockUnits /\ last_min_lsn' = min_lsn
            \/ /\ pc' = pc /\ then' = then /\ rotatable' = rotatable /\ buf' = B
               /\ last_min_lsn' = last_min_lsn
<1>1. CASE /\ buf' = Fixed(B, f) /\ last_min_lsn' = min_lsn
           /\ rotatable' = ~split /\ Call("flush", <<"pop">>) /\ u = BlockUnits
  <2>1. /\ Fixed(B, f) \in Seq(BlockType) /\ Len(Fixed(B, f)) = Len(B)
        /\ \A j \in 1 .. Len(B) : /\ Fixed(B, f)[j].parts = B[j].parts
                                  /\ j < Len(B) => Fixed(B, f)[j] = B[j]
                                  /\ j = Len(B) => /\ Fixed(B, f)[j].max = f
                                                   /\ Fixed(B, f)[j].wmin = min_lsn
    BY FixedFacts
  <2>2. \A j \in 1 .. Len(B) : Fixed(B, f)[j].wmin \in {B[j].wmin, min_lsn}
    BY <2>1
  <2> QED BY <1>1, <2>1, <2>2 DEF FlushIfDue, Call, disk
<1>2. CASE buf' = B /\ UNCHANGED <<pc, then, last_min_lsn, rotatable>>
  BY <1>2 DEF FlushIfDue, disk
<1> QED
  BY <1>1, <1>2 DEF FlushIfDue

\* Of these, where the thread goes on and what it works with.
LEMMA FlushIfDueMoves ==
  ASSUME NEW B \in Seq(BlockType), NEW u, NEW f \in 0 .. MaxLsn, NEW split, min_lsn \in Nat,
         FlushIfDue(B, u, f, split)
  PROVE  /\ buf' \in Seq(BlockType) /\ Len(buf') = Len(B)
         /\ used' = u /\ last_filled_lsn' = f /\ data' = data /\ mani' = mani
         /\ UNCHANGED <<shared, min, next_no_use_lsn, history>>
         /\ last_min_lsn' \in {last_min_lsn, min_lsn} /\ rotatable' \in {~split, rotatable}
         /\ \/ pc' = "flush" /\ then' = <<"pop">> \o then /\ rotatable' = ~split
            \/ pc' = pc /\ then' = then
BY FlushIfDueFacts

LEMMA NoWriterTypes ==
  ASSUME NoWriter
  PROVE  CallerTypes' /\ FlusherTypes'
<1>1. /\ 0 \in 0 .. MaxLsn /\ 0 \in 0 .. MaxLsn + 1 /\ 0 \in 0 .. BlockUnits
      /\ NoEntry \in [lsn : 0 .. MaxLsn, left : Nat, split : BOOLEAN]
  BY ConstantTypes DEF NoEntry
<1>2. /\ <<>> \in Seq(1 .. MaxLsn) /\ <<>> \in Seq(BlockType)
      /\ [a \in Advancers |-> 0] \in [Advancers -> Nat]
  OBVIOUS
<1>3. CallerTypes'
  BY <1>1, <1>2 DEF NoWriter, CallerTypes
<1>4. FlusherTypes'
  BY <1>1, <1>2 DEF NoWriter, FlusherTypes, Labels
<1> QED
  BY <1>3, <1>4

\* Where the flushing thread returns to.
LEMMA ReturnsTo ==
  ASSUME Control, pc \in Labels
  PROVE  /\ pc \in {"flush", "write", "sync", "rot_sync", "rot_new", "flushed"} => then \in Packers
         /\ pc = "remove" => then \in {<<"top">>, <<"mani", "top">>, <<"flushed", "pop">>,
                                       <<"flushed", "lsn">>}
         /\ pc \in {"mani", "mani_sync", "mani_rot"} =>
              then \in {<<"top">>, <<"remove", "top">>, <<"remove", "mani", "top">>,
                        <<"write", "pop">>, <<"write", "lsn">>}
         /\ pc \in {"closed", "open_data", "start", "top", "pop", "quiet", "lsn"} => then = <<>>
BY DEF Control, Returns, Labels

LEMMA ReturnTypes ==
  ASSUME Control, pc \in {"remove", "flushed", "mani_sync", "mani_rot"}, Return
  PROVE  pc' \in Labels
<1>1. then \in {<<"top">>, <<"mani", "top">>, <<"flushed", "pop">>, <<"flushed", "lsn">>,
                <<"remove", "top">>, <<"remove", "mani", "top">>, <<"write", "pop">>,
                <<"write", "lsn">>, <<"pop">>, <<"lsn">>}
  BY ReturnsTo DEF Labels, Packers
<1>2. Head(then) \in {"top", "mani", "flushed", "remove", "write", "pop", "lsn"}
  BY <1>1
<1> QED
  BY <1>2 DEF Return, Labels

\* The part that is packed has its type.
LEMMA NextPartType ==
  ASSUME TypeInv, Numbers, pc = "pop", cur # NoEntry,
         NEW kind \in {"Full", "First", "Middle", "Last"},
         kind \in {"First", "Middle"} => 1 < Room
  PROVE  /\ NextPart(kind) \in PartType /\ cur.lsn \in 1 .. MaxLsn
         /\ cur.left \in Nat /\ size[cur.lsn] \in Nat /\ cur.left <= size[cur.lsn]
         /\ Room \in Nat
<1>1. cur.lsn \in 1 .. MaxLsn /\ cur.left \in Nat /\ cur.split \in BOOLEAN
  BY ConstantTypes DEF TypeInv, FlusherTypes, Numbers
<1>2. size[cur.lsn] \in Nat
  BY <1>1, ConstantTypes DEF TypeInv, HistoryTypes, Lsns
<1>3. cur.left <= size[cur.lsn]
  BY <1>1, <1>2 DEF Numbers
<1>4. Room \in Nat
  BY ConstantTypes DEF Room, TypeInv, FlusherTypes
<1>5. size[cur.lsn] - cur.left \in Nat
  BY <1>1, <1>2, <1>3
<1>6. (IF kind \in {"Full", "Last"} THEN cur.left ELSE Room - 1) \in Nat
  BY <1>1, <1>4
<1> QED
  BY <1>1, <1>2, <1>3, <1>4, <1>5, <1>6 DEF NextPart, PartType

\* The callers, and the disk after a crash.
LEMMA TypeCallers ==
  ASSUME TypeInv, Control, Numbers,
         \/ Open \/ Stop \/ Halt
         \/ \E s \in Sizes : AppendEntry(s)
         \/ \E a \in Advancers : AdvStore(a) \/ \E l \in 1 .. MaxLsn : AdvLoad(a, l)
  PROVE  TypeInv'
<1>1. CASE Open
  <2>1. Restored.min \in Nat /\ Restored.max \in 0 .. MaxLsn
    BY <1>1, RestoredTypes DEF TypeInv, Open
  <2>2. DiskTypes'
    <3>1. NewMani \in ManiType /\ NewMani.synced <= Len(NewMani.entries)
      BY DEF NewMani, ManiType
    <3>2. <<NewMani>> \in Seq(ManiType) /\ DOMAIN <<NewMani>> = {1} /\ <<NewMani>>[1] = NewMani
      BY <3>1
    <3> QED BY <3>1, <3>2, <1>1 DEF Open, TypeInv, DiskTypes
  <2>3. CallerTypes'
    BY <1>1, <2>1, ConstantTypes DEF Open, TypeInv, CallerTypes
  <2>4. FlusherTypes'
    BY <1>1 DEF Open, TypeInv, FlusherTypes, Goto, packing, lsns, Labels
  <2>5. HistoryTypes'
    BY <1>1 DEF Open, TypeInv, HistoryTypes
  <2> QED BY <2>2, <2>3, <2>4, <2>5 DEF TypeInv
<1>2. CASE Stop
  BY <1>2 DEF Stop, TypeInv, DiskTypes, CallerTypes, FlusherTypes, HistoryTypes,
              disk, packing, lsns, history
<1>3. CASE Halt
  <2>1. CallerTypes' /\ FlusherTypes'
    BY <1>3, NoWriterTypes DEF Halt
  <2>2. HistoryTypes'
    BY <1>3 DEF Halt, history, TypeInv, HistoryTypes
  <2>3. data' \in Seq(RotType) /\ \A i \in DOMAIN data' : data'[i].synced <= Len(data'[i].blocks)
    <3>1. CASE data = <<>>
      BY <3>1, <1>3 DEF Halt
    <3>2. CASE data # <<>>
      <4>1. PICK n \in 0 .. Len(Last(data).blocks) :
              /\ data' \in Seq(RotType) /\ CutBehind(data, data', n)
              /\ data'[Len(data)].synced = n
        BY <1>3, <3>2, HaltData DEF TypeInv
      <4>2. data[Len(data)].blocks \in Seq(BlockType) /\ Last(data) = data[Len(data)]
        BY <3>2, LastTypes DEF TypeInv
      <4>3. Len(SubSeq(data[Len(data)].blocks, 1, n)) = n
        BY <4>1, <4>2
      <4>4. DOMAIN data' = 1 .. Len(data) /\ DOMAIN data = 1 .. Len(data)
        BY <4>1 DEF CutBehind, TypeInv, DiskTypes
      <4>5. ASSUME NEW i \in 1 .. Len(data) PROVE data'[i].synced <= Len(data'[i].blocks)
        <5>1. CASE i = Len(data)
          BY <5>1, <4>1, <4>3 DEF CutBehind
        <5>2. CASE i < Len(data)
          BY <5>2, <4>1, <4>4 DEF CutBehind, TypeInv, DiskTypes
        <5> QED BY <5>1, <5>2 DEF TypeInv, DiskTypes
      <4> QED BY <4>1, <4>4, <4>5
    <3> QED BY <3>1, <3>2
  <2>4. mani' \in Seq(ManiType) /\ \A i \in DOMAIN mani' : mani'[i].synced <= Len(mani'[i].entries)
    <3>1. mani # <<>>
      BY <1>3 DEF Halt, Control
    <3>2. PICK n \in 0 .. Len(Last(mani).entries) :
           /\ mani' \in Seq(ManiType) /\ Len(mani') = Len(mani)
           /\ \A i \in 1 .. Len(mani) : i < Len(mani) => mani'[i] = mani[i]
           /\ mani'[Len(mani)].entries = SubSeq(Last(mani).entries, 1, n)
           /\ mani'[Len(mani)].synced = n
      BY <1>3, <3>1, HaltMani DEF TypeInv
    <3>3. Last(mani).entries \in Seq(Nat)
      BY <3>1, LastTypes DEF TypeInv
    <3>4. Len(SubSeq(Last(mani).entries, 1, n)) = n
      BY <3>2, <3>3
    <3>5. DOMAIN mani' = 1 .. Len(mani) /\ DOMAIN mani = 1 .. Len(mani)
      BY <3>2 DEF TypeInv, DiskTypes
    <3>6. ASSUME NEW i \in 1 .. Len(mani) PROVE mani'[i].synced <= Len(mani'[i].entries)
      <4>1. CASE i = Len(mani)
        BY <4>1, <3>2, <3>4
      <4>2. CASE i < Len(mani)
        BY <4>2, <3>2, <3>5 DEF TypeInv, DiskTypes
      <4> QED BY <4>1, <4>2 DEF TypeInv, DiskTypes
    <3> QED BY <3>2, <3>5, <3>6
  <2> QED BY <2>1, <2>2, <2>3, <2>4 DEF TypeInv, DiskTypes
<1>4. CASE \E s \in Sizes : AppendEntry(s)
  <2>1. PICK s \in Sizes : AppendEntry(s)
    BY <1>4
  <2>2. next_lsn \in 1 .. MaxLsn /\ s \in Nat /\ next_lsn \in Lsns
    BY <2>1, ConstantTypes DEF AppendEntry, TypeInv, CallerTypes, Numbers, Control, Popped, Lsns
  <2>3. CallerTypes'
    BY <2>1, <2>2, ConstantTypes DEF AppendEntry, TypeInv, CallerTypes
  <2>4. HistoryTypes'
    BY <2>1, <2>2 DEF AppendEntry, TypeInv, HistoryTypes
  <2> QED BY <2>1, <2>3, <2>4 DEF AppendEntry, TypeInv, DiskTypes, FlusherTypes,
                                  disk, packing, lsns
<1>5. CASE \E a \in Advancers : AdvStore(a)
  BY <1>5 DEF AdvStore, TypeInv, DiskTypes, CallerTypes, FlusherTypes, HistoryTypes,
              disk, packing, lsns, history
<1>6. CASE \E a \in Advancers : \E l \in 1 .. MaxLsn : AdvLoad(a, l)
  <2>1. PICK a \in Advancers, l \in 1 .. MaxLsn : AdvLoad(a, l)
    BY <1>6
  <2>2. CallerTypes'
    BY <2>1, ConstantTypes DEF AdvLoad, TypeInv, CallerTypes
  <2>3. HistoryTypes'
    BY <2>1, ConstantTypes DEF AdvLoad, TypeInv, HistoryTypes, Larger
  <2> QED BY <2>1, <2>2, <2>3 DEF AdvLoad, TypeInv, DiskTypes, FlusherTypes,
                                  disk, packing, lsns
<1> QED
  BY <1>1, <1>2, <1>3, <1>4, <1>5, <1>6

\* The flushing thread: packing entries.
LEMMA TypePacking ==
  ASSUME TypeInv, Control, Numbers,
         \/ OpenData \/ Start \/ Top \/ Pop \/ OpenBlock \/ PutRest \/ PutPart \/ FillZero
         \/ TimeFlush \/ NoTimeFlush \/ Lsn
  PROVE  TypeInv'
<1> USE DEF TypeInv
<1>1. CASE OpenData
  <2>1. NewRot(1) \in RotType /\ NewRot(1).synced <= Len(NewRot(1).blocks)
    BY DEF NewRot, RotType
  <2>2. /\ <<NewRot(1)>> \in Seq(RotType) /\ DOMAIN <<NewRot(1)>> = {1}
        /\ <<NewRot(1)>>[1] = NewRot(1)
    BY <2>1
  <2>3. DiskTypes'
    BY <2>1, <2>2, <1>1 DEF OpenData, DiskTypes
  <2> QED BY <2>3, <1>1 DEF OpenData, CallerTypes, FlusherTypes, HistoryTypes, Goto,
                            packing, lsns, history, Labels
<1>2. CASE Start
  <2>1. FlusherTypes'
    BY <1>2, ConstantTypes DEF Start, FlusherTypes, CallerTypes, Call, Labels
  <2> QED BY <2>1, <1>2 DEF Start, DiskTypes, CallerTypes, HistoryTypes, disk, shared, history
<1>3. CASE Top
  <2>1. DiskTypes' /\ HistoryTypes'
    BY <1>3 DEF Top, DiskTypes, HistoryTypes, disk, history
  <2>2. CASE running
    BY <2>1, <2>2, <1>3 DEF Top, CallerTypes, FlusherTypes, Goto, shared, packing, lsns, Labels
  <2>3. CASE ~running
    BY <2>1, <2>3, <1>3, NoWriterTypes DEF Top
  <2> QED BY <2>2, <2>3
<1>4. CASE Pop
  <2>1. DiskTypes' /\ HistoryTypes'
    BY <1>4 DEF Pop, DiskTypes, HistoryTypes, disk, history
  <2>2. CASE ring = <<>>
    BY <2>1, <2>2, <1>4 DEF Pop, CallerTypes, FlusherTypes, Goto, lsns, Labels
  <2>3. CASE ring # <<>>
    <3>1. Head(ring) \in 1 .. MaxLsn /\ Tail(ring) \in Seq(1 .. MaxLsn)
      <4>1. ring \in Seq(1 .. MaxLsn)
        BY DEF CallerTypes
      <4> HIDE DEF TypeInv
      <4> QED BY <4>1, <2>3, HeadTail
    <3>2. size[Head(ring)] \in Nat
      BY SMTT(60), <3>1, ConstantTypes DEF HistoryTypes, Lsns
    <3>3. cur' \in [lsn : 0 .. MaxLsn, left : Nat, split : BOOLEAN]
      <4>1. cur' = [lsn |-> Head(ring), left |-> size[Head(ring)], split |-> FALSE]
        BY <2>3, <1>4 DEF Pop
      <4>2. Head(ring) \in 0 .. MaxLsn
        BY <3>1, ConstantTypes
      <4> HIDE DEF TypeInv
      <4> QED BY <4>1, <4>2, <3>2
    <3>4. FlusherTypes'
      BY <2>3, <3>3, <1>4 DEF Pop, FlusherTypes, lsns
    <3>5. CallerTypes'
      BY <2>3, <3>1, <1>4 DEF Pop, CallerTypes
    <3> QED BY <2>1, <3>4, <3>5
  <2> QED BY <2>2, <2>3
<1>5. CASE OpenBlock
  <2> DEFINE F == Fixed(buf, last_filled_lsn) N == NewBlock(cur.lsn)
  <2>1. F \in Seq(BlockType)
    BY FixedFacts DEF FlusherTypes, CallerTypes
  <2>2. N \in BlockType
    BY ConstantTypes DEF NewBlock, BlockType, FlusherTypes
  <2>3. buf' = Append(F, N) /\ used' = 0
    BY <1>5 DEF OpenBlock
  <2> HIDE DEF F, N
  <2>4. buf' \in Seq(BlockType)
    BY <2>1, <2>2, <2>3
  <2>5. last_min_lsn' \in Nat
    BY <1>5 DEF OpenBlock, FlusherTypes, CallerTypes
  <2>6. FlusherTypes'
    BY <2>3, <2>4, <2>5, <1>5, ConstantTypes DEF OpenBlock, FlusherTypes
  <2> QED BY <2>6, <1>5 DEF OpenBlock, DiskTypes, CallerTypes, HistoryTypes, disk, shared, history
<1>6. ASSUME NEW B \in Seq(BlockType), NEW u \in 0 .. BlockUnits, NEW f \in 0 .. MaxLsn,
             NEW split \in BOOLEAN, FlushIfDue(B, u, f, split), pc = "pop",
             cur' \in [lsn : 0 .. MaxLsn, left : Nat, split : BOOLEAN],
             max_flushed_lsn' \in 0 .. MaxLsn
      PROVE  TypeInv'
  <2>1. /\ buf' \in Seq(BlockType) /\ used' = u /\ last_filled_lsn' = f
        /\ data' = data /\ mani' = mani
        /\ UNCHANGED <<shared, min, next_no_use_lsn, history>>
        /\ last_min_lsn' \in {last_min_lsn, min_lsn} /\ rotatable' \in {~split, rotatable}
        /\ pc' \in {"flush", pc}
    <3> HIDE DEF TypeInv
    <3>1. min_lsn \in Nat
      BY DEF TypeInv, CallerTypes
    <3>2. FlushIfDue(B, u, f, split)
      BY <1>6
    <3> QED BY <3>1, <3>2, FlushIfDueMoves
  <2>2. DiskTypes'
    BY <2>1 DEF DiskTypes
  <2>3. CallerTypes' /\ HistoryTypes'
    BY <2>1 DEF CallerTypes, HistoryTypes, shared, history
  <2>4. FlusherTypes'
    BY <2>1, <1>6 DEF FlusherTypes, CallerTypes, Labels
  <2> QED BY <2>2, <2>3, <2>4
<1>7. CASE PutRest
  <2> DEFINE k == IF cur.split THEN "Last" ELSE "Full"
  <2>1. /\ pc = "pop" /\ cur # NoEntry /\ buf # <<>> /\ 1 + cur.left <= Room
        /\ FlushIfDue(WithPart(k), used + 1 + cur.left, cur.lsn, FALSE)
        /\ cur' = NoEntry /\ max_flushed_lsn' = cur.lsn
    BY <1>7 DEF PutRest, Packing, AtBoundary
  <2>2. k \in {"Full", "First", "Middle", "Last"} /\ k \notin {"First", "Middle"}
    OBVIOUS
  <2> HIDE DEF k
  <2>3. /\ NextPart(k) \in PartType /\ cur.lsn \in 1 .. MaxLsn /\ cur.left \in Nat
    BY <2>1, <2>2, NextPartType
  <2>4. WithPart(k) \in Seq(BlockType)
    BY <2>1, <2>3, WithPartFacts
  <2>5. used + 1 + cur.left \in 0 .. BlockUnits
    BY <2>1, <2>3, ConstantTypes DEF Room, FlusherTypes
  <2>6. NoEntry \in [lsn : 0 .. MaxLsn, left : Nat, split : BOOLEAN] /\ cur.lsn \in 0 .. MaxLsn
    BY <2>3, ConstantTypes DEF NoEntry
  <2> QED BY <2>1, <2>4, <2>5, <2>6, <1>6
<1>8. CASE PutPart
  <2> DEFINE k == IF cur.split THEN "Middle" ELSE "First"
  <2>1. /\ pc = "pop" /\ cur # NoEntry /\ buf # <<>> /\ 1 + cur.left > Room /\ 1 < Room
        /\ FlushIfDue(WithPart(k), BlockUnits, cur.lsn, TRUE)
        /\ cur' = [cur EXCEPT !.left = @ - (Room - 1), !.split = TRUE]
        /\ max_flushed_lsn' = max_flushed_lsn
    BY <1>8 DEF PutPart, Packing, AtBoundary
  <2>2. k \in {"Full", "First", "Middle", "Last"}
    OBVIOUS
  <2> HIDE DEF k
  <2>3. /\ NextPart(k) \in PartType /\ cur.lsn \in 1 .. MaxLsn /\ cur.left \in Nat
        /\ Room \in Nat
    BY <2>1, <2>2, NextPartType
  <2>4. WithPart(k) \in Seq(BlockType)
    BY <2>1, <2>3, WithPartFacts
  <2>5. cur.left - (Room - 1) \in Nat
    BY <2>1, <2>3
  <2>6. cur' \in [lsn : 0 .. MaxLsn, left : Nat, split : BOOLEAN]
    BY <2>1, <2>5 DEF FlusherTypes
  <2>7. BlockUnits \in 0 .. BlockUnits /\ max_flushed_lsn' \in 0 .. MaxLsn
        /\ cur.lsn \in 0 .. MaxLsn
    BY <2>1, <2>3, ConstantTypes DEF FlusherTypes
  <2> QED BY <2>1, <2>4, <2>6, <2>7, <1>6
<1>9. CASE FillZero
  <2>1. /\ pc = "pop" /\ FlushIfDue(buf, BlockUnits, last_filled_lsn, cur.split)
        /\ cur' = cur /\ max_flushed_lsn' = max_flushed_lsn
    BY <1>9 DEF FillZero, Packing
  <2>2. /\ BlockUnits \in 0 .. BlockUnits /\ max_flushed_lsn' \in 0 .. MaxLsn
        /\ buf \in Seq(BlockType) /\ last_filled_lsn \in 0 .. MaxLsn
        /\ cur' \in [lsn : 0 .. MaxLsn, left : Nat, split : BOOLEAN] /\ cur.split \in BOOLEAN
    BY <2>1, ConstantTypes DEF FlusherTypes
  <2> QED BY <2>1, <2>2, <1>6
<1>10. CASE TimeFlush
  <2>1. Fixed(buf, last_filled_lsn) \in Seq(BlockType)
    BY FixedFacts DEF FlusherTypes, CallerTypes
  <2>2. FlusherTypes'
    BY <2>1, <1>10, ConstantTypes DEF TimeFlush, FlusherTypes, CallerTypes, Call, Labels
  <2> QED BY <2>2, <1>10 DEF TimeFlush, DiskTypes, CallerTypes, HistoryTypes, disk, shared, history
<1>11. CASE NoTimeFlush
  BY <1>11 DEF NoTimeFlush, DiskTypes, CallerTypes, FlusherTypes, HistoryTypes, Goto, Labels,
               disk, shared, packing, lsns, history
<1>12. CASE Lsn
  <2>1. pc' \in Labels
    BY <1>12 DEF Lsn, Goto, Call, Labels
  <2>2. FlusherTypes'
    BY <2>1, <1>12 DEF Lsn, FlusherTypes, CallerTypes, packing
  <2> QED BY <2>2, <1>12 DEF Lsn, DiskTypes, CallerTypes, HistoryTypes, disk, shared, history
<1> QED
  BY <1>1, <1>2, <1>3, <1>4, <1>5, <1>7, <1>8, <1>9, <1>10, <1>11, <1>12

\* The flushing thread: writing.
LEMMA TypeWriting ==
  ASSUME TypeInv, Control, Numbers,
         \/ Flush \/ Write \/ Sync \/ RotSync \/ RotNew \/ RemoveRot \/ Flushed
         \/ Mani \/ ManiSync \/ ManiRot
  PROVE  TypeInv'
<1> USE DEF TypeInv
<1>1. CASE Flush
  <2>1. FlusherTypes'
    BY <1>1 DEF Flush, FlusherTypes, CallerTypes, Frame, Call, Goto, Labels
  <2> QED BY <2>1, <1>1 DEF Flush, DiskTypes, CallerTypes, HistoryTypes, Frame, disk, shared
<1> DEFINE Rest == /\ FlusherTypes' /\ CallerTypes' /\ HistoryTypes'
<1>2. CASE Write
  <2>1. Rest
    BY <1>2 DEF Write, FlusherTypes, CallerTypes, HistoryTypes, Frame, Goto, Labels, shared, lsns
  <2>2. data # <<>> /\ buf \in Seq(BlockType)
    BY <1>2 DEF Control, Early, Write, FlusherTypes
  <2> DEFINE m == Len(data)
  <2>3. /\ data' = With(data, buf) /\ data' \in Seq(RotType) /\ Len(data') = m
        /\ data'[m].synced = data[m].synced /\ \A i \in 1 .. m : i < m => data'[i] = data[i]
    <3>1. data \in Seq(RotType) /\ m \in 1 .. m
      BY <2>2, LastTypes DEF DiskTypes
    <3>2. data' = With(data, buf)
      BY <2>2, <1>2, WriteData
    <3> HIDE DEF TypeInv
    <3> QED BY <2>2, <3>1, <3>2, WithFacts
  <2>4. Len(data'[m].blocks) = Len(data[m].blocks) + Len(buf) /\ Len(data[m].blocks) \in Nat
    BY <2>2, <2>3, WithBlocks DEF DiskTypes
  <2>5. ASSUME NEW i \in DOMAIN data' PROVE data'[i].synced <= Len(data'[i].blocks)
    <3>1. i \in 1 .. m /\ DOMAIN data = 1 .. m
      BY <2>3 DEF DiskTypes
    <3>2. data[i].synced \in Nat /\ data[i].synced <= Len(data[i].blocks)
      BY <3>1, RotTypes DEF DiskTypes
    <3>3. CASE i < m
      BY <3>1, <3>2, <3>3, <2>3
    <3>4. CASE i = m
      BY <3>2, <3>4, <2>2, <2>3, <2>4
    <3> QED BY <3>1, <3>3, <3>4
  <2> QED BY <2>1, <2>3, <2>5, <1>2 DEF DiskTypes, Write
<1>3. CASE Sync \/ RotSync
  <2>1. Rest
    BY <1>3 DEF Sync, RotSync, SyncData, FlusherTypes, CallerTypes, HistoryTypes, Frame, Goto,
                Labels, shared, lsns
  <2>2. data # <<>> /\ SyncData /\ mani' = mani
    BY <1>3 DEF Control, Early, Sync, RotSync, SyncData
  <2> DEFINE m == Len(data)
  <2>3. /\ data' \in Seq(RotType) /\ Len(data') = m
        /\ \A i \in 1 .. m : data'[i].blocks = data[i].blocks /\ (i < m => data'[i] = data[i])
        /\ data'[m].synced = Len(data[m].blocks)
    BY <2>2, SyncFacts
  <2>4. ASSUME NEW i \in DOMAIN data' PROVE data'[i].synced <= Len(data'[i].blocks)
    <3>1. i \in 1 .. m /\ DOMAIN data = 1 .. m /\ Len(data[m].blocks) \in Nat
      BY <2>2, <2>3, LastTypes DEF DiskTypes
    <3>2. CASE i < m
      BY <3>1, <3>2, <2>3 DEF DiskTypes
    <3>3. CASE i = m
      BY <3>1, <3>3, <2>3
    <3> QED BY <3>1, <3>2, <3>3
  <2> QED BY <2>1, <2>2, <2>3, <2>4 DEF DiskTypes
<1>4. CASE RotNew
  <2>1. Rest
    BY <1>4 DEF RotNew, FlusherTypes, CallerTypes, HistoryTypes, Frame, Call, Labels, shared, lsns
  <2> DEFINE N == NewRot(last_filled_lsn + 1)
  <2>2. N \in RotType /\ N.synced <= Len(N.blocks)
    BY ConstantTypes DEF NewRot, RotType, FlusherTypes
  <2>3. data' = Append(data, N) /\ mani' = mani
    BY <1>4 DEF RotNew
  <2> HIDE DEF N
  <2>4. /\ data' \in Seq(RotType) /\ DOMAIN data' = 1 .. Len(data) + 1
        /\ DOMAIN data = 1 .. Len(data)
        /\ \A i \in 1 .. Len(data) : data'[i] = data[i]
        /\ data'[Len(data) + 1] = N /\ Len(data) \in Nat
    BY <2>2, <2>3 DEF DiskTypes
  <2>5. \A i \in DOMAIN data' : data'[i].synced <= Len(data'[i].blocks)
    BY SMTT(60), <2>2, <2>4 DEF DiskTypes
  <2> QED BY <2>1, <2>3, <2>4, <2>5 DEF DiskTypes
<1>5. CASE RemoveRot
  <2>1. CallerTypes' /\ HistoryTypes'
    BY <1>5 DEF RemoveRot, CallerTypes, HistoryTypes, Frame, shared
  <2>2. CASE Len(data) > 1 /\ data[2].first <= min
    <3>1. data' = Tail(data) /\ mani' = mani /\ UNCHANGED <<next_no_use_lsn, pc>>
      BY <2>2, <1>5 DEF RemoveRot
    <3>2. FlusherTypes'
      BY <3>1, <1>5 DEF RemoveRot, FlusherTypes, Frame
    <3>3. /\ data' \in Seq(RotType) /\ DOMAIN data' = 1 .. Len(data) - 1
          /\ \A i \in 1 .. Len(data) - 1 : data'[i] = data[i + 1] /\ i + 1 \in DOMAIN data
      BY <3>1, <2>2 DEF DiskTypes
    <3>4. DiskTypes'
      BY <3>1, <3>3 DEF DiskTypes
    <3> QED BY <3>2, <3>4, <2>1
  <2>3. CASE ~(Len(data) > 1 /\ data[2].first <= min)
    <3>1. /\ next_no_use_lsn' = (IF Len(data) > 1 THEN data[2].first ELSE Infinity)
          /\ Return /\ data' = data /\ mani' = mani /\ pc = "remove"
      BY <2>3, <1>5 DEF RemoveRot
    <3>2. next_no_use_lsn' \in Nat
      <4>1. CASE Len(data) > 1
        BY SMTT(60), <4>1, <3>1, RotTypes DEF DiskTypes
      <4>2. CASE ~(Len(data) > 1)
        BY <4>2, <3>1, ConstantTypes DEF Infinity
      <4> QED BY <4>1, <4>2
    <3>3. pc' \in Labels
      BY <3>1, ReturnTypes
    <3>4. FlusherTypes'
      BY <3>2, <3>3, <1>5 DEF RemoveRot, FlusherTypes, Frame
    <3> QED BY <3>1, <3>4, <2>1 DEF DiskTypes
  <2> QED BY <2>2, <2>3
<1>6. CASE Flushed
  <2>1. pc' \in Labels
    BY <1>6, ReturnTypes DEF Flushed
  <2>2. max_lsn' \in 0 .. MaxLsn
    BY <1>6 DEF Flushed, FlusherTypes, CallerTypes
  <2>3. acked' \in 0 .. MaxLsn
    BY <2>2, <1>6 DEF Flushed, Larger, HistoryTypes
  <2>4. buf' \in Seq(BlockType) /\ used' \in 0 .. BlockUnits
    BY <1>6, ConstantTypes DEF Flushed
  <2>5. FlusherTypes'
    BY <2>1, <2>4, <1>6 DEF Flushed, FlusherTypes, lsns
  <2>6. CallerTypes' /\ HistoryTypes'
    BY <2>2, <2>3, <1>6 DEF Flushed, CallerTypes, HistoryTypes
  <2> QED BY <2>5, <2>6, <1>6 DEF Flushed, DiskTypes, disk
<1>7. CASE Mani \/ ManiSync
  <2>1. pc' \in Labels
    BY <1>7, ReturnTypes DEF Mani, ManiSync, Goto, Labels
  <2>2. Rest
    BY <2>1, <1>7 DEF Mani, ManiSync, FlusherTypes, CallerTypes, HistoryTypes, Frame, shared, lsns
  <2>3. mani # <<>> /\ data' = data
    BY <1>7 DEF Mani, ManiSync, Control
  <2> DEFINE m == Len(mani)
  <2>4. /\ mani' \in Seq(ManiType) /\ Len(mani') = m
        /\ \A i \in 1 .. m : i < m => mani'[i] = mani[i]
        /\ mani'[m].synced <= Len(mani'[m].entries)
    <3>1. /\ mani[m].entries \in Seq(Nat) /\ mani[m].synced <= Len(mani[m].entries)
          /\ mani[m].synced \in Nat /\ m \in 1 .. m
      BY <2>3, LastTypes
    <3>2. Len(Append(mani[m].entries, min)) = Len(mani[m].entries) + 1
          /\ Len(mani[m].entries) \in Nat
      BY <3>1
    <3>3. CASE Mani
      <4>1. min \in Nat
        BY DEF FlusherTypes
      <4> QED BY <4>1, <3>1, <3>2, <3>3, <2>3, ManiFacts
    <3>4. CASE ManiSync
      BY <3>1, <3>2, <3>4, <2>3, ManiSyncFacts
    <3> QED BY <3>3, <3>4, <1>7
  <2>5. ASSUME NEW i \in DOMAIN mani' PROVE mani'[i].synced <= Len(mani'[i].entries)
    <3>1. i \in 1 .. m /\ DOMAIN mani = 1 .. m
      BY <2>4 DEF DiskTypes
    <3> QED BY <3>1, <2>4 DEF DiskTypes
  <2> QED BY <2>2, <2>3, <2>4, <2>5 DEF DiskTypes
<1>8. CASE ManiRot
  <2>1. CallerTypes' /\ HistoryTypes' /\ data' = data
    BY <1>8 DEF ManiRot, CallerTypes, HistoryTypes, Frame, shared
  <2>2. CASE Len(mani) >= 2
    <3>1. mani' = Tail(mani) /\ UNCHANGED <<pc, then, last_min_lsn>>
      BY <2>2, <1>8 DEF ManiRot
    <3>2. FlusherTypes'
      BY <3>1, <1>8 DEF ManiRot, FlusherTypes, Frame
    <3>3. /\ mani' \in Seq(ManiType) /\ DOMAIN mani' = 1 .. Len(mani) - 1
          /\ \A i \in 1 .. Len(mani) - 1 : mani'[i] = mani[i + 1] /\ i + 1 \in DOMAIN mani
      BY <3>1, <2>2 DEF DiskTypes
    <3> QED BY <2>1, <3>2, <3>3 DEF DiskTypes
  <2>3. CASE ~(Len(mani) >= 2)
    <3>1. mani' = Append(mani, NewMani) /\ Return /\ last_min_lsn' = min
      BY <2>3, <1>8 DEF ManiRot
    <3>2. pc' \in Labels
      BY <3>1, <1>8, ReturnTypes DEF ManiRot
    <3>3. FlusherTypes'
      BY <3>1, <3>2, <1>8 DEF ManiRot, FlusherTypes, Frame
    <3>4. NewMani \in ManiType /\ NewMani.synced <= Len(NewMani.entries)
      BY DEF NewMani, ManiType
    <3>5. /\ mani' \in Seq(ManiType) /\ DOMAIN mani' = 1 .. Len(mani) + 1
          /\ DOMAIN mani = 1 .. Len(mani) /\ Len(mani) \in Nat
          /\ \A i \in 1 .. Len(mani) : mani'[i] = mani[i]
          /\ mani'[Len(mani) + 1] = NewMani
      BY <3>1, <3>4 DEF DiskTypes
    <3>6. \A i \in DOMAIN mani' : mani'[i].synced <= Len(mani'[i].entries)
      BY SMTT(60), <3>4, <3>5 DEF DiskTypes
    <3> QED BY <2>1, <3>3, <3>5, <3>6 DEF DiskTypes
  <2> QED BY <2>2, <2>3
<1> QED
  BY <1>1, <1>2, <1>3, <1>4, <1>5, <1>6, <1>7, <1>8

-----------------------------------------------------------------------------
(* Where the flushing thread is.                                           *)

LEMMA Singles ==
  ASSUME NEW a
  PROVE  Head(<<a>>) = a /\ Tail(<<a>>) = <<>> /\ <<a>> \o <<>> = <<a>>
OBVIOUS

LEMMA Pairs ==
  ASSUME NEW a, NEW b
  PROVE  /\ Head(<<a, b>>) = a /\ Tail(<<a, b>>) = <<b>>
         /\ <<a>> \o <<b>> = <<a, b>> /\ <<a, b>> \o <<>> = <<a, b>>
<1> DEFINE S == {a, b} s == <<a>> \o <<b>>
<1>1. s = <<a, b>>
  <2>1. <<a>> \in Seq(S) /\ <<b>> \in Seq(S) /\ Len(<<a>>) = 1 /\ Len(<<b>>) = 1
    OBVIOUS
  <2>2. s \in Seq(S) /\ Len(s) = 2 /\ s[1] = a /\ s[2] = b
    BY <2>1
  <2> HIDE DEF s
  <2> QED BY <2>2
<1>2. Head(<<a, b>>) = a /\ Tail(<<a, b>>) = <<b>>
  OBVIOUS
<1>3. <<a, b>> \o <<>> = <<a, b>>
  OBVIOUS
<1> QED
  BY <1>1, <1>2, <1>3

LEMMA Triples ==
  ASSUME NEW a, NEW b, NEW c
  PROVE  /\ Head(<<a, b, c>>) = a /\ Tail(<<a, b, c>>) = <<b, c>>
         /\ <<a>> \o <<b, c>> = <<a, b, c>>
<1> DEFINE S == {a, b, c} t == <<a>> \o <<b, c>>
<1>1. t = <<a, b, c>>
  <2>1. <<a>> \in Seq(S) /\ <<b, c>> \in Seq(S) /\ Len(<<a>>) = 1 /\ Len(<<b, c>>) = 2
    OBVIOUS
  <2>2. t \in Seq(S) /\ Len(t) = 3 /\ t[1] = a /\ t[2] = b /\ t[3] = c
    BY <2>1
  <2> HIDE DEF t
  <2> QED BY <2>2
<1>2. Head(<<a, b, c>>) = a /\ Tail(<<a, b, c>>) = <<b, c>>
  OBVIOUS
<1> QED
  BY <1>1, <1>2

LEMMA ReturnPairs ==
  ASSUME Control, pc \in {"remove", "flushed", "mani_sync", "mani_rot"}, Return
  PROVE  /\ pc = "remove" => \/ then = <<"top">> /\ pc' = "top" /\ then' = <<>>
                             \/ then = <<"mani", "top">> /\ pc' = "mani" /\ then' = <<"top">>
                             \/ then = <<"flushed", "pop">> /\ pc' = "flushed" /\ then' = <<"pop">>
                             \/ then = <<"flushed", "lsn">> /\ pc' = "flushed" /\ then' = <<"lsn">>
         /\ pc = "flushed" => \/ then = <<"pop">> /\ pc' = "pop" /\ then' = <<>>
                              \/ then = <<"lsn">> /\ pc' = "lsn" /\ then' = <<>>
         /\ pc \in {"mani_sync", "mani_rot"} =>
              \/ then = <<"top">> /\ pc' = "top" /\ then' = <<>>
              \/ then = <<"remove", "top">> /\ pc' = "remove" /\ then' = <<"top">>
              \/ then = <<"remove", "mani", "top">> /\ pc' = "remove" /\ then' = <<"mani", "top">>
              \/ then = <<"write", "pop">> /\ pc' = "write" /\ then' = <<"pop">>
              \/ then = <<"write", "lsn">> /\ pc' = "write" /\ then' = <<"lsn">>
<1>1. CASE pc = "remove"
  <2>1. then \in {<<"top">>, <<"mani", "top">>, <<"flushed", "pop">>, <<"flushed", "lsn">>}
    BY <1>1, ReturnsTo DEF Labels
  <2>2. pc' = Head(then) /\ then' = Tail(then)
    BY DEF Return
  <2>3. CASE then = <<"top">>
    BY <2>2, <2>3, <1>1, Singles
  <2>4. CASE then \in {<<"mani", "top">>, <<"flushed", "pop">>, <<"flushed", "lsn">>}
    BY <2>2, <2>4, <1>1, Pairs
  <2> QED BY <2>1, <2>3, <2>4
<1>2. CASE pc = "flushed"
  <2>1. then \in {<<"pop">>, <<"lsn">>}
    BY <1>2, ReturnsTo DEF Labels, Packers
  <2> QED BY SMTT(60), <2>1, <1>2 DEF Return
<1>3. CASE pc \in {"mani_sync", "mani_rot"}
  <2>1. then \in {<<"top">>, <<"remove", "top">>, <<"remove", "mani", "top">>,
                  <<"write", "pop">>, <<"write", "lsn">>}
    BY <1>3, ReturnsTo DEF Labels
  <2>2. pc' = Head(then) /\ then' = Tail(then)
    BY DEF Return
  <2>3. CASE then = <<"top">>
    BY <2>2, <2>3, <1>3, Singles
  <2>4. CASE then \in {<<"remove", "top">>, <<"write", "pop">>, <<"write", "lsn">>}
    BY ZenonT(60), SMTT(60), <2>2, <2>4, <1>3, Pairs
  <2>5. CASE then = <<"remove", "mani", "top">>
    BY <2>2, <2>5, <1>3, Triples
  <2> QED BY <2>1, <2>3, <2>4, <2>5
<1> QED
  BY <1>1, <1>2, <1>3

\* With nothing in memory.
LEMMA NoWriterControl ==
  ASSUME NoWriter
  PROVE  Control' /\ Numbers'
<1>1. /\ pc' = "closed" /\ then' = <<>> /\ buf' = <<>> /\ used' = 0 /\ ring' = <<>>
      /\ last_filled_lsn' = 0 /\ max_lsn' = 0 /\ running' = FALSE /\ cur' = NoEntry
  BY DEF NoWriter
<1>2. Control'
  BY <1>1 DEF Control, Returns, ToWrite, Written, Early
<1>3. Numbers'
  BY <1>1 DEF Numbers, NoEntry
<1> QED
  BY <1>2, <1>3

LEMMA ControlCallers ==
  ASSUME TypeInv, Control,
         \/ Open \/ Stop \/ Halt
         \/ \E s \in Sizes : AppendEntry(s)
         \/ \E a \in Advancers : AdvStore(a) \/ \E l \in 1 .. MaxLsn : AdvLoad(a, l)
  PROVE  Control'
<1>1. CASE Open
  <2>1. mani' # <<>>
    BY <1>1 DEF Open
  <2> QED BY <2>1, <1>1 DEF Open, Goto, packing, lsns, Control, Returns, ToWrite, Written, Early
<1>2. CASE Stop
  BY <1>2 DEF Stop, disk, packing, lsns, history, Control, Returns, ToWrite, Written, Early
<1>3. CASE Halt
  BY <1>3, NoWriterControl DEF Halt
<1>4. CASE \E s \in Sizes : AppendEntry(s)
  BY <1>4 DEF AppendEntry, disk, packing, lsns, Control, Returns, ToWrite, Written, Early
<1>5. CASE \E a \in Advancers : AdvStore(a)
  BY <1>5 DEF AdvStore, disk, packing, lsns, history, Control, Returns, ToWrite, Written, Early
<1>6. CASE \E a \in Advancers : \E l \in 1 .. MaxLsn : AdvLoad(a, l)
  BY <1>6 DEF AdvLoad, disk, packing, lsns, Control, Returns, ToWrite, Written, Early
<1> QED
  BY <1>1, <1>2, <1>3, <1>4, <1>5, <1>6

LEMMA ControlPacking ==
  ASSUME TypeInv, Control, Numbers,
         \/ OpenData \/ Start \/ Top \/ Pop \/ OpenBlock \/ PutRest \/ PutPart \/ FillZero
         \/ TimeFlush \/ NoTimeFlush \/ Lsn
  PROVE  Control'
<1>1. CASE OpenData
  <2>1. data' # <<>>
    BY <1>1 DEF OpenData
  <2> QED BY <2>1, <1>1 DEF OpenData, Goto, packing, lsns, Control, Returns, ToWrite, Written, Early
<1>2. CASE Start
  <2>1. then = <<>>
    BY <1>2, ReturnsTo DEF Start, TypeInv, FlusherTypes
  <2>2. pc' = "remove" /\ then' \in {<<"top">>, <<"mani", "top">>}
    BY <2>1, <1>2 DEF Start, Call
  <2>3. /\ ~ToWrite' /\ ~Written' /\ then' \in Returns("remove") /\ ~Early'
    BY <2>2 DEF ToWrite, Written, Returns, Early
  <2> QED BY <2>2, <2>3, <1>2 DEF Start, disk, shared, Control, Early
<1>3. CASE Top
  <2>1. CASE running
    BY <2>1, <1>3 DEF Top, Goto, disk, shared, packing, lsns, Control, Returns, ToWrite, Written,
        Early
  <2>2. CASE ~running
    BY <2>2, <1>3, NoWriterControl DEF Top
  <2> QED BY <2>1, <2>2
<1>4. CASE Pop
  <2>1. pc' \in {"pop", "quiet"} /\ then' = then /\ then = <<>>
    BY <1>4, ReturnsTo DEF Pop, Goto, TypeInv, FlusherTypes
  <2> QED BY <2>1, <1>4 DEF Pop, disk, lsns, Control, Returns, ToWrite, Written, Early
<1>5. CASE OpenBlock
  BY <1>5 DEF OpenBlock, disk, shared, Control, Returns, ToWrite, Written, Early
<1>6. ASSUME NEW B \in Seq(BlockType), NEW u, NEW f \in 0 .. MaxLsn,
             NEW split \in BOOLEAN, FlushIfDue(B, u, f, split), pc = "pop", B # <<>>,
             ~split => ~cur'.split
      PROVE  Control'
  <2>1. then = <<>>
    BY <1>6, ReturnsTo DEF TypeInv, FlusherTypes
  <2>2. /\ buf' \in Seq(BlockType) /\ Len(buf') = Len(B) /\ buf' # <<>>
        /\ data' = data /\ mani' = mani
        /\ UNCHANGED <<shared, min, next_no_use_lsn, history>>
        /\ \/ pc' = "flush" /\ then' = <<"pop">> \o then /\ rotatable' = ~split
           \/ pc' = pc /\ then' = then
    <3>1. min_lsn \in Nat
      BY DEF TypeInv, CallerTypes
    <3>2. /\ buf' \in Seq(BlockType) /\ Len(buf') = Len(B)
          /\ data' = data /\ mani' = mani
          /\ UNCHANGED <<shared, min, next_no_use_lsn, history>>
          /\ \/ pc' = "flush" /\ then' = <<"pop">> \o then /\ rotatable' = ~split
             \/ pc' = pc /\ then' = then
      <4>1. FlushIfDue(B, u, f, split) /\ f \in 0 .. MaxLsn
        BY <1>6
      <4> QED BY <3>1, <4>1, FlushIfDueMoves
    <3>3. buf' # <<>>
      BY <3>2, <1>6
    <3> QED BY <3>2, <3>3
  <2>3. \/ pc' = "flush" /\ then' = <<"pop">> /\ rotatable' = ~split
        \/ pc' = "pop" /\ then' = <<>>
    BY <2>1, <2>2, <1>6
  <2>4. CASE pc' = "flush"
    BY <2>2, <2>3, <2>4, <1>6 DEF Control, Returns, Packers, ToWrite, Written, Early, shared
  <2>5. CASE pc' = "pop"
    BY <2>2, <2>3, <2>5, <1>6 DEF Control, Returns, ToWrite, Written, Early, shared
  <2> QED BY <2>3, <2>4, <2>5
<1>7. CASE PutRest
  <2> DEFINE k == IF cur.split THEN "Last" ELSE "Full"
  <2>1. /\ pc = "pop" /\ cur # NoEntry /\ buf # <<>>
        /\ FlushIfDue(WithPart(k), used + 1 + cur.left, cur.lsn, FALSE)
        /\ cur' = NoEntry
    BY <1>7 DEF PutRest, Packing, AtBoundary
  <2>2. k \in {"Full", "First", "Middle", "Last"} /\ k \notin {"First", "Middle"}
    OBVIOUS
  <2> HIDE DEF k
  <2>3. NextPart(k) \in PartType /\ cur.lsn \in 0 .. MaxLsn
    BY <2>1, <2>2, NextPartType
  <2>4. WithPart(k) \in Seq(BlockType) /\ Len(WithPart(k)) = Len(buf)
    BY <2>1, <2>3, WithPartFacts DEF TypeInv
  <2>5. WithPart(k) # <<>> /\ ~cur'.split
    BY <2>1, <2>4 DEF NoEntry, TypeInv, FlusherTypes
  <2> QED BY <2>1, <2>3, <2>4, <2>5, <1>6
<1>8. CASE PutPart
  <2> DEFINE k == IF cur.split THEN "Middle" ELSE "First"
  <2>1. /\ pc = "pop" /\ cur # NoEntry /\ buf # <<>> /\ 1 < Room
        /\ FlushIfDue(WithPart(k), BlockUnits, cur.lsn, TRUE)
    BY <1>8 DEF PutPart, Packing, AtBoundary
  <2>2. k \in {"Full", "First", "Middle", "Last"}
    OBVIOUS
  <2> HIDE DEF k
  <2>3. NextPart(k) \in PartType /\ cur.lsn \in 0 .. MaxLsn
    BY <2>1, <2>2, NextPartType
  <2>4. WithPart(k) \in Seq(BlockType) /\ Len(WithPart(k)) = Len(buf)
    BY <2>1, <2>3, WithPartFacts DEF TypeInv
  <2>5. WithPart(k) # <<>>
    BY <2>1, <2>4 DEF TypeInv, FlusherTypes
  <2> QED BY <2>1, <2>3, <2>4, <2>5, <1>6
<1>9. CASE FillZero
  <2>1. /\ pc = "pop" /\ FlushIfDue(buf, BlockUnits, last_filled_lsn, cur.split)
        /\ cur' = cur /\ buf # <<>>
    BY <1>9 DEF FillZero, Packing, AtBoundary
  <2>2. buf \in Seq(BlockType) /\ last_filled_lsn \in 0 .. MaxLsn /\ cur.split \in BOOLEAN
    BY DEF TypeInv, FlusherTypes
  <2> QED BY <2>1, <2>2, <1>6
<1>10. CASE TimeFlush
  <2>1. then = <<>> /\ cur.lsn = 0 /\ ~cur.split
    BY <1>10, ReturnsTo DEF TimeFlush, TypeInv, FlusherTypes, Numbers, NoEntry
  <2>2. pc' = "flush" /\ then' = <<"lsn">> /\ cur' = cur
    BY <2>1, <1>10 DEF TimeFlush, Call
  <2>3. buf' # <<>>
    <3>1. Len(Fixed(buf, last_filled_lsn)) = Len(buf) /\ buf \in Seq(BlockType)
      BY FixedFacts DEF TypeInv, FlusherTypes, CallerTypes
    <3>2. Len(buf) # 0
      BY <3>1, <1>10 DEF TimeFlush
    <3> QED BY <3>1, <3>2, <1>10 DEF TimeFlush
  <2> QED BY <2>1, <2>2, <2>3, <1>10 DEF TimeFlush, Control, Returns, Packers, ToWrite, Written,
      Early,
                                   disk, shared
<1>11. CASE NoTimeFlush
  BY <1>11 DEF NoTimeFlush, Goto, disk, shared, packing, lsns, Control, Returns, ToWrite, Written,
      Early
<1>12. CASE Lsn
  <2>1. then = <<>>
    BY <1>12, ReturnsTo DEF Lsn, TypeInv, FlusherTypes
  <2>2. \/ pc' = "top" /\ then' = <<>>
        \/ pc' = "mani" /\ then' \in {<<"top">>, <<"remove", "top">>, <<"remove", "mani", "top">>}
    <3>1. CASE Goto("top")
      BY <3>1, <2>1 DEF Goto
    <3>2. ASSUME NEW again \in {<<"top">>, <<"mani", "top">>}, Call("mani", <<"remove">> \o again)
          PROVE  pc' = "mani" /\ then' \in {<<"remove", "top">>, <<"remove", "mani", "top">>}
      BY SMTT(60), <3>2, <2>1, Singles, Pairs, Triples DEF Call
    <3>3. ASSUME NEW again \in {<<"top">>, <<"mani", "top">>},
                 pc' = Head(again), then' = Tail(again) \o then
          PROVE  \/ pc' = "top" /\ then' = <<>>
                 \/ pc' = "mani" /\ then' = <<"top">>
      <4>1. \/ again = <<"top">> /\ Head(again) = "top" /\ Tail(again) = <<>>
            \/ again = <<"mani", "top">> /\ Head(again) = "mani" /\ Tail(again) = <<"top">>
        BY ZenonT(60), SMTT(60), Singles, Pairs
      <4>2. Tail(again) \o <<>> = Tail(again)
        BY <4>1, Singles, Pairs, Triples
      <4> QED BY <3>3, <2>1, <4>1, <4>2
    <3> QED BY <3>1, <3>2, <3>3, <1>12 DEF Lsn
  <2>3. ~ToWrite' /\ ~Written' /\ ~Early' /\ then' \in Returns(pc')
    BY <2>2 DEF ToWrite, Written, Early, Returns
  <2> QED BY <2>2, <2>3, <1>12 DEF Lsn, disk, shared, packing, Control, Early
<1> QED
  BY <1>1, <1>2, <1>3, <1>4, <1>5, <1>7, <1>8, <1>9, <1>10, <1>11, <1>12

LEMMA ControlWriting ==
  ASSUME TypeInv, Control, Numbers,
         \/ Flush \/ Write \/ Sync \/ RotSync \/ RotNew \/ RemoveRot \/ Flushed
         \/ Mani \/ ManiSync \/ ManiRot
  PROVE  Control'
<1>1. CASE Flush
  <2>1. then \in {<<"pop">>, <<"lsn">>} /\ pc = "flush"
    BY <1>1, ReturnsTo DEF Flush, TypeInv, FlusherTypes, Packers
  <2>2. \/ pc' = "write" /\ then' = then
        \/ pc' = "mani" /\ then' \in {<<"write", "pop">>, <<"write", "lsn">>}
    <3>1. CASE Goto("write")
      BY <3>1 DEF Goto
    <3>2. CASE Call("mani", <<"write">>)
      BY <3>2, <2>1, Pairs DEF Call
    <3> QED BY <3>1, <3>2, <1>1 DEF Flush
  <2>3. ToWrite' /\ ~Written' /\ ~Early' /\ then' \in Returns(pc')
    BY <2>1, <2>2 DEF ToWrite, Written, Early, Returns, Packers
  <2>4. ToWrite
    BY <2>1 DEF ToWrite
  <2> QED BY <2>1, <2>2, <2>3, <2>4, <1>1 DEF Flush, Frame, disk, shared, Control, Early
<1>2. CASE Write
  <2>1. then \in Packers /\ pc = "write" /\ ToWrite /\ data # <<>>
    BY <1>2, ReturnsTo DEF Write, TypeInv, FlusherTypes, ToWrite, Control, Early
  <2>2. /\ pc' \in {"rot_sync", "sync"} /\ then' = then /\ (pc' = "rot_sync" => rotatable)
    BY <1>2 DEF Write, Goto
  <2>3. ~ToWrite' /\ Written' /\ ~Early' /\ then' \in Returns(pc')
    BY <2>1, <2>2 DEF ToWrite, Written, Early, Returns
  <2>4. data' # <<>>
    <3>1. Len(data') = Len(data) /\ data' \in Seq(RotType) /\ data \in Seq(RotType)
      BY <2>1, <1>2, WriteData, WithFacts DEF TypeInv, DiskTypes, FlusherTypes
    <3> QED BY <3>1, <2>1
  <2> QED BY <2>1, <2>2, <2>3, <2>4, <1>2 DEF Write, Frame, shared, Control, Early
<1>3. CASE Sync \/ RotSync
  <2>1. then \in Packers /\ pc \in {"sync", "rot_sync"} /\ Written /\ data # <<>>
    BY <1>3, ReturnsTo DEF Sync, RotSync, TypeInv, FlusherTypes, Written, Control, Early
  <2>2. /\ pc' \in {"rot_new", "flushed"} /\ then' = then /\ (pc' = "rot_new" => pc = "rot_sync")
    BY <1>3 DEF Sync, RotSync, Goto
  <2>3. ~ToWrite' /\ Written' /\ ~Early' /\ then' \in Returns(pc')
    BY <2>1, <2>2 DEF ToWrite, Written, Early, Returns
  <2>4. SyncData /\ data' # <<>>
    <3>1. SyncData
      BY <1>3 DEF Sync, RotSync
    <3>2. Len(data') = Len(data) /\ data' \in Seq(RotType) /\ data \in Seq(RotType)
      BY <3>1, <2>1, SyncFacts DEF TypeInv, DiskTypes
    <3> QED BY <3>1, <3>2, <2>1
  <2> QED BY <2>1, <2>2, <2>3, <2>4 DEF SyncData, Frame, shared, Control, Early
<1>4. CASE RotNew
  <2>1. then \in {<<"pop">>, <<"lsn">>} /\ pc = "rot_new" /\ Written
    BY <1>4, ReturnsTo DEF RotNew, TypeInv, FlusherTypes, Written, Packers
  <2>2. pc' = "remove" /\ then' \in {<<"flushed", "pop">>, <<"flushed", "lsn">>}
    BY <2>1, <1>4, Pairs DEF RotNew, Call
  <2>3. ~ToWrite' /\ Written' /\ ~Early' /\ then' \in Returns(pc')
    BY <2>2, Pairs DEF ToWrite, Written, Early, Returns
  <2>4. data' # <<>>
    BY <1>4 DEF RotNew, TypeInv, DiskTypes
  <2> QED BY <2>1, <2>2, <2>3, <2>4, <1>4 DEF RotNew, Frame, shared, Control, Early
<1>5. CASE RemoveRot
  <2>1. pc = "remove" /\ mani' = mani /\ buf' = buf /\ rotatable' = rotatable /\ cur' = cur
    BY <1>5 DEF RemoveRot, Frame
  <2>2. CASE Len(data) > 1 /\ data[2].first <= min
    <3>1. data' = Tail(data) /\ UNCHANGED <<pc, then>>
      BY <2>2, <1>5 DEF RemoveRot
    <3>2. data' # <<>>
      <4>1. Len(Tail(data)) = Len(data) - 1
        BY <2>2 DEF TypeInv, DiskTypes
      <4> QED BY <4>1, <3>1, <2>2
    <3> QED BY <3>1, <3>2, <2>1, <1>5 DEF RemoveRot, Frame, shared, Control, Early, ToWrite, Written
  <2>3. CASE ~(Len(data) > 1 /\ data[2].first <= min)
    <3>1. Return /\ data' = data
      BY <2>3, <1>5 DEF RemoveRot
    <3>2. \/ pc' = "top" /\ then' = <<>>
          \/ pc' = "mani" /\ then' = <<"top">>
          \/ Written /\ pc' = "flushed" /\ then' \in {<<"pop">>, <<"lsn">>}
      BY <3>1, <2>1, ReturnPairs, Pairs DEF Written
    <3>3. /\ ~ToWrite' /\ (Written' => Written) /\ ~Early' /\ then' \in Returns(pc')
          /\ pc' \notin {"rot_sync", "rot_new", "start"}
      BY <3>2, Singles DEF ToWrite, Written, Early, Returns, Packers
    <3> QED BY <3>1, <3>2, <3>3, <2>1, <1>5 DEF RemoveRot, Frame, shared, Control, Early
  <2> QED BY <2>2, <2>3
<1>6. CASE Flushed
  <2>1. pc' \in {"pop", "lsn"} /\ then' = <<>>
    BY <1>6, ReturnPairs DEF Flushed
  <2>2. ~ToWrite' /\ ~Written' /\ ~Early' /\ then' \in Returns(pc') /\ ~Early
    BY <2>1, <1>6 DEF ToWrite, Written, Early, Returns, Flushed
  <2> QED BY <2>1, <2>2, <1>6 DEF Flushed, disk, Control, Early
<1>7. CASE Mani
  <2>1. pc = "mani" /\ pc' = "mani_sync" /\ then' = then /\ mani # <<>>
    BY <1>7 DEF Mani, Goto, Control
  <2>2. mani' # <<>>
    <3>1. Len(mani') = Len(mani) /\ mani' \in Seq(ManiType) /\ mani \in Seq(ManiType)
      BY <2>1, <1>7, ManiFacts DEF TypeInv, DiskTypes, FlusherTypes
    <3> QED BY <3>1, <2>1
  <2> QED BY <2>1, <2>2, <1>7 DEF Mani, Frame, shared, Control, ToWrite, Written, Early, Returns
<1>8. CASE ManiSync
  <2>1. pc = "mani_sync" /\ mani # <<>> /\ data # <<>>
    BY <1>8 DEF ManiSync, Control, Early
  <2>2. mani' # <<>>
    <3>1. Len(mani') = Len(mani) /\ mani' \in Seq(ManiType) /\ mani \in Seq(ManiType)
      BY <2>1, <1>8, ManiSyncFacts DEF TypeInv, DiskTypes
    <3> QED BY <3>1, <2>1
  <2>3. CASE Goto("mani_rot")
    BY <2>1, <2>2, <2>3, <1>8 DEF Goto, ManiSync, Frame, shared, Control, ToWrite, Written, Early,
        Returns
  <2>4. CASE Return
    <3>1. \/ pc' = "top" /\ then' = <<>>
          \/ pc' = "remove" /\ then' \in {<<"top">>, <<"mani", "top">>}
          \/ ToWrite /\ pc' = "write" /\ then' \in {<<"pop">>, <<"lsn">>}
      BY <2>1, <2>4, ReturnPairs, Pairs DEF ToWrite
    <3>2. /\ ~Written' /\ (ToWrite' => ToWrite) /\ ~Early' /\ then' \in Returns(pc')
          /\ pc' \notin {"sync", "rot_sync", "rot_new", "start"} /\ (pc' = "write" => ToWrite)
      BY <3>1, Singles, Pairs DEF ToWrite, Written, Early, Returns, Packers
    <3> QED BY <3>1, <3>2, <2>1, <2>2, <1>8 DEF ManiSync, Frame, shared, Control, Early
  <2> QED BY <2>3, <2>4, <1>8 DEF ManiSync
<1>9. CASE ManiRot
  <2>1. pc = "mani_rot" /\ mani # <<>> /\ data # <<>>
    BY <1>9 DEF ManiRot, Control, Early
  <2>2. CASE Len(mani) >= 2
    <3>1. mani' = Tail(mani) /\ UNCHANGED <<pc, then>>
      BY <2>2, <1>9 DEF ManiRot
    <3>2. mani' # <<>>
      <4>1. mani \in Seq(ManiType) /\ Len(mani) > 1
        BY <2>2 DEF TypeInv, DiskTypes
      <4> QED BY <4>1, <3>1, TailLeft
    <3> QED BY <3>1, <3>2, <1>9 DEF ManiRot, Frame, shared, Control, ToWrite, Written, Early
  <2>3. CASE ~(Len(mani) >= 2)
    <3>1. Return /\ mani' # <<>>
      BY <2>3, <1>9 DEF ManiRot, TypeInv, DiskTypes
    <3>2. \/ pc' = "top" /\ then' = <<>>
          \/ pc' = "remove" /\ then' \in {<<"top">>, <<"mani", "top">>}
          \/ ToWrite /\ pc' = "write" /\ then' \in {<<"pop">>, <<"lsn">>}
      BY <2>1, <3>1, ReturnPairs, Pairs DEF ToWrite
    <3>3. /\ ~Written' /\ (ToWrite' => ToWrite) /\ ~Early' /\ then' \in Returns(pc')
          /\ pc' \notin {"sync", "rot_sync", "rot_new", "start"} /\ (pc' = "write" => ToWrite)
      BY <3>2, Singles, Pairs DEF ToWrite, Written, Early, Returns, Packers
    <3> QED BY <3>1, <3>2, <3>3, <2>1, <1>9 DEF ManiRot, Frame, shared, Control, Early
  <2> QED BY <2>2, <2>3
<1> QED
  BY <1>1, <1>2, <1>3, <1>4, <1>5, <1>6, <1>7, <1>8, <1>9

-----------------------------------------------------------------------------
(* LSNs given out, popped and packed.                                      *)

LEMMA NumbersCallers ==
  ASSUME TypeInv, Control, Numbers,
         \/ Open \/ Stop \/ Halt
         \/ \E s \in Sizes : AppendEntry(s)
         \/ \E a \in Advancers : AdvStore(a) \/ \E l \in 1 .. MaxLsn : AdvLoad(a, l)
  PROVE  Numbers'
<1>1. CASE Open
  <2>1. /\ pc = "closed" /\ pc' = "open_data" /\ then' = then /\ ring' = ring /\ ring = <<>>
        /\ cur' = cur /\ cur.lsn = 0 /\ cur = NoEntry /\ then = <<>>
        /\ max_lsn' = Restored.max /\ next_lsn' = Restored.max + 1 /\ Restored.max \in 0 .. MaxLsn
    BY <1>1, RestoredTypes, ReturnsTo DEF Open, Goto, packing, Numbers, Control, Early, TypeInv,
        FlusherTypes
  <2>2. Len(ring') = 0 /\ DOMAIN ring' = {}
    BY <2>1
  <2>3. Popped' = Restored.max /\ Finished' = Restored.max
    BY <2>1, <2>2, ConstantTypes DEF Popped, Finished
  <2> QED BY <2>1, <2>2, <2>3, ConstantTypes DEF Numbers
<1>2. CASE Stop
  BY <1>2 DEF Stop, packing, history, Numbers, Popped, Finished
<1>3. CASE Halt
  BY <1>3, NoWriterControl DEF Halt
<1>4. CASE \E s \in Sizes : AppendEntry(s)
  <2>1. PICK s \in Sizes : AppendEntry(s)
    BY <1>4
  <2>2. /\ ring' = Append(ring, next_lsn) /\ next_lsn' = next_lsn + 1
        /\ size' = [size EXCEPT ![next_lsn] = s]
        /\ cur' = cur /\ pc' = pc /\ then' = then /\ max_lsn' = max_lsn
        /\ max_flushed_lsn' = max_flushed_lsn
    BY <2>1 DEF AppendEntry, packing
  <2>3. ring \in Seq(1 .. MaxLsn) /\ next_lsn \in Int /\ Len(ring) \in Nat /\ running
    BY <2>1, ConstantTypes DEF TypeInv, CallerTypes, AppendEntry
  <2>4. /\ Len(ring') = Len(ring) + 1 /\ DOMAIN ring' = 1 .. Len(ring) + 1
        /\ \A i \in 1 .. Len(ring) : ring'[i] = ring[i]
        /\ ring'[Len(ring) + 1] = next_lsn /\ DOMAIN ring = 1 .. Len(ring)
    BY <2>2, <2>3
  <2>5. Popped' = Popped /\ Finished' = Finished /\ Popped \in Int
    BY <2>2, <2>3, <2>4 DEF Popped, Finished
  <2>6. pc # "closed" /\ Popped >= 0
    BY <2>3 DEF Control, Numbers
  <2>7. \A i \in DOMAIN ring' : ring'[i] = Popped' + i
    <3>1. next_lsn = Popped + (Len(ring) + 1)
      BY <2>3 DEF Popped
    <3> QED BY <3>1, <2>3, <2>4, <2>5, <2>6 DEF Numbers
  <2>8. cur.lsn # 0 => size'[cur.lsn] = size[cur.lsn]
    <3>1. cur.lsn # 0 => cur.lsn = Popped
      BY DEF Numbers
    <3>2. Popped # next_lsn
      BY <2>3 DEF Popped
    <3> QED BY <3>1, <3>2, <2>2 DEF TypeInv, HistoryTypes
  <2> QED BY <2>2, <2>5, <2>6, <2>7, <2>8 DEF Numbers
<1>5. CASE \E a \in Advancers : AdvStore(a)
  BY <1>5 DEF AdvStore, packing, history, Numbers, Popped, Finished
<1>6. CASE \E a \in Advancers : \E l \in 1 .. MaxLsn : AdvLoad(a, l)
  BY <1>6 DEF AdvLoad, packing, Numbers, Popped, Finished
<1> QED
  BY <1>1, <1>2, <1>3, <1>4, <1>5, <1>6

\* Nothing is popped or packed: only the place matters.
LEMMA NumbersElsewhere ==
  ASSUME Numbers, next_lsn' = next_lsn, ring' = ring, cur' = cur, size' = size,
         pc # "closed", pc' # "closed",
         max_lsn' = max_lsn \/ max_lsn' = Finished, Finished \in Int,
         pc \notin {"open_data", "start"} /\ max_flushed_lsn' = max_flushed_lsn,
         pc' \notin {"open_data", "start"},
         cur.lsn = 0 \/ (pc' \notin {"top", "quiet", "lsn"}
                         /\ (then' = <<>> \/ then'[Len(then')] = "pop"))
  PROVE  Numbers'
<1>1. Popped' = Popped /\ Finished' = Finished
  BY DEF Popped, Finished
<1> QED
  BY <1>1 DEF Numbers

LEMMA NumbersPacking ==
  ASSUME TypeInv, Control, Numbers,
         \/ OpenData \/ Start \/ Top \/ Pop \/ OpenBlock \/ PutRest \/ PutPart \/ FillZero
         \/ TimeFlush \/ NoTimeFlush \/ Lsn
  PROVE  Numbers'
<1>t. ring \in Seq(1 .. MaxLsn) /\ next_lsn \in Int /\ Len(ring) \in Nat /\ Popped \in Int
      /\ Finished \in Int /\ max_lsn \in Int
  BY ConstantTypes DEF TypeInv, CallerTypes, Popped, Finished
<1>1. CASE OpenData
  BY <1>1 DEF OpenData, Goto, packing, history, Numbers, Popped, Finished
<1>2. CASE Start
  <2>1. /\ pc = "start" /\ pc' = "remove" /\ cur' = cur /\ cur.lsn = 0 /\ size' = size
        /\ max_lsn = Popped /\ max_flushed_lsn' = max_lsn /\ UNCHANGED shared
    BY <1>2 DEF Start, Call, history, Numbers
  <2>2. Popped' = Popped /\ Finished' = Popped /\ Finished = Popped
    BY <2>1 DEF Popped, Finished, shared
  <2> QED BY <2>1, <2>2 DEF Numbers, shared
<1>3. CASE Top
  <2>1. CASE running
    BY <2>1, <1>3 DEF Top, Goto, shared, packing, history, Numbers, Popped, Finished
  <2>2. CASE ~running
    BY <2>2, <1>3, NoWriterControl DEF Top
  <2> QED BY <2>1, <2>2
<1>4. CASE Pop
  <2>1. /\ pc = "pop" /\ cur = NoEntry /\ cur.lsn = 0 /\ size' = size /\ max_lsn' = max_lsn
        /\ next_lsn' = next_lsn /\ max_flushed_lsn' = max_flushed_lsn /\ then' = then /\ then = <<>>
        /\ pc' \in {"pop", "quiet"}
    BY <1>4, ReturnsTo DEF Pop, Goto, history, NoEntry, TypeInv, FlusherTypes
  <2>2. CASE ring = <<>>
    <3>1. ring' = ring /\ cur' = cur
      BY <2>2, <1>4 DEF Pop
    <3> QED BY <3>1, <2>1, <1>t, NumbersElsewhere
  <2>3. CASE ring # <<>>
    <3>1. /\ cur' = [lsn |-> Head(ring), left |-> size[Head(ring)], split |-> FALSE]
          /\ ring' = Tail(ring) /\ pc' = "pop"
      BY <2>1, <2>3, <1>4 DEF Pop
    <3>2. /\ Head(ring) \in 1 .. MaxLsn /\ Head(ring) = ring[1] /\ Tail(ring) \in Seq(1 .. MaxLsn)
          /\ Len(Tail(ring)) = Len(ring) - 1
          /\ \A i \in 1 .. Len(ring) - 1 : Tail(ring)[i] = ring[i + 1]
      BY <2>3, <1>t, HeadTail
    <3>3. Len(ring) > 0 /\ DOMAIN ring = 1 .. Len(ring)
      BY <2>3, <1>t
    <3>4. /\ cur'.lsn = Popped + 1 /\ cur'.lsn # 0 /\ cur'.left = size'[cur'.lsn] /\ ~cur'.split
      BY <3>1, <3>2, <3>3, <2>1, <1>t DEF Numbers
    <3>5. Popped' = Popped + 1
      BY <3>1, <3>2, <2>1, <1>t DEF Popped
    <3>6. Finished' = Finished
      BY <3>4, <3>5, <2>1, <1>t DEF Finished
    <3>7. \A i \in DOMAIN ring' : ring'[i] = Popped' + i
      <4>1. DOMAIN ring' = 1 .. Len(ring) - 1
        BY <3>1, <3>2
      <4>2. \A i \in 1 .. Len(ring) - 1 : ring[i + 1] = Popped + (i + 1)
        BY <2>1, <3>3, <1>t DEF Numbers
      <4> QED BY <4>1, <4>2, <3>1, <3>2, <3>5, <1>t
    <3>8. Popped >= 0 /\ max_lsn <= Finished /\ max_flushed_lsn = Finished
      BY <2>1 DEF Numbers
    <3> QED BY <2>1, <3>1, <3>4, <3>5, <3>6, <3>7, <3>8, <1>t DEF Numbers
  <2> QED BY <2>2, <2>3
<1>5. CASE OpenBlock
  <2>1. then = <<>> /\ pc = "pop"
    BY <1>5, ReturnsTo DEF OpenBlock, TypeInv, FlusherTypes
  <2> QED BY <2>1, <1>5, <1>t, NumbersElsewhere DEF OpenBlock, shared, history
<1>6. ASSUME NEW B \in Seq(BlockType), NEW u, NEW f \in 0 .. MaxLsn,
             NEW split \in BOOLEAN, FlushIfDue(B, u, f, split), pc = "pop"
      PROVE  /\ UNCHANGED <<shared, history>>
             /\ \/ pc' = "flush" /\ then' = <<"pop">>
                \/ pc' = "pop" /\ then' = <<>>
  <2>1. then = <<>>
    BY <1>6, ReturnsTo DEF TypeInv, FlusherTypes
  <2>2. min_lsn \in Nat
    BY DEF TypeInv, CallerTypes
  <2>3. /\ UNCHANGED <<shared, min, next_no_use_lsn, history>>
        /\ \/ pc' = "flush" /\ then' = <<"pop">> \o then /\ rotatable' = ~split
           \/ pc' = pc /\ then' = then
    BY <1>6, <2>2, FlushIfDueFacts
  <2> QED BY <1>6, <2>1, <2>3, Singles
<1>7. CASE PutRest
  <2> DEFINE k == IF cur.split THEN "Last" ELSE "Full"
  <2>1. /\ pc = "pop" /\ cur # NoEntry /\ buf # <<>>
        /\ FlushIfDue(WithPart(k), used + 1 + cur.left, cur.lsn, FALSE)
        /\ cur' = NoEntry /\ max_flushed_lsn' = cur.lsn
    BY <1>7 DEF PutRest, Packing, AtBoundary
  <2>2. k \in {"Full", "First", "Middle", "Last"} /\ k \notin {"First", "Middle"}
    OBVIOUS
  <2> HIDE DEF k
  <2>3. NextPart(k) \in PartType /\ cur.lsn \in 0 .. MaxLsn /\ cur.lsn # 0
    BY <2>1, <2>2, NextPartType
  <2>4. WithPart(k) \in Seq(BlockType)
    BY <2>1, <2>3, WithPartFacts DEF TypeInv
  <2>5. /\ UNCHANGED <<shared, history>>
        /\ \/ pc' = "flush" /\ then' = <<"pop">>
           \/ pc' = "pop" /\ then' = <<>>
    BY <2>1, <2>3, <2>4, <1>6
  <2>6. cur'.lsn = 0 /\ Popped' = Popped /\ Finished' = Popped /\ Finished = Popped - 1
        /\ cur.lsn = Popped
    BY <2>1, <2>3, <2>5 DEF NoEntry, Popped, Finished, shared, Numbers
  <2> QED BY <2>1, <2>3, <2>5, <2>6, <1>t DEF Numbers, shared
<1>8. CASE PutPart
  <2> DEFINE k == IF cur.split THEN "Middle" ELSE "First"
  <2>1. /\ pc = "pop" /\ cur # NoEntry /\ buf # <<>> /\ 1 + cur.left > Room /\ 1 < Room
        /\ FlushIfDue(WithPart(k), BlockUnits, cur.lsn, TRUE)
        /\ cur' = [cur EXCEPT !.left = @ - (Room - 1), !.split = TRUE]
        /\ max_flushed_lsn' = max_flushed_lsn
    BY <1>8 DEF PutPart, Packing, AtBoundary
  <2>2. k \in {"Full", "First", "Middle", "Last"}
    OBVIOUS
  <2> HIDE DEF k
  <2>3. /\ NextPart(k) \in PartType /\ cur.lsn \in 0 .. MaxLsn /\ cur.lsn # 0
        /\ cur.left \in Nat /\ size[cur.lsn] \in Nat /\ cur.left <= size[cur.lsn] /\ Room \in Nat
    BY <2>1, <2>2, NextPartType
  <2>4. WithPart(k) \in Seq(BlockType)
    BY <2>1, <2>3, WithPartFacts DEF TypeInv
  <2>5. /\ UNCHANGED <<shared, history>>
        /\ \/ pc' = "flush" /\ then' = <<"pop">>
           \/ pc' = "pop" /\ then' = <<>>
    BY <2>1, <2>3, <2>4, <1>6
  <2>6. cur'.lsn = cur.lsn /\ cur'.left = cur.left - (Room - 1) /\ cur'.split
    BY <2>1 DEF TypeInv, FlusherTypes
  <2>7. 0 < cur'.left /\ cur'.left < size[cur.lsn]
    BY <2>1, <2>3, <2>6
  <2>8. Popped' = Popped /\ Finished' = Finished
    BY <2>5, <2>6 DEF Popped, Finished, shared
  <2> QED BY <2>1, <2>3, <2>5, <2>6, <2>7, <2>8 DEF Numbers, shared, history
<1>9. CASE FillZero
  <2>1. /\ pc = "pop" /\ FlushIfDue(buf, BlockUnits, last_filled_lsn, cur.split)
        /\ cur' = cur /\ max_flushed_lsn' = max_flushed_lsn
    BY <1>9 DEF FillZero, Packing
  <2>2. buf \in Seq(BlockType) /\ last_filled_lsn \in 0 .. MaxLsn /\ cur.split \in BOOLEAN
    BY DEF TypeInv, FlusherTypes
  <2>3. /\ UNCHANGED <<shared, history>>
        /\ \/ pc' = "flush" /\ then' = <<"pop">>
           \/ pc' = "pop" /\ then' = <<>>
    BY <2>1, <2>2, <1>6
  <2>4. then' = <<>> \/ then'[Len(then')] = "pop"
    BY <2>3
  <2> QED BY <2>1, <2>3, <2>4, <1>t, NumbersElsewhere DEF shared, history
<1>10. CASE TimeFlush
  <2>1. cur.lsn = 0 /\ pc = "quiet" /\ pc' = "flush"
    BY <1>10 DEF TimeFlush, Numbers, Call
  <2> QED BY <2>1, <1>10, <1>t, NumbersElsewhere DEF TimeFlush, shared, history
<1>11. CASE NoTimeFlush
  <2>1. cur.lsn = 0 /\ pc = "quiet" /\ pc' = "lsn"
    BY <1>11 DEF NoTimeFlush, Numbers, Goto
  <2> QED BY <2>1, <1>11, <1>t, NumbersElsewhere DEF NoTimeFlush, shared, history, packing
<1>12. CASE Lsn
  <2>1. cur.lsn = 0 /\ pc = "lsn"
    BY <1>12 DEF Lsn, Numbers
  <2>2. pc' \in {"top", "mani"}
    BY <1>12, Singles, Pairs DEF Lsn, Goto, Call
  <2> QED BY <2>1, <2>2, <1>12, <1>t, NumbersElsewhere DEF Lsn, shared, history, packing
<1> QED
  BY <1>1, <1>2, <1>3, <1>4, <1>5, <1>7, <1>8, <1>9, <1>10, <1>11, <1>12

LEMMA NumbersWriting ==
  ASSUME TypeInv, Control, Numbers,
         \/ Flush \/ Write \/ Sync \/ RotSync \/ RotNew \/ RemoveRot \/ Flushed
         \/ Mani \/ ManiSync \/ ManiRot
  PROVE  Numbers'
<1>t. Finished \in Int /\ pc \notin {"open_data", "start", "closed"}
  BY SMTT(60), ConstantTypes DEF TypeInv, CallerTypes, Popped, Finished, Flush, Write, Sync, RotSync,
                       RotNew, RemoveRot, Flushed, Mani, ManiSync, ManiRot
<1>1. /\ next_lsn' = next_lsn /\ ring' = ring /\ cur' = cur /\ size' = size
      /\ max_flushed_lsn' = max_flushed_lsn
  BY DEF Flush, Write, Sync, RotSync, SyncData, RotNew, RemoveRot, Flushed, Mani, ManiSync, ManiRot,
         Frame, shared
<1>2. max_lsn' = max_lsn \/ max_lsn' = Finished
  <2>1. CASE Flushed
    BY <2>1, <1>t DEF Flushed, Numbers
  <2>2. CASE ~Flushed
    BY <2>2 DEF Flush, Write, Sync, RotSync, SyncData, RotNew, RemoveRot, Mani, ManiSync, ManiRot,
                Frame, shared
  <2> QED BY <2>1, <2>2
<1>3. /\ pc' \notin {"open_data", "start", "closed"}
      /\ cur.lsn = 0 \/ (pc' \notin {"top", "quiet", "lsn"}
                         /\ (then' = <<>> \/ then'[Len(then')] = "pop"))
  <2>1. CASE cur.lsn = 0
    <3>1. Return => pc' \notin {"open_data", "start", "closed"}
      <4>1. pc \in {"remove", "flushed", "mani_sync", "mani_rot"} /\ Return =>
               pc' \notin {"open_data", "start", "closed"}
        BY ReturnPairs
      <4> QED BY <4>1 DEF Flush, Write, Sync, RotSync, RotNew, RemoveRot, Flushed, Mani, ManiSync,
          ManiRot,
                         Goto, Call, Return
    <3> QED BY <2>1, <3>1, <1>t DEF Flush, Write, Sync, RotSync, RotNew, RemoveRot, Flushed, Mani,
        ManiSync, ManiRot,
                               Goto, Call
  <2>2. CASE cur.lsn # 0
    <3>1. then # <<>> /\ then[Len(then)] = "pop"
      <4>1. then # <<>>
        BY SMTT(60), ReturnsTo DEF TypeInv, FlusherTypes, Flush, Write, Sync, RotSync, RotNew,
            RemoveRot, Flushed, Mani,
                         ManiSync, ManiRot, Packers
      <4> QED BY <4>1, <2>2 DEF Numbers
    <3>2. then \in {<<"pop">>, <<"flushed", "pop">>, <<"write", "pop">>}
      <4>1. then \in {<<"pop">>, <<"lsn">>, <<"top">>, <<"mani", "top">>, <<"flushed", "pop">>,
                       <<"flushed", "lsn">>, <<"remove", "top">>, <<"remove", "mani", "top">>,
                       <<"write", "pop">>, <<"write", "lsn">>}
        BY ReturnsTo DEF TypeInv, FlusherTypes, Flush, Write, Sync, RotSync, RotNew, RemoveRot,
                         Flushed, Mani, ManiSync, ManiRot, Packers
      <4> QED BY <4>1, <3>1
    <3>3. then' \in {<<>>, <<"pop">>, <<"flushed", "pop">>, <<"write", "pop">>}
          /\ pc' \notin {"open_data", "start", "closed", "top", "quiet", "lsn"}
      <4>1. CASE Flush
        <5>1. then = <<"pop">>
          BY <4>1, <3>2, ReturnsTo DEF TypeInv, FlusherTypes, Flush, Packers
        <5> QED BY <5>1, <4>1, Pairs DEF Flush, Goto, Call
      <4>2. CASE RotNew
        <5>1. then = <<"pop">>
          BY <4>2, <3>2, ReturnsTo DEF TypeInv, FlusherTypes, RotNew, Packers
        <5> QED BY <5>1, <4>2, Pairs DEF RotNew, Call
      <4>3. CASE Write \/ Sync \/ RotSync \/ Mani
        BY <4>3, <3>2 DEF Write, Sync, RotSync, Mani, Goto
      <4>4. ASSUME Return, pc \in {"remove", "flushed", "mani_sync", "mani_rot"}
            PROVE  then' \in {<<>>, <<"pop">>} /\ pc' \in {"pop", "flushed", "write"}
        <5>1. pc' = Head(then) /\ then' = Tail(then)
          BY <4>4 DEF Return
        <5>2. CASE then = <<"pop">>
          BY <5>1, <5>2, Singles
        <5>3. CASE then = <<"flushed", "pop">>
          BY <5>1, <5>3, Pairs
        <5>4. CASE then = <<"write", "pop">>
          BY <5>1, <5>4, Pairs
        <5> QED BY <3>2, <5>2, <5>3, <5>4
      <4>5. CASE RemoveRot \/ Flushed \/ ManiSync \/ ManiRot
        BY <4>4, <4>5, <3>2 DEF RemoveRot, Flushed, ManiSync, ManiRot, Goto
      <4> QED BY <4>1, <4>2, <4>3, <4>5
    <3>4. then' = <<>> \/ then'[Len(then')] = "pop"
      BY <3>3
    <3> QED BY <3>3, <3>4
  <2> QED BY <2>1, <2>2
<1> QED
  BY <1>t, <1>1, <1>2, <1>3, NumbersElsewhere

-----------------------------------------------------------------------------
(* The first needed LSN, and what is synced.                               *)

LEMMA NeedTypes ==
  ASSUME TypeInv
  PROVE  Need \in Nat /\ Need >= 1 /\ Need >= needed /\ (needed' = needed => Need' = Need)
BY LargerIs DEF Need, TypeInv, HistoryTypes

LEMMA AdvancedCallers ==
  ASSUME TypeInv, Control, Numbers, Advanced,
         \/ Open \/ Stop \/ Halt
         \/ \E s \in Sizes : AppendEntry(s)
         \/ \E a \in Advancers : AdvStore(a) \/ \E l \in 1 .. MaxLsn : AdvLoad(a, l)
  PROVE  Advanced'
<1>n. Need \in Nat /\ Need >= 1 /\ (needed' = needed => Need' = Need)
  BY NeedTypes
<1>1. CASE Open
  <2>1. Need' = Need /\ data' = data /\ buf' = buf /\ adv' = adv /\ min' = min
        /\ min_lsn' = Restored.min /\ Restored.ok
    BY <1>1, <1>n DEF Open, packing, lsns
  <2>2. Restored.min <= Need
    <3>1. CASE Restored.min = 0
      BY <3>1, <1>n
    <3>2. CASE /\ mani # <<>> /\ Last(mani).entries # <<>>
               /\ data # <<>> /\ Last(data).blocks # <<>>
               /\ Restored.min \in {1, Last(Last(mani).entries), Last(Last(data).blocks).wmin}
      <4> DEFINE B == data[Len(data)].blocks e == mani[Len(mani)].entries
      <4>1. /\ B \in Seq(BlockType) /\ e \in Seq(Nat) /\ Last(data).blocks = B
            /\ Last(mani).entries = e
            /\ Len(data) \in DOMAIN data /\ Len(mani) \in DOMAIN mani
        BY <3>2, LastTypes DEF TypeInv, DiskTypes
      <4>2. B # <<>> /\ e # <<>>
        BY <3>2, <4>1
      <4>3. \A j \in DOMAIN B : B[j].wmin <= Need
        BY <4>1 DEF Advanced
      <4>4. \A j \in DOMAIN e : e[j] <= Need
        BY <4>1 DEF Advanced
      <4> HIDE DEF B, e
      <4>5. Len(B) \in DOMAIN B /\ Last(B) = B[Len(B)] /\ Len(e) \in DOMAIN e /\ Last(e) = e[Len(e)]
        BY <4>1, <4>2 DEF Last
      <4> QED BY <3>2, <4>1, <4>3, <4>4, <4>5, <1>n
    <3> QED BY <3>1, <3>2, <2>1, RestoredCases DEF TypeInv
  <2>3. \A i \in DOMAIN mani' : \A j \in DOMAIN mani'[i].entries : mani'[i].entries[j] <= Need
    <3>1. CASE mani = <<>>
      <4>1. mani' = <<NewMani>> /\ NewMani.entries = <<>>
        BY <3>1, <1>1 DEF Open, NewMani
      <4> QED BY <4>1
    <3>2. CASE mani # <<>>
      BY <3>2, <1>1 DEF Open, Advanced
    <3> QED BY <3>1, <3>2
  <2> QED BY <2>1, <2>2, <2>3 DEF Advanced
<1>2. CASE Stop
  BY <1>2, <1>n DEF Stop, disk, packing, lsns, history, Advanced
<1>3. CASE Halt
  <2>1. /\ Need' = Need /\ buf' = <<>> /\ min_lsn' = 0 /\ min' = 0
        /\ adv' = [a \in Advancers |-> 0]
    BY <1>3, <1>n DEF Halt, NoWriter, history
  <2>2. ASSUME NEW i \in DOMAIN data', NEW j \in DOMAIN data'[i].blocks
        PROVE  data'[i].blocks[j].wmin <= Need
    <3>1. CASE data = <<>>
      BY <3>1, <1>3 DEF Halt, Advanced
    <3>2. CASE data # <<>>
      <4>1. PICK n \in 0 .. Len(Last(data).blocks) :
              data' \in Seq(RotType) /\ CutBehind(data, data', n)
        BY <1>3, <3>2, HaltData DEF TypeInv
      <4> DEFINE A == data[Len(data)].blocks
      <4>2. A \in Seq(BlockType) /\ Last(data).blocks = A /\ Len(A) \in Nat
        BY <3>2, LastTypes DEF TypeInv
      <4>3. DOMAIN data' = 1 .. Len(data) /\ DOMAIN data = 1 .. Len(data)
        BY <4>1 DEF CutBehind, TypeInv, DiskTypes
      <4>4. CASE i < Len(data)
        BY <4>1, <4>3, <4>4 DEF CutBehind, Advanced
      <4>5. CASE i = Len(data)
        <5>1. data'[i].blocks = SubSeq(A, 1, n) /\ n \in 0 .. Len(A)
          BY <4>1, <4>2, <4>5 DEF CutBehind
        <5>2. \A m \in DOMAIN A : A[m].wmin <= Need
          BY <4>3, <4>5 DEF Advanced
        <5> HIDE DEF A
        <5>3. j \in 1 .. n /\ j \in DOMAIN A /\ data'[i].blocks[j] = A[j]
          BY <5>1, <4>2
        <5> QED BY <5>2, <5>3
      <4> QED BY <4>3, <4>4, <4>5 DEF TypeInv, DiskTypes
    <3> QED BY <3>1, <3>2
  <2>3. ASSUME NEW i \in DOMAIN mani', NEW j \in DOMAIN mani'[i].entries
        PROVE  mani'[i].entries[j] <= Need
    <3>1. mani # <<>>
      BY <1>3 DEF Halt, Control
    <3> DEFINE e == mani[Len(mani)].entries
    <3>2. PICK n \in 0 .. Len(Last(mani).entries) :
           /\ mani' \in Seq(ManiType) /\ Len(mani') = Len(mani)
           /\ \A m \in 1 .. Len(mani) : m < Len(mani) => mani'[m] = mani[m]
           /\ mani'[Len(mani)].entries = SubSeq(Last(mani).entries, 1, n)
      BY <1>3, <3>1, HaltMani DEF TypeInv
    <3>3. e \in Seq(Nat) /\ Last(mani).entries = e /\ Len(e) \in Nat
      BY <3>1, LastTypes DEF TypeInv
    <3>4. DOMAIN mani' = 1 .. Len(mani) /\ DOMAIN mani = 1 .. Len(mani)
      BY <3>2 DEF TypeInv, DiskTypes
    <3>5. CASE i < Len(mani)
      BY <3>2, <3>4, <3>5 DEF Advanced
    <3>6. CASE i = Len(mani)
      <4>1. mani'[i].entries = SubSeq(e, 1, n) /\ n \in 0 .. Len(e)
        BY <3>2, <3>3, <3>6
      <4>2. \A m \in DOMAIN e : e[m] <= Need
        BY <3>4, <3>6 DEF Advanced
      <4> HIDE DEF e
      <4>3. j \in DOMAIN e /\ mani'[i].entries[j] = e[j]
        BY <4>1, <3>3
      <4> QED BY <4>2, <4>3
    <3> QED BY <3>4, <3>5, <3>6 DEF TypeInv, DiskTypes
  <2>4. \A j \in DOMAIN buf' : buf'[j].wmin <= Need
    BY <2>1
  <2> QED BY <2>1, <2>2, <2>3, <2>4, <1>n DEF Advanced
<1>4. CASE \E s \in Sizes : AppendEntry(s)
  BY <1>4, <1>n DEF AppendEntry, disk, packing, lsns, Advanced
<1>5. CASE \E a \in Advancers : AdvStore(a)
  BY <1>5, <1>n DEF AdvStore, disk, packing, lsns, history, Advanced, TypeInv, CallerTypes
<1>6. CASE \E a \in Advancers : \E l \in 1 .. MaxLsn : AdvLoad(a, l)
  <2>1. PICK a \in Advancers, l \in 1 .. MaxLsn : AdvLoad(a, l)
    BY <1>6
  <2>2. /\ needed' = Larger(needed, l + 1) /\ needed \in Nat /\ l + 1 \in Nat
        /\ adv' = [adv EXCEPT ![a] = l + 1] /\ adv \in [Advancers -> Nat]
    BY <2>1, ConstantTypes DEF AdvLoad, TypeInv, HistoryTypes, CallerTypes
  <2>3. Need' >= Need /\ Need' >= l + 1 /\ Need' \in Nat
    BY <2>2 DEF Need, Larger
  <2>4. /\ min_lsn' = min_lsn /\ min' = min /\ data' = data /\ mani' = mani /\ buf' = buf
    BY <2>1 DEF AdvLoad, disk, packing, lsns
  <2>5. min_lsn \in Nat /\ min \in Nat /\ min_lsn <= Need' /\ min <= Need'
    BY SMTT(60), <2>3, <1>n DEF TypeInv, CallerTypes, FlusherTypes, Advanced
  <2>6. \A b \in Advancers : adv'[b] <= Need'
    <3> SUFFICES ASSUME NEW b \in Advancers PROVE adv'[b] <= Need'
      OBVIOUS
    <3>1. adv[b] <= Need /\ adv[b] \in Nat
      BY <2>2 DEF Advanced
    <3> QED BY <3>1, <2>2, <2>3, <1>n
  <2>7. ASSUME NEW i \in DOMAIN data, NEW j \in DOMAIN data[i].blocks
        PROVE  data[i].blocks[j].wmin <= Need'
    <3>1. i \in 1 .. Len(data) /\ data[i].blocks \in Seq(BlockType)
      BY RotTypes DEF TypeInv, DiskTypes
    <3>2. j \in 1 .. Len(data[i].blocks)
      BY <3>1
    <3>3. data[i].blocks[j].wmin \in Nat /\ data[i].blocks[j].wmin <= Need
      BY <3>1, <3>2, BlockTypes DEF Advanced
    <3> QED BY <3>3, <2>3, <1>n
  <2>8. ASSUME NEW i \in DOMAIN mani, NEW j \in DOMAIN mani[i].entries
        PROVE  mani[i].entries[j] <= Need'
    <3>1. mani[i] \in ManiType
      BY DEF TypeInv, DiskTypes
    <3>2. mani[i].entries \in Seq(Nat)
      BY <3>1 DEF ManiType
    <3>3. mani[i].entries[j] \in Nat /\ mani[i].entries[j] <= Need
      BY <3>2 DEF Advanced
    <3> QED BY <3>3, <2>3, <1>n
  <2>9. ASSUME NEW j \in DOMAIN buf PROVE buf[j].wmin <= Need'
    <3>1. j \in 1 .. Len(buf) /\ buf \in Seq(BlockType)
      BY DEF TypeInv, FlusherTypes
    <3>2. buf[j].wmin \in Nat /\ buf[j].wmin <= Need
      BY <3>1, BlockTypes DEF Advanced
    <3> QED BY <3>2, <2>3, <1>n
  <2> QED BY <2>4, <2>5, <2>6, <2>7, <2>8, <2>9 DEF Advanced
<1> QED
  BY <1>1, <1>2, <1>3, <1>4, <1>5, <1>6

LEMMA AdvancedPacking ==
  ASSUME TypeInv, Control, Numbers, Advanced,
         \/ OpenData \/ Start \/ Top \/ Pop \/ OpenBlock \/ PutRest \/ PutPart \/ FillZero
         \/ TimeFlush \/ NoTimeFlush \/ Lsn
  PROVE  Advanced'
<1>n. Need \in Nat /\ Need >= 1 /\ (needed' = needed => Need' = Need)
  BY NeedTypes
<1>1. CASE OpenData
  <2>1. Need' = Need /\ mani' = mani /\ buf' = buf /\ adv' = adv /\ min' = min /\ min_lsn' = min_lsn
    BY <1>1, <1>n DEF OpenData, packing, lsns, history
  <2>2. \A i \in DOMAIN data' : \A j \in DOMAIN data'[i].blocks : data'[i].blocks[j].wmin <= Need
    <3>1. CASE data = <<>>
      <4>1. data' = <<NewRot(1)>> /\ NewRot(1).blocks = <<>>
        BY <3>1, <1>1 DEF OpenData, NewRot
      <4> QED BY <4>1
    <3>2. CASE data # <<>>
      BY <3>2, <1>1 DEF OpenData, Advanced
    <3> QED BY <3>1, <3>2
  <2> QED BY <2>1, <2>2 DEF Advanced
<1>2. CASE Start
  BY <1>2, <1>n DEF Start, disk, shared, history, Advanced
<1>3. CASE Top
  <2>1. CASE running
    BY <2>1, <1>3, <1>n DEF Top, disk, shared, packing, lsns, history, Advanced
  <2>2. CASE ~running
    <3>1. /\ data' = data /\ mani' = mani /\ needed' = needed /\ buf' = <<>> /\ min_lsn' = 0
          /\ min' = 0
          /\ adv' = [a \in Advancers |-> 0]
      BY <2>2, <1>3 DEF Top, NoWriter, disk, history
    <3> QED BY <3>1, <1>n DEF Advanced
  <2> QED BY <2>1, <2>2
<1>4. CASE Pop
  BY <1>4, <1>n DEF Pop, disk, lsns, history, Advanced
<1>5. CASE OpenBlock
  <2> DEFINE F == Fixed(buf, last_filled_lsn) N == NewBlock(cur.lsn)
  <2>1. buf \in Seq(BlockType) /\ last_filled_lsn \in 0 .. MaxLsn /\ min_lsn \in Nat
    BY DEF TypeInv, FlusherTypes, CallerTypes
  <2>2. /\ F \in Seq(BlockType) /\ Len(F) = Len(buf)
        /\ \A j \in 1 .. Len(buf) : /\ j < Len(buf) => F[j] = buf[j]
                                    /\ j = Len(buf) => F[j].wmin = min_lsn
    BY <2>1, FixedFacts
  <2>3. N.wmin = 0 /\ buf' = Append(F, N)
    BY <1>5 DEF OpenBlock, NewBlock
  <2> HIDE DEF F, N
  <2>4. ASSUME NEW j \in DOMAIN buf' PROVE buf'[j].wmin <= Need
    <3> DEFINE G == Append(F, N) n == Len(buf)
    <3>0. /\ DOMAIN buf = 1 .. n /\ n \in Nat
          /\ DOMAIN G = 1 .. n + 1 /\ G[n + 1] = N
          /\ \A i \in 1 .. n : G[i] = F[i]
      BY SMTT(60), <2>1, <2>2
    <3>1. buf' = G /\ j \in 1 .. n + 1
      BY <3>0, <2>3
    <3>5. \A i \in 1 .. n : /\ i < n => F[i] = buf[i]
                            /\ i = n => F[i].wmin = min_lsn
      BY <2>2
    <3> HIDE DEF G, n
    <3>2. CASE j = n + 1
      BY <3>1, <3>2, <3>0, <2>3, <1>n
    <3>3. CASE j < n
      <4>1. j \in 1 .. n
        BY <3>0, <3>1, <3>3
      <4>2. buf'[j] = F[j]
        BY <4>1, <3>0, <3>1
      <4>3. F[j] = buf[j]
        BY <4>1, <3>0, <3>3, <3>5
      <4> QED BY <4>1, <4>2, <4>3, <3>0 DEF Advanced
    <3>4. CASE j = n
      <4>1. buf'[j].wmin = min_lsn
        BY <3>0, <3>1, <3>4, <3>5
      <4> QED BY <4>1 DEF Advanced
    <3> QED BY <3>0, <3>1, <3>2, <3>3, <3>4
  <2> QED BY <2>4, <1>5, <1>n DEF OpenBlock, disk, shared, history, Advanced
<1>6. ASSUME NEW B \in Seq(BlockType), NEW u, NEW f \in 0 .. MaxLsn,
             NEW split \in BOOLEAN, FlushIfDue(B, u, f, split),
             Len(B) = Len(buf), \A j \in 1 .. Len(buf) : B[j].wmin = buf[j].wmin
      PROVE  Advanced'
  <2>1. min_lsn \in Nat /\ buf \in Seq(BlockType)
    BY DEF TypeInv, CallerTypes, FlusherTypes
  <2>2. /\ buf' \in Seq(BlockType) /\ Len(buf') = Len(B)
        /\ \A j \in 1 .. Len(B) : buf'[j].wmin \in {B[j].wmin, min_lsn}
        /\ data' = data /\ mani' = mani
        /\ UNCHANGED <<shared, min, next_no_use_lsn, history>>
    BY <2>1, <1>6, FlushIfDueFacts
  <2>3. \A j \in DOMAIN buf' : buf'[j].wmin <= Need
    <3>1. DOMAIN buf' = DOMAIN buf /\ DOMAIN buf = 1 .. Len(buf)
      BY <1>6, <2>1, <2>2
    <3> QED BY <3>1, <2>2, <1>6 DEF Advanced
  <2> QED BY <2>2, <2>3, <1>n DEF shared, history, Advanced
<1>7. ASSUME NEW k \in {"Full", "First", "Middle", "Last"}, pc = "pop", cur # NoEntry, buf # <<>>,
             k \in {"First", "Middle"} => 1 < Room,
             NEW u, NEW split \in BOOLEAN, FlushIfDue(WithPart(k), u, cur.lsn, split)
      PROVE  Advanced'
  <2>1. NextPart(k) \in PartType /\ cur.lsn \in 0 .. MaxLsn
    BY <1>7, NextPartType
  <2>2. /\ WithPart(k) \in Seq(BlockType) /\ Len(WithPart(k)) = Len(buf)
        /\ \A j \in 1 .. Len(buf) : WithPart(k)[j].wmin = buf[j].wmin
    BY <2>1, <1>7, WithPartFacts DEF TypeInv
  <2> QED BY <2>1, <2>2, <1>6, <1>7
<1>8. CASE PutRest
  <2> DEFINE k == IF cur.split THEN "Last" ELSE "Full"
  <2>1. /\ pc = "pop" /\ cur # NoEntry /\ buf # <<>>
        /\ FlushIfDue(WithPart(k), used + 1 + cur.left, cur.lsn, FALSE)
    BY <1>8 DEF PutRest, Packing, AtBoundary
  <2>2. k \in {"Full", "First", "Middle", "Last"} /\ k \notin {"First", "Middle"}
    OBVIOUS
  <2> HIDE DEF k
  <2> QED BY <2>1, <2>2, <1>7
<1>9. CASE PutPart
  <2> DEFINE k == IF cur.split THEN "Middle" ELSE "First"
  <2>1. /\ pc = "pop" /\ cur # NoEntry /\ buf # <<>> /\ 1 < Room
        /\ FlushIfDue(WithPart(k), BlockUnits, cur.lsn, TRUE)
    BY <1>9 DEF PutPart, Packing, AtBoundary
  <2>2. k \in {"Full", "First", "Middle", "Last"}
    OBVIOUS
  <2> HIDE DEF k
  <2> QED BY <2>1, <2>2, <1>7
<1>10. CASE FillZero
  <2>1. FlushIfDue(buf, BlockUnits, last_filled_lsn, cur.split)
    BY <1>10 DEF FillZero
  <2>2. buf \in Seq(BlockType) /\ last_filled_lsn \in 0 .. MaxLsn /\ cur.split \in BOOLEAN
    BY DEF TypeInv, FlusherTypes
  <2> QED BY <2>1, <2>2, <1>6
<1>11. CASE TimeFlush
  <2>1. buf \in Seq(BlockType) /\ last_filled_lsn \in 0 .. MaxLsn /\ min_lsn \in Nat
    BY DEF TypeInv, FlusherTypes, CallerTypes
  <2>2. buf' = Fixed(buf, last_filled_lsn)
    BY <1>11 DEF TimeFlush
  <2>3. /\ buf' \in Seq(BlockType) /\ Len(buf') = Len(buf)
        /\ \A j \in 1 .. Len(buf) : /\ j < Len(buf) => buf'[j] = buf[j]
                                    /\ j = Len(buf) => buf'[j].wmin = min_lsn
    BY <2>1, <2>2, FixedFacts
  <2>4. DOMAIN buf' = 1 .. Len(buf) /\ DOMAIN buf = 1 .. Len(buf) /\ Len(buf) \in Nat
    BY <2>1, <2>3
  <2>5. ASSUME NEW j \in DOMAIN buf' PROVE buf'[j].wmin <= Need
    <3>1. CASE j < Len(buf)
      BY <3>1, <2>3, <2>4 DEF Advanced
    <3>2. CASE j = Len(buf)
      <4>1. buf'[j].wmin = min_lsn
        BY <3>2, <2>3, <2>4
      <4> QED BY <4>1 DEF Advanced
    <3> QED BY <3>1, <3>2, <2>4
  <2> QED BY <2>5, <1>11, <1>n DEF TimeFlush, disk, shared, history, Advanced
<1>12. CASE NoTimeFlush
  BY <1>12, <1>n DEF NoTimeFlush, disk, shared, packing, lsns, history, Advanced
<1>13. CASE Lsn
  BY <1>13, <1>n DEF Lsn, disk, shared, packing, history, Advanced
<1> QED
  BY <1>1, <1>2, <1>3, <1>4, <1>5, <1>8, <1>9, <1>10, <1>11, <1>12, <1>13

LEMMA AdvancedWriting ==
  ASSUME TypeInv, Control, Numbers, Advanced,
         \/ Flush \/ Write \/ Sync \/ RotSync \/ RotNew \/ RemoveRot \/ Flushed
         \/ Mani \/ ManiSync \/ ManiRot
  PROVE  Advanced'
<1>n. Need \in Nat /\ Need >= 1 /\ (needed' = needed => Need' = Need)
  BY NeedTypes
<1>1. CASE Flush
  BY <1>1, <1>n DEF Flush, disk, Frame, shared, Advanced
<1>2. CASE Write
  <2>1. /\ data # <<>> /\ buf \in Seq(BlockType) /\ data \in Seq(RotType)
        /\ DOMAIN data = 1 .. Len(data) /\ DOMAIN buf = 1 .. Len(buf)
    BY <1>2 DEF Write, Control, Early, TypeInv, DiskTypes, FlusherTypes
  <2> DEFINE m == Len(data) A == data[m].blocks
  <2>2. /\ data' = With(data, buf) /\ Len(data') = m /\ data' \in Seq(RotType)
        /\ \A i \in 1 .. m : i < m => data'[i] = data[i]
    BY <2>1, <1>2, WriteData, WithFacts
  <2>3. /\ Len(data'[m].blocks) = Len(A) + Len(buf) /\ Len(A) \in Nat /\ Len(buf) \in Nat
        /\ \A j \in 1 .. Len(A) : data'[m].blocks[j] = A[j]
        /\ \A j \in 1 .. Len(buf) : data'[m].blocks[Len(A) + j] = buf[j]
    BY <2>1, <2>2, WithBlocks
  <2>4. ASSUME NEW i \in DOMAIN data', NEW j \in DOMAIN data'[i].blocks
        PROVE  data'[i].blocks[j].wmin <= Need
    <3>1. i \in 1 .. m /\ data'[i].blocks \in Seq(BlockType)
      BY <2>2, RotTypes
    <3>2. CASE i < m
      BY <3>1, <3>2, <2>1, <2>2 DEF Advanced
    <3>3. CASE i = m
      <4>1. j \in 1 .. Len(A) + Len(buf) /\ m \in DOMAIN data /\ A \in Seq(BlockType)
        BY SMTT(60), <3>1, <3>3, <2>1, <2>3, RotTypes
      <4>2. CASE j <= Len(A)
        <5>1. j \in DOMAIN A /\ data'[i].blocks[j] = A[j]
          BY <4>1, <4>2, <3>3, <2>3
        <5> QED BY <5>1, <4>1 DEF Advanced
      <4>3. CASE j > Len(A)
        <5>1. j - Len(A) \in 1 .. Len(buf) /\ Len(A) + (j - Len(A)) = j
          BY <4>1, <4>3, <2>3
        <5>2. data'[i].blocks[j] = buf[j - Len(A)]
          BY <5>1, <3>3, <2>3
        <5> QED BY <5>1, <5>2, <2>1 DEF Advanced
      <4> QED BY <4>1, <4>2, <4>3, <2>3
    <3> QED BY <3>1, <3>2, <3>3, <2>1
  <2> QED BY <2>4, <1>2, <1>n DEF Write, Frame, shared, lsns, Advanced
<1>3. CASE Sync \/ RotSync
  <2>1. SyncData /\ data # <<>>
    BY <1>3 DEF Sync, RotSync, Control, Early
  <2>2. /\ data' \in Seq(RotType) /\ Len(data') = Len(data)
        /\ \A i \in 1 .. Len(data) : data'[i].blocks = data[i].blocks
    BY <2>1, SyncFacts DEF TypeInv
  <2>3. DOMAIN data' = 1 .. Len(data) /\ DOMAIN data = 1 .. Len(data)
    BY <2>2 DEF TypeInv, DiskTypes
  <2>4. \A i \in DOMAIN data' : \A j \in DOMAIN data'[i].blocks : data'[i].blocks[j].wmin <= Need
    BY <2>2, <2>3 DEF Advanced
  <2> QED BY <2>1, <2>4, <1>n DEF SyncData, Frame, shared, lsns, Advanced
<1>4. CASE RotNew
  <2> DEFINE N == NewRot(last_filled_lsn + 1)
  <2>1. data' = Append(data, N) /\ N.blocks = <<>> /\ N \in RotType
    BY <1>4, ConstantTypes DEF RotNew, NewRot, RotType, TypeInv, FlusherTypes
  <2> HIDE DEF N
  <2>2. /\ DOMAIN data' = 1 .. Len(data) + 1 /\ DOMAIN data = 1 .. Len(data) /\ Len(data) \in Nat
        /\ \A i \in 1 .. Len(data) : data'[i] = data[i]
        /\ data'[Len(data) + 1] = N
    BY <2>1 DEF TypeInv, DiskTypes
  <2>3. \A i \in DOMAIN data' : \A j \in DOMAIN data'[i].blocks : data'[i].blocks[j].wmin <= Need
    BY <2>1, <2>2 DEF Advanced
  <2> QED BY <2>3, <1>4, <1>n DEF RotNew, Frame, shared, lsns, Advanced
<1>5. CASE RemoveRot
  <2>1. \A i \in DOMAIN data' : \A j \in DOMAIN data'[i].blocks : data'[i].blocks[j].wmin <= Need
    <3>1. CASE data' = data
      BY <3>1 DEF Advanced
    <3>2. CASE Len(data) > 1 /\ data' = Tail(data)
      <4>1. /\ data' \in Seq(RotType) /\ Len(data') = Len(data) - 1
            /\ \A i \in 1 .. Len(data) - 1 : data'[i] = data[i + 1]
        BY <3>2, TailLeft DEF TypeInv, DiskTypes
      <4>2. \A i \in DOMAIN data' : data'[i] = data[i + 1] /\ i + 1 \in DOMAIN data
        BY <4>1 DEF TypeInv, DiskTypes
      <4> QED BY <4>2 DEF Advanced
    <3> QED BY <3>1, <3>2, <1>5 DEF RemoveRot
  <2> QED BY <2>1, <1>5, <1>n DEF RemoveRot, Frame, shared, Advanced
<1>6. CASE Flushed
  BY <1>6, <1>n DEF Flushed, disk, lsns, Advanced
<1>7. CASE Mani \/ ManiSync
  <2>1. mani # <<>> /\ min \in Nat /\ DOMAIN mani = 1 .. Len(mani) /\ min <= Need
    BY <1>7 DEF Mani, ManiSync, Control, TypeInv, DiskTypes, FlusherTypes, Advanced
  <2> DEFINE m == Len(mani) e == mani[m].entries
  <2>2. e \in Seq(Nat) /\ m \in 1 .. m /\ m \in Nat
    BY <2>1, LastTypes DEF TypeInv
  <2>3. \A j \in DOMAIN e : e[j] <= Need
    BY <2>1, <2>2 DEF Advanced
  <2>4. /\ mani' \in Seq(ManiType) /\ Len(mani') = m
        /\ \A i \in 1 .. m : i < m => mani'[i] = mani[i]
        /\ mani'[m].entries \in {e, Append(e, min)}
    <3>1. CASE Mani
      BY <3>1, <2>1, ManiFacts DEF TypeInv
    <3>2. CASE ManiSync
      BY <3>2, <2>1, <2>2, ManiSyncFacts DEF TypeInv
    <3> QED BY <3>1, <3>2, <1>7
  <2> HIDE DEF e
  <2>5. \A j \in DOMAIN Append(e, min) : Append(e, min)[j] <= Need
    <3>1. /\ DOMAIN Append(e, min) = 1 .. Len(e) + 1 /\ DOMAIN e = 1 .. Len(e) /\ Len(e) \in Nat
          /\ \A j \in 1 .. Len(e) : Append(e, min)[j] = e[j]
          /\ Append(e, min)[Len(e) + 1] = min
      BY <2>1, <2>2
    <3> QED BY <3>1, <2>1, <2>3
  <2>6. \A i \in DOMAIN mani' : \A j \in DOMAIN mani'[i].entries : mani'[i].entries[j] <= Need
    <3> SUFFICES ASSUME NEW i \in DOMAIN mani', NEW j \in DOMAIN mani'[i].entries
                 PROVE  mani'[i].entries[j] <= Need
      OBVIOUS
    <3>1. i \in 1 .. m
      BY <2>4
    <3>2. CASE i < m
      BY <3>1, <3>2, <2>1, <2>4 DEF Advanced
    <3>3. CASE i = m
      BY <3>3, <2>3, <2>4, <2>5
    <3> QED BY <3>1, <3>2, <3>3
  <2> QED BY <2>6, <1>7, <1>n DEF Mani, ManiSync, Frame, shared, lsns, Advanced
<1>8. CASE ManiRot
  <2>1. \A i \in DOMAIN mani' : \A j \in DOMAIN mani'[i].entries : mani'[i].entries[j] <= Need
    <3>1. CASE Len(mani) >= 2 /\ mani' = Tail(mani)
      <4>1. /\ mani' \in Seq(ManiType) /\ Len(mani') = Len(mani) - 1
            /\ \A i \in 1 .. Len(mani) - 1 : mani'[i] = mani[i + 1]
        BY <3>1, TailLeft DEF TypeInv, DiskTypes
      <4>2. \A i \in DOMAIN mani' : mani'[i] = mani[i + 1] /\ i + 1 \in DOMAIN mani
        BY <4>1 DEF TypeInv, DiskTypes
      <4> QED BY <4>2 DEF Advanced
    <3>2. CASE mani' = Append(mani, NewMani)
      <4>1. NewMani.entries = <<>>
        BY DEF NewMani
      <4>2. /\ DOMAIN mani' = 1 .. Len(mani) + 1 /\ DOMAIN mani = 1 .. Len(mani)
            /\ Len(mani) \in Nat
            /\ \A i \in 1 .. Len(mani) : mani'[i] = mani[i]
            /\ mani'[Len(mani) + 1] = NewMani
        BY <3>2 DEF TypeInv, DiskTypes
      <4> QED BY <4>1, <4>2 DEF Advanced
    <3> QED BY <3>1, <3>2, <1>8 DEF ManiRot
  <2> QED BY <2>1, <1>8, <1>n DEF ManiRot, Frame, shared, Advanced
<1> QED
  BY <1>1, <1>2, <1>3, <1>4, <1>5, <1>6, <1>7, <1>8

LEMMA SyncedElsewhere ==
  ASSUME Synced, data' = data, pc \in {"sync", "rot_sync"} => pc' = pc
  PROVE  Synced'
BY DEF Synced

LEMMA SyncedCallers ==
  ASSUME TypeInv, Control, Synced,
         \/ Open \/ Stop \/ Halt
         \/ \E s \in Sizes : AppendEntry(s)
         \/ \E a \in Advancers : AdvStore(a) \/ \E l \in 1 .. MaxLsn : AdvLoad(a, l)
  PROVE  Synced'
<1>1. CASE Open
  BY <1>1, SyncedElsewhere DEF Open, Goto
<1>2. CASE Stop
  BY <1>2, SyncedElsewhere DEF Stop, disk
<1>3. CASE Halt
  <2>1. CASE data = <<>>
    <3>1. data' = <<>>
      BY <2>1, <1>3 DEF Halt
    <3> QED BY <3>1 DEF Synced
  <2>2. CASE data # <<>>
    <3> DEFINE m == Len(data)
    <3>1. PICK n \in 0 .. Len(Last(data).blocks) :
            data' \in Seq(RotType) /\ CutBehind(data, data', n) /\ data'[m].synced = n
      BY <2>2, <1>3, HaltData DEF TypeInv
    <3>2. m \in 1 .. m /\ Last(data) = data[m] /\ data[m].blocks \in Seq(BlockType)
      BY <2>2, LastTypes DEF TypeInv
    <3>3. Len(data'[m].blocks) = n
      <4>1. data'[m].blocks = SubSeq(data[m].blocks, 1, n)
        BY <3>1 DEF CutBehind
      <4> QED BY <4>1, <3>1, <3>2
    <3>4. /\ DOMAIN data' = 1 .. m /\ DOMAIN data = 1 .. m
          /\ \A i \in 1 .. m : i < m => data'[i] = data[i]
      BY <3>1 DEF CutBehind, TypeInv, DiskTypes
    <3> HIDE DEF m
    <3>5. ASSUME NEW i \in DOMAIN data' PROVE data'[i].synced = Len(data'[i].blocks)
      <4>1. CASE i < m
        BY <4>1, <3>4 DEF Synced, m
      <4>2. CASE i = m
        BY <4>2, <3>1, <3>3 DEF m
      <4> QED BY <4>1, <4>2, <3>2, <3>4
    <3> QED BY <3>5 DEF Synced
  <2> QED BY <2>1, <2>2
<1>4. CASE \E s \in Sizes : AppendEntry(s)
  BY <1>4, SyncedElsewhere DEF AppendEntry, disk
<1>5. CASE \E a \in Advancers : AdvStore(a)
  BY <1>5, SyncedElsewhere DEF AdvStore, disk
<1>6. CASE \E a \in Advancers : \E l \in 1 .. MaxLsn : AdvLoad(a, l)
  BY <1>6, SyncedElsewhere DEF AdvLoad, disk
<1> QED
  BY <1>1, <1>2, <1>3, <1>4, <1>5, <1>6

LEMMA SyncedPacking ==
  ASSUME TypeInv, Control, Synced,
         \/ OpenData \/ Start \/ Top \/ Pop \/ OpenBlock \/ PutRest \/ PutPart \/ FillZero
         \/ TimeFlush \/ NoTimeFlush \/ Lsn
  PROVE  Synced'
<1>1. CASE OpenData
  <2>1. CASE data = <<>>
    <3>1. data' = <<NewRot(1)>> /\ NewRot(1).synced = Len(NewRot(1).blocks)
      BY <2>1, <1>1 DEF OpenData, NewRot
    <3> QED BY <3>1 DEF Synced
  <2>2. CASE data # <<>>
    BY <2>2, <1>1, SyncedElsewhere DEF OpenData
  <2> QED BY <2>1, <2>2
<1>2. CASE Start
  BY <1>2, SyncedElsewhere DEF Start, disk
<1>3. CASE Top
  BY <1>3, SyncedElsewhere DEF Top, disk
<1>4. CASE Pop
  BY <1>4, SyncedElsewhere DEF Pop, disk
<1>5. CASE OpenBlock
  BY <1>5, SyncedElsewhere DEF OpenBlock, disk
<1>6. CASE PutRest \/ PutPart \/ FillZero
  BY <1>6, SyncedElsewhere DEF PutRest, PutPart, FillZero, FlushIfDue, disk, Packing
<1>7. CASE TimeFlush
  BY <1>7, SyncedElsewhere DEF TimeFlush, disk
<1>8. CASE NoTimeFlush \/ Lsn
  BY <1>8, SyncedElsewhere DEF NoTimeFlush, Lsn, disk
<1> QED
  BY <1>1, <1>2, <1>3, <1>4, <1>5, <1>6, <1>7, <1>8

LEMMA SyncedWriting ==
  ASSUME TypeInv, Control, Synced,
         \/ Flush \/ Write \/ Sync \/ RotSync \/ RotNew \/ RemoveRot \/ Flushed
         \/ Mani \/ ManiSync \/ ManiRot
  PROVE  Synced'
<1>1. CASE Flush \/ Flushed \/ Mani \/ ManiSync \/ ManiRot
  BY <1>1, SyncedElsewhere DEF Flush, Flushed, Mani, ManiSync, ManiRot, disk
<1>2. CASE Write
  <2>1. /\ data # <<>> /\ buf \in Seq(BlockType) /\ data \in Seq(RotType)
        /\ DOMAIN data = 1 .. Len(data)
    BY <1>2 DEF Write, Control, Early, TypeInv, DiskTypes, FlusherTypes
  <2>2. /\ data' = With(data, buf) /\ Len(data') = Len(data) /\ DOMAIN data' = 1 .. Len(data)
        /\ \A i \in 1 .. Len(data) : i < Len(data) => data'[i] = data[i]
    BY <2>1, <1>2, WriteData, WithFacts
  <2>3. pc' \in {"sync", "rot_sync"}
    BY <1>2 DEF Write, Goto
  <2> QED BY <2>1, <2>2, <2>3 DEF Synced
<1>3. CASE Sync \/ RotSync
  <2>1. SyncData /\ data # <<>> /\ DOMAIN data = 1 .. Len(data) /\ Len(data) \in Nat
    BY <1>3 DEF Sync, RotSync, Control, Early, TypeInv, DiskTypes
  <2>2. /\ data' \in Seq(RotType) /\ Len(data') = Len(data) /\ DOMAIN data' = 1 .. Len(data)
        /\ \A i \in 1 .. Len(data) : /\ i < Len(data) => data'[i] = data[i]
                                     /\ data'[i].blocks = data[i].blocks
        /\ data'[Len(data)].synced = Len(data[Len(data)].blocks)
    BY <2>1, SyncFacts DEF TypeInv
  <2>3. ASSUME NEW i \in DOMAIN data' PROVE data'[i].synced = Len(data'[i].blocks)
    <3>1. CASE i < Len(data)
      BY <3>1, <2>1, <2>2 DEF Synced
    <3>2. CASE i = Len(data)
      BY <3>2, <2>2
    <3> QED BY <3>1, <3>2, <2>1, <2>2
  <2> QED BY <2>3 DEF Synced
<1>4. CASE RotNew
  <2> DEFINE N == NewRot(last_filled_lsn + 1)
  <2>1. data' = Append(data, N) /\ N.synced = Len(N.blocks) /\ pc = "rot_new"
    BY <1>4 DEF RotNew, NewRot
  <2> HIDE DEF N
  <2>2. /\ DOMAIN data' = 1 .. Len(data) + 1 /\ DOMAIN data = 1 .. Len(data) /\ Len(data) \in Nat
        /\ \A i \in 1 .. Len(data) : data'[i] = data[i]
        /\ data'[Len(data) + 1] = N
    BY <2>1 DEF TypeInv, DiskTypes
  <2> QED BY <2>1, <2>2 DEF Synced
<1>5. CASE RemoveRot
  <2>1. CASE UNCHANGED data
    BY <2>1, <1>5, SyncedElsewhere DEF RemoveRot
  <2>2. CASE Len(data) > 1 /\ data' = Tail(data)
    <3>1. /\ data' \in Seq(RotType) /\ Len(data') = Len(data) - 1
          /\ \A i \in 1 .. Len(data) - 1 : data'[i] = data[i + 1]
      BY <2>2, TailLeft DEF TypeInv, DiskTypes
    <3>2. \A i \in DOMAIN data' : data'[i] = data[i + 1] /\ i + 1 \in DOMAIN data
      BY <3>1 DEF TypeInv, DiskTypes
    <3>3. pc = "remove"
      BY <1>5 DEF RemoveRot
    <3> QED BY <3>2, <3>3 DEF Synced
  <2> QED BY <2>1, <2>2, <1>5 DEF RemoveRot
<1> QED
  BY <1>1, <1>2, <1>3, <1>4, <1>5

-----------------------------------------------------------------------------
(* The manifest.                                                           *)

LEMMA OfOne ==
  ASSUME NEW S, NEW s \in Seq(S), s # <<>>, Len(s) < 2
  PROVE  Len(s) = 1 /\ DOMAIN s = {1}
<1>1. Len(s) \in Nat /\ DOMAIN s = 1 .. Len(s)
  OBVIOUS
<1>2. Len(s) # 0
  OBVIOUS
<1>3. Len(s) = 1
  BY <1>1, <1>2
<1>4. 1 .. 1 = {1}
  OBVIOUS
<1> QED
  BY <1>1, <1>3, <1>4

LEMMA TailOfTwo ==
  ASSUME NEW S, NEW s \in Seq(S), Len(s) >= 2, Len(s) <= 2
  PROVE  Len(s) = 2 /\ Tail(s) # <<>> /\ Len(Tail(s)) = 1 /\ Tail(s)[1] = s[2]
<1>0. Len(s) \in Nat
  OBVIOUS
<1> DEFINE n == Len(s)
<1>1. n = 2
  <2> HIDE DEF n
  <2>1. n \in Nat /\ n >= 2 /\ n <= 2
    BY <1>0 DEF n
  <2> QED BY <2>1
<1>2. /\ Len(Tail(s)) = Len(s) - 1 /\ Tail(s) # <<>>
      /\ \A i \in 1 .. Len(s) - 1 : Tail(s)[i] = s[i + 1]
  BY TailLeft
<1> QED
  BY <1>1, <1>2

LEMMA AppendToOne ==
  ASSUME NEW S, NEW s \in Seq(S), s # <<>>, Len(s) < 2, NEW e
  PROVE  Len(s) = 1 /\ Append(s, e) # <<>> /\ Len(Append(s, e)) = 2 /\ Append(s, e)[2] = e
<1>1. Len(s) = 1
  BY OfOne
<1>2. Len(Append(s, e)) = Len(s) + 1 /\ Append(s, e)[Len(s) + 1] = e
  OBVIOUS
<1>3. Append(s, e) # <<>>
  OBVIOUS
<1> QED
  BY <1>1, <1>2, <1>3

LEMMA ManifestKept ==
  ASSUME Control, Manifest, mani' = mani, pc # "closed", pc # "mani_sync",
         pc' \notin {"mani_sync", "mani_rot"}, Fresh => Beginning'
  PROVE  Manifest'
<1>1. mani # <<>>
  BY DEF Control
<1> QED
  BY <1>1 DEF Manifest, Fresh

LEMMA ManifestCallers ==
  ASSUME TypeInv, Control, Manifest,
         \/ Open \/ Stop \/ Halt
         \/ \E s \in Sizes : AppendEntry(s)
         \/ \E a \in Advancers : AdvStore(a) \/ \E l \in 1 .. MaxLsn : AdvLoad(a, l)
  PROVE  Manifest'
<1>r. running \/ (\E a \in Advancers : adv[a] # 0) => mani # <<>>
  BY DEF Control, Manifest
<1>1. CASE Open
  <2>1. /\ pc' = "open_data" /\ data' = data /\ adv' = adv /\ acked' = acked
        /\ Restored.ok /\ max_lsn' = Restored.max /\ min_lsn' = Restored.min /\ pc = "closed"
    BY <1>1 DEF Open, Goto
  <2>2. CASE mani = <<>>
    <3>1. mani' = <<NewMani>> /\ NewMani = [entries |-> <<>>, synced |-> 0]
      BY <2>2, <1>1 DEF Open, NewMani
    <3>2. mani' # <<>> /\ Len(mani') = 1 /\ Last(mani') = NewMani
      BY <3>1 DEF Last
    <3>3. Restored.min = 0 /\ Restored.max = 0
      BY <2>1, <2>2, RestoredCases DEF TypeInv
    <3>4. Beginning'
      BY <2>1, <2>2, <3>3 DEF Beginning, Manifest
    <3> QED BY <3>1, <3>2, <3>4, <2>1 DEF Manifest
  <2>3. CASE mani # <<>>
    <3>1. mani' = mani
      BY <2>3, <1>1 DEF Open
    <3>2. ASSUME Fresh PROVE Beginning'
      <4>1. Beginning /\ Last(mani) = mani[1] /\ Last(mani).synced = Len(Last(mani).entries)
        BY <3>2, <2>3, <2>1 DEF Manifest, Fresh, Last
      <4>2. Last(mani).entries = <<>>
        BY <4>1, <3>2, <2>3, LastTypes DEF Fresh, TypeInv
      <4>3. Restored.min = 0 /\ Restored.max = 0
        BY <4>2, <2>1, RestoredCases DEF TypeInv
      <4> QED BY <4>1, <4>3, <2>1 DEF Beginning
    <3> QED BY <3>1, <3>2, <2>1, <2>3 DEF Manifest, Fresh
  <2> QED BY <2>2, <2>3
<1>2. CASE Stop
  BY <1>2, <1>r DEF Stop, disk, history, Manifest, Fresh, Beginning
<1>3. CASE Halt
  <2>1. mani # <<>> /\ Last(mani) = mani[Len(mani)] /\ Len(mani) \in Nat
    BY <1>3, LastTypes DEF Halt, Control, TypeInv
  <2>2. PICK n \in 0 .. Len(Last(mani).entries) :
         /\ mani' \in Seq(ManiType) /\ Len(mani') = Len(mani)
         /\ mani'[Len(mani)].entries = SubSeq(Last(mani).entries, 1, n)
         /\ mani'[Len(mani)].synced = n /\ Last(mani).synced <= n
    BY <1>3, <2>1, HaltMani DEF TypeInv
  <2>3. Last(mani).entries \in Seq(Nat) /\ Last(mani).synced \in Nat
    BY <2>1, LastTypes DEF TypeInv
  <2>4. Last(mani').synced = Len(Last(mani').entries) /\ mani' # <<>>
    <3>1. Len(SubSeq(Last(mani).entries, 1, n)) = n
      BY <2>2, <2>3
    <3>2. Last(mani') = mani'[Len(mani)] /\ mani' # <<>>
      BY <2>1, <2>2 DEF Last
    <3> QED BY <3>1, <3>2, <2>2
  <2>5. pc' = "closed" /\ acked' = acked /\ max_lsn' = 0 /\ min_lsn' = 0
        /\ \A a \in Advancers : adv'[a] = 0
    BY <1>3 DEF Halt, NoWriter, history
  <2>6. ASSUME Fresh' PROVE Beginning'
    <3>1. Len(mani) = 1 /\ n = 0
      BY <2>6, <2>2 DEF Fresh
    <3>2. Fresh
      BY <3>1, <2>1, <2>2, <2>3 DEF Fresh
    <3>3. Beginning
      BY <3>2 DEF Manifest
    <3>4. Len(data') <= 1 /\ \A i \in DOMAIN data' : data'[i].first = 1 /\ data'[i].blocks = <<>>
      <4>1. CASE data = <<>>
        BY <4>1, <1>3 DEF Halt
      <4>2. CASE data # <<>>
        <5>1. PICK k \in 0 .. Len(Last(data).blocks) :
                data' \in Seq(RotType) /\ CutBehind(data, data', k)
          BY <4>2, <1>3, HaltData DEF TypeInv
        <5>6. Len(data) <= 1 /\ data \in Seq(RotType)
          BY <3>3 DEF Beginning, TypeInv, DiskTypes
        <5>7. Len(data) = 1 /\ DOMAIN data = {1}
          <6>1. Len(data) < 2
            BY <5>6
          <6> QED BY <6>1, <5>6, <4>2, OfOne
        <5>2. /\ Len(data) = 1 /\ Last(data) = data[1]
              /\ data[1].first = 1 /\ data[1].blocks = <<>>
          BY <5>7, <3>3 DEF Beginning, Last
        <5>3. k = 0
          BY <5>1, <5>2
        <5>4. DOMAIN data' = {1} /\ Len(data') = 1
          BY <5>1, <5>2 DEF CutBehind
        <5>5. data'[1].first = 1 /\ data'[1].blocks = SubSeq(<<>>, 1, 0)
          BY <5>1, <5>2, <5>3 DEF CutBehind
        <5>8. SubSeq(<<>>, 1, 0) = <<>>
          OBVIOUS
        <5> QED
          <6>1. data'[1].blocks = <<>>
            BY <5>5, <5>8
          <6> QED BY <5>4, <5>5, <6>1
      <4> QED BY <4>1, <4>2
    <3> QED BY <3>3, <3>4, <2>5 DEF Beginning
  <2> QED BY <2>1, <2>2, <2>4, <2>5, <2>6 DEF Manifest
<1>4. CASE \E s \in Sizes : AppendEntry(s)
  BY <1>4, <1>r DEF AppendEntry, disk, Manifest, Fresh, Beginning
<1>5. CASE \E a \in Advancers : AdvStore(a)
  <2>1. PICK a \in Advancers : AdvStore(a)
    BY <1>5
  <2>2. mani # <<>> /\ ~Fresh /\ mani' = mani /\ pc' = pc
    BY <2>1, <1>r DEF AdvStore, disk, Manifest, Beginning
  <2> QED BY <2>2 DEF Manifest, Fresh
<1>6. CASE \E a \in Advancers : \E l \in 1 .. MaxLsn : AdvLoad(a, l)
  <2>1. PICK a \in Advancers, l \in 1 .. MaxLsn : AdvLoad(a, l)
    BY <1>6
  <2>2. mani # <<>> /\ mani' = mani /\ pc' = pc /\ l <= max_lsn
    BY <2>1, <1>r DEF AdvLoad, disk
  <2>3. ~Fresh
    BY <2>2 DEF Manifest, Beginning
  <2> QED BY <2>2, <2>3 DEF Manifest, Fresh
<1> QED
  BY <1>1, <1>2, <1>3, <1>4, <1>5, <1>6

LEMMA ManifestPacking ==
  ASSUME TypeInv, Control, Manifest,
         \/ OpenData \/ Start \/ Top \/ Pop \/ OpenBlock \/ PutRest \/ PutPart \/ FillZero
         \/ TimeFlush \/ NoTimeFlush \/ Lsn
  PROVE  Manifest'
<1>1. CASE OpenData
  <2>1. ASSUME Fresh PROVE Beginning'
    <3>1. Beginning
      BY <2>1 DEF Manifest
    <3>2. CASE data = <<>>
      <4>1. data' = <<NewRot(1)>> /\ NewRot(1).first = 1 /\ NewRot(1).blocks = <<>>
        BY <3>2, <1>1 DEF OpenData, NewRot
      <4>2. Len(data') <= 1 /\ DOMAIN data' = {1} /\ data'[1] = NewRot(1)
        BY <4>1
      <4> QED BY <3>1, <4>1, <4>2, <1>1 DEF OpenData, Goto, history, Beginning
    <3>3. CASE data # <<>>
      BY <3>1, <3>3, <1>1 DEF OpenData, Goto, history, Beginning
    <3> QED BY <3>2, <3>3
  <2> QED BY <2>1, <1>1, ManifestKept DEF OpenData, Goto
<1>2. CASE Start
  <2>1. ASSUME Fresh PROVE Beginning'
    <3>1. Beginning
      BY <2>1 DEF Manifest
    <3>2. then = <<>>
      BY <1>2, ReturnsTo DEF Start, Control, TypeInv, FlusherTypes
    <3>3. pc' = "remove" /\ then' = <<"mani", "top">> \o <<>>
      BY <3>1, <3>2, <1>2 DEF Start, Call, Beginning
    <3> QED BY <3>1, <3>3, <1>2, Pairs DEF Start, disk, shared, history, Beginning
  <2> QED BY <2>1, <1>2, ManifestKept DEF Start, Call, disk
<1>3. CASE pc \in {"top", "pop", "quiet", "lsn"}
  <2>1. then = <<>>
    BY <1>3, ReturnsTo DEF TypeInv, FlusherTypes
  <2>2. ~Fresh
    BY <1>3, <2>1 DEF Manifest, Beginning
  <2>3. CASE Top
    BY <2>2, <2>3, ManifestKept DEF Top, Goto, NoWriter, disk
  <2>4. CASE Pop
    BY <2>2, <2>4, ManifestKept DEF Pop, Goto, disk
  <2>5. CASE OpenBlock
    BY <2>2, <2>5, ManifestKept DEF OpenBlock, disk
  <2>6. CASE PutRest \/ PutPart \/ FillZero
    <3>1. mani' = mani /\ pc = "pop" /\ pc' \in {"pop", "flush"}
      BY <2>6 DEF PutRest, PutPart, FillZero, FlushIfDue, Packing, Call, disk
    <3> QED BY <2>2, <3>1, ManifestKept
  <2>7. CASE TimeFlush
    BY <2>2, <2>7, ManifestKept DEF TimeFlush, Call, disk
  <2>8. CASE NoTimeFlush
    BY <2>2, <2>8, ManifestKept DEF NoTimeFlush, Goto, disk
  <2>9. CASE Lsn
    <3>1. mani' = mani /\ pc = "lsn"
      BY <2>9 DEF Lsn, disk
    <3>2. Head(<<"top">>) = "top" /\ Head(<<"mani", "top">>) = "mani"
      BY Singles, Pairs
    <3>3. pc' \in {"top", "mani"}
      BY <3>2, <2>9 DEF Lsn, Goto, Call
    <3> QED BY <2>2, <3>1, <3>3, ManifestKept
  <2> QED BY <1>3, <2>3, <2>4, <2>5, <2>6, <2>7, <2>8, <2>9 DEF OpenData, Start
<1>4. \/ OpenData \/ Start \/ pc \in {"top", "pop", "quiet", "lsn"}
  BY DEF Top, Pop, OpenBlock, PutRest, PutPart, FillZero, Packing, TimeFlush, NoTimeFlush, Lsn
<1> QED
  BY <1>1, <1>2, <1>3, <1>4

LEMMA ManifestWriting ==
  ASSUME TypeInv, Control, Manifest,
         \/ Flush \/ Write \/ Sync \/ RotSync \/ RotNew \/ RemoveRot \/ Flushed
         \/ Mani \/ ManiSync \/ ManiRot
  PROVE  Manifest'
<1>1. CASE Flush
  BY <1>1, ManifestKept DEF Flush, disk, Manifest, Beginning, Goto, Call
<1>2. CASE Write
  BY <1>2, ManifestKept DEF Write, Manifest, Beginning, Goto
<1>3. CASE Sync \/ RotSync \/ RotNew
  BY <1>3, ManifestKept DEF Sync, RotSync, RotNew, SyncData, Manifest, Beginning, Goto, Call
<1>4. CASE RemoveRot
  <2>1. mani' = mani /\ pc = "remove"
    BY <1>4 DEF RemoveRot
  <2>2. pc' \notin {"closed", "mani_sync", "mani_rot"}
    BY <1>4, <2>1, ReturnPairs DEF RemoveRot
  <2>3. ASSUME Fresh PROVE Beginning'
    <3>1. Beginning /\ then = <<"mani", "top">>
      BY <2>1, <2>3 DEF Manifest, Beginning
    <3>2. ~(Len(data) > 1)
      BY <3>1 DEF Beginning, TypeInv, DiskTypes
    <3>3. UNCHANGED data /\ Return /\ UNCHANGED shared /\ acked' = acked
      BY <3>2, <1>4 DEF RemoveRot, Frame
    <3>4. <<"mani", "top">> # <<"top">> /\ Head(then) = "mani" /\ Tail(then) = <<"top">>
      BY <3>1, Pairs
    <3>5. pc' = "mani" /\ then' = <<"top">>
      BY <3>3, <3>4 DEF Return
    <3> QED BY <3>1, <3>3, <3>5 DEF Beginning, shared
  <2> QED BY <2>1, <2>2, <2>3, ManifestKept
<1>5. CASE Flushed
  <2>1. pc' \in {"pop", "lsn"} /\ mani' = mani /\ pc = "flushed"
    BY <1>5, ReturnPairs DEF Flushed, disk
  <2>2. ~Fresh
    BY <2>1 DEF Manifest, Beginning
  <2> QED BY <2>1, <2>2, ManifestKept
<1>6. CASE Mani
  <2>1. mani # <<>> /\ min \in Nat /\ Last(mani) = mani[Len(mani)] /\ Len(mani) \in Nat
    BY <1>6, LastTypes DEF Mani, Control, TypeInv, FlusherTypes
  <2>2. /\ mani' \in Seq(ManiType) /\ Len(mani') = Len(mani)
        /\ mani'[Len(mani)].entries = Append(mani[Len(mani)].entries, min)
        /\ mani'[Len(mani)].synced = mani[Len(mani)].synced
    BY <2>1, <1>6, ManiFacts DEF TypeInv
  <2>3. mani' # <<>> /\ Last(mani') = mani'[Len(mani)] /\ Len(mani') <= 2
    BY <2>1, <2>2 DEF Last, Manifest
  <2>4. Last(mani').entries # <<>>
    <3>1. mani[Len(mani)].entries \in Seq(Nat)
      BY <2>1, LastTypes DEF TypeInv
    <3>2. Append(mani[Len(mani)].entries, min) # <<>>
      BY <3>1, <2>1
    <3> QED BY <3>2, <2>2, <2>3
  <2>5. ASSUME Fresh' PROVE Beginning'
    <3>1. Fresh
      BY <2>5, <2>1, <2>2 DEF Fresh
    <3>2. Beginning
      BY <3>1 DEF Manifest
    <3> QED BY <3>2, <1>6 DEF Beginning, Mani, Goto, Frame, shared
  <2>6. pc' = "mani_sync"
    BY <1>6 DEF Mani, Goto
  <2> QED BY <2>3, <2>4, <2>5, <2>6 DEF Manifest
<1>7. CASE ManiSync
  <2>1. /\ mani # <<>> /\ Last(mani) = mani[Len(mani)] /\ Len(mani) \in Nat
        /\ Last(mani).entries # <<>>
    BY <1>7, LastTypes DEF ManiSync, Control, TypeInv, Manifest
  <2>2. /\ mani' \in Seq(ManiType) /\ Len(mani') = Len(mani)
        /\ mani'[Len(mani)].entries = mani[Len(mani)].entries
        /\ mani'[Len(mani)].synced = Len(mani[Len(mani)].entries)
    <3>1. Len(mani) \in 1 .. Len(mani)
      BY <2>1, LastTypes DEF TypeInv
    <3> QED BY <2>1, <3>1, <1>7, ManiSyncFacts DEF TypeInv
  <2>3. mani' # <<>> /\ Last(mani') = mani'[Len(mani)] /\ Len(mani') <= 2
    BY <2>1, <2>2 DEF Last, Manifest
  <2>4. pc' # "mani_sync"
    BY <1>7, ReturnPairs DEF ManiSync, Goto
  <2>5. ~Fresh'
    <3>1. Len(Last(mani).entries) # 0
      BY <2>1, LastTypes DEF TypeInv
    <3> QED BY <3>1, <2>1, <2>2 DEF Fresh
  <2> QED BY <2>1, <2>2, <2>3, <2>4, <2>5 DEF Manifest
<1>8. CASE ManiRot
  <2>1. /\ mani # <<>> /\ Last(mani) = mani[Len(mani)] /\ Len(mani) \in Nat
        /\ Last(mani).entries # <<>> /\ pc = "mani_rot"
        /\ Last(mani).synced = Len(Last(mani).entries)
    BY <1>8, LastTypes DEF ManiRot, Control, TypeInv, Manifest
  <2>2. CASE Len(mani) >= 2
    <3>0. Len(mani) <= 2 /\ mani \in Seq(ManiType)
      BY DEF Manifest, TypeInv, DiskTypes
    <3>1. mani' = Tail(mani) /\ pc' = pc
      BY <2>2, <2>1, <1>8 DEF ManiRot
    <3>2. Len(mani) = 2 /\ Len(mani') = 1 /\ mani'[1] = mani[2] /\ mani' # <<>>
      BY <3>0, <3>1, <2>2, TailOfTwo
    <3>3. Last(mani') = Last(mani)
      BY <3>1, <3>2, <2>1 DEF Last
    <3>4. ~Fresh'
      <4>1. Len(Last(mani).entries) # 0
        BY <2>1, LastTypes DEF TypeInv
      <4> QED BY <4>1, <3>1, <3>2, <2>1 DEF Fresh
    <3>6. Len(mani') <= 2
      BY <3>2
    <3> QED BY <3>1, <3>2, <3>3, <3>4, <3>6, <2>1 DEF Manifest
  <2>3. CASE ~(Len(mani) >= 2)
    <3>0. mani \in Seq(ManiType)
      BY DEF TypeInv, DiskTypes
    <3>1. mani' = Append(mani, NewMani) /\ Return
      BY <2>3, <1>8 DEF ManiRot
    <3>6. Len(mani) < 2
      BY <2>1, <2>3
    <3>2. Len(mani) = 1 /\ Len(mani') = 2 /\ mani'[2] = NewMani /\ mani' # <<>>
      BY <3>0, <3>1, <3>6, <2>1, AppendToOne
    <3>3. Last(mani') = NewMani /\ NewMani.synced = Len(NewMani.entries)
      BY <3>2 DEF Last, NewMani
    <3>4. pc' \notin {"mani_sync", "mani_rot"}
      BY <3>1, <2>1, ReturnPairs
    <3>5. ~Fresh'
      BY <3>2 DEF Fresh
    <3> QED BY <3>2, <3>3, <3>4, <3>5 DEF Manifest
  <2> QED BY <2>2, <2>3
<1> QED
  BY <1>1, <1>2, <1>3, <1>4, <1>5, <1>6, <1>7, <1>8

-----------------------------------------------------------------------------
(* The log: the stream is the blocks in the data rotations and in the buffer. *)

LEMMA StreamOf ==
  ASSUME NEW D \in Seq(RotType), NEW B \in Seq(BlockType), NEW S,
         S = With(D, B) \/ S = With(D, <<>>)
  PROVE  /\ S \in Seq(RotType) /\ SameNames(D, S) /\ Len(S) = Len(D)
         /\ With(D, <<>>) = D
         /\ D = <<>> => S = D
<1>1. With(D, <<>>) = D
  BY WithNone
<1>2. CASE D = <<>>
  BY <1>1, <1>2 DEF With, SameNames
<1>3. CASE D # <<>>
  <2>1. /\ With(D, B) \in Seq(RotType) /\ Len(With(D, B)) = Len(D)
        /\ \A i \in 1 .. Len(D) : With(D, B)[i].first = D[i].first
    BY <1>3, WithFacts
  <2>2. SameNames(D, With(D, B)) /\ SameNames(D, D)
    BY <2>1 DEF SameNames
  <2> QED BY <2>1, <2>2, <1>1, <1>3
<1> QED
  BY <1>2, <1>3

LEMMA StreamFacts ==
  ASSUME TypeInv
  PROVE  /\ Stream \in Seq(RotType) /\ SameNames(data, Stream) /\ data \in Seq(RotType)
         /\ Written => Stream = data
         /\ ~Written => Stream = With(data, buf)
         /\ buf = <<>> => Stream = data
         /\ data = <<>> => Stream = data
         /\ Len(Stream) = Len(data)
<1>1. data \in Seq(RotType) /\ buf \in Seq(BlockType)
  BY DEF TypeInv, DiskTypes, FlusherTypes
<1>2. Stream = IF Written THEN With(data, <<>>) ELSE With(data, buf)
  BY DEF Stream
<1> QED
  BY <1>1, <1>2, StreamOf

\* The same of the next state.
LEMMA StreamNext ==
  ASSUME TypeInv'
  PROVE  /\ Stream' \in Seq(RotType) /\ SameNames(data', Stream') /\ data' \in Seq(RotType)
         /\ Written' => Stream' = data'
         /\ ~Written' => Stream' = With(data', buf')
         /\ buf' = <<>> => Stream' = data'
         /\ data' = <<>> => Stream' = data'
         /\ Len(Stream') = Len(data')
<1>1. data' \in Seq(RotType) /\ buf' \in Seq(BlockType)
  BY DEF TypeInv, DiskTypes, FlusherTypes
<1>2. Stream' = IF Written' THEN With(data', <<>>) ELSE With(data', buf')
  BY DEF Stream
<1> QED
  BY <1>1, <1>2, StreamOf

LEMMA SameIsSame ==
  ASSUME NEW D
  PROVE  SameParts(D, D) /\ SameNames(D, D)
BY DEF SameParts, SameNames

LEMMA OrderKept ==
  ASSUME TypeInv, TypeInv', SameParts(Stream, Stream'), SameNames(Stream, Stream'), Log
  PROVE  (Ordered(Stream) /\ Ascending(Stream) /\ Named(Stream))'
<1>1. Stream \in Seq(RotType) /\ Stream' \in Seq(RotType)
  BY StreamFacts, StreamNext
<1>2. Ordered(Stream) /\ Ascending(Stream) /\ Named(Stream)
  BY DEF Log
<1>3. Ordered(Stream')
  BY <1>2, SamePartsOrdered
<1>4. Named(Stream') /\ Ascending(Stream')
  BY <1>1, <1>2, SameNamesNamed
<1> QED
  BY <1>3, <1>4

LEMMA FilledTypes ==
  ASSUME TypeInv, Numbers, Control
  PROVE  /\ Popped \in Int /\ Filled \in Int /\ Finished \in Int
         /\ Popped < next_lsn /\ Filled <= Popped /\ Finished <= Filled
         /\ pc # "closed" => Popped \in Nat /\ Filled \in Nat /\ Finished \in Nat
         /\ cur.lsn = 0 => Filled = Popped /\ Finished = Popped
         /\ cur.lsn # 0 => Finished = Popped - 1
         /\ cur.split => cur.lsn # 0 /\ Filled = Popped
         /\ cur.lsn # 0 /\ ~cur.split => Filled = Popped - 1
<1>1. /\ next_lsn \in Nat /\ Len(ring) \in Nat /\ cur.lsn \in Nat /\ cur.split \in BOOLEAN
  BY DEF TypeInv, CallerTypes, FlusherTypes
<1>2. cur.split => cur.lsn # 0
  BY DEF Numbers, NoEntry
<1>3. pc # "closed" => Popped >= 0
  BY DEF Numbers
<1>4. cur.lsn # 0 => Popped = cur.lsn
  BY DEF Numbers
<1>5. Popped \in Int /\ Popped < next_lsn
  BY <1>1 DEF Popped
<1> QED
  BY <1>1, <1>2, <1>3, <1>4, <1>5 DEF Filled, Finished

LEMMA BehindKept ==
  ASSUME TypeInv, TypeInv', SameParts(Stream, Stream'), Behind, pc # "closed",
         Filled' = Filled, cur'.split = cur.split,
         data' # <<>> => data # <<>> /\ Last(data').first = Last(data).first
  PROVE  Behind'
<1>1. /\ \A x \in Places(Stream) : LsnAt(Stream, x) <= Filled
      /\ data # <<>> => Last(data).first <= Filled + 1
      /\ data # <<>> /\ cur.split => Last(data).first <= Filled
  BY DEF Behind
<1>2. \A x \in Places(Stream') : LsnAt(Stream', x) <= Filled'
  BY <1>1 DEF SameParts, LsnAt
<1> QED
  BY <1>1, <1>2 DEF Behind

LEMMA WholeKept ==
  ASSUME TypeInv, TypeInv', SameParts(Stream, Stream'), Whole, pc # "closed", pc' # "closed",
         Filled' = Filled, needed <= needed', torn \subseteq torn',
         \A l \in 1 .. Filled : Packed(l)' = Packed(l) /\ size'[l] = size[l]
  PROVE  Whole'
<1>1. ASSUME NEW l \in 1 .. Filled
      PROVE  l < needed' \/ l \in torn' \/ Tiled(Stream', l, Packed(l)', size'[l])
  <2>1. l < needed \/ l \in torn \/ Tiled(Stream, l, Packed(l), size[l])
    BY DEF Whole, WholeRunning
  <2>2. CASE l < needed
    BY <2>2 DEF TypeInv, HistoryTypes
  <2>3. CASE l \in torn
    BY <2>3
  <2>4. CASE Tiled(Stream, l, Packed(l), size[l])
    <3>1. Tiled(Stream', l, Packed(l), size[l])
      BY <2>4, SamePartsTiled
    <3> QED BY <3>1
  <2> QED BY <2>1, <2>2, <2>3, <2>4
<1> QED
  BY <1>1 DEF Whole, WholeRunning

LEMMA AckedKept ==
  ASSUME TypeInv, TypeInv', SameParts(Stream, Stream'), Acked, data' = data, acked' = acked,
         max_lsn' = max_lsn, pc' # "closed" => pc # "closed" /\ Finished' = Finished
  PROVE  Acked'
<1>1. Reported' = Reported
  BY DEF Reported
<1>2. \A x \in Places(Stream') :
        x[1] = Len(data) /\ x[2] > Last(data).synced => Reported < LsnAt(Stream', x)
  BY DEF SameParts, LsnAt, Acked
<1> QED
  BY <1>1, <1>2 DEF Acked

LEMMA HeadersKept ==
  ASSUME Headers, data' = data, buf' = buf, last_filled_lsn' = last_filled_lsn,
         last_filled_lsn # 0 => Filled' = Filled,
         (ToWrite' \/ Written') => (ToWrite \/ Written), Written' => Written
  PROVE  Headers'
BY DEF Headers

\* A step that leaves the blocks, and what is said of them, as they are.
LEMMA LogElsewhere ==
  ASSUME TypeInv, TypeInv', Control, Numbers, Log, pc # "closed", pc' # "closed",
         data' = data, buf' = buf, last_filled_lsn' = last_filled_lsn,
         acked' = acked, max_lsn' = max_lsn, needed <= needed', torn' = torn,
         Filled' = Filled, Finished' = Finished,
         cur'.split = cur.split, cur.split => cur' = cur,
         \A l \in 1 .. Filled : size'[l] = size[l],
         Written' <=> Written, ToWrite' => ToWrite
  PROVE  Log'
<1>1. Stream' = Stream
  BY DEF Stream
<1>2. SameParts(Stream, Stream') /\ SameNames(Stream, Stream')
  BY <1>1, SameIsSame
<1>3. (Ordered(Stream) /\ Ascending(Stream) /\ Named(Stream))'
  BY <1>2, OrderKept
<1>4. Headers'
  BY HeadersKept DEF Log
<1>5. Behind'
  BY <1>2, BehindKept DEF Log
<1>6. Acked'
  BY <1>2, AckedKept DEF Log
<1>7. Whole'
  <2>1. \A l \in 1 .. Filled : Packed(l)' = Packed(l)
    BY DEF Packed
  <2> QED BY <1>2, <2>1, WholeKept DEF Log
<1> QED
  BY <1>3, <1>4, <1>5, <1>6, <1>7 DEF Log

\* How these steps move the flushing thread.
LEMMA Modes ==
  ASSUME TypeInv, Control,
         Start \/ NoTimeFlush \/ Lsn \/ Flush \/ RemoveRot \/ Mani \/ ManiSync \/ ManiRot
  PROVE  (Written' <=> Written) /\ (ToWrite' => ToWrite) /\ pc # "closed" /\ pc' # "closed"
<1>1. CASE Start
  <2>1. then = <<>> /\ pc = "start"
    BY <1>1, ReturnsTo DEF Start, TypeInv, FlusherTypes
  <2>2. pc' = "remove" /\ then' \in {<<"mani", "top">>, <<"top">>}
    BY <2>1, <1>1, Singles, Pairs DEF Start, Call
  <2> QED BY <2>1, <2>2, Singles, Pairs DEF Written, ToWrite
<1>2. CASE NoTimeFlush
  BY <1>2 DEF NoTimeFlush, Goto, Written, ToWrite
<1>3. CASE Lsn
  <2>1. then = <<>> /\ pc = "lsn"
    BY <1>3, ReturnsTo DEF Lsn, TypeInv, FlusherTypes
  <2>2. \/ pc' = "top" /\ then' = <<>>
        \/ pc' = "mani" /\ then' \in {<<"top">>, <<"remove", "top">>, <<"remove", "mani", "top">>}
    <3>1. CASE Goto("top")
      BY <3>1, <2>1 DEF Goto
    <3>2. ASSUME NEW again \in {<<"top">>, <<"mani", "top">>}, Call("mani", <<"remove">> \o again)
          PROVE  pc' = "mani" /\ then' \in {<<"remove", "top">>, <<"remove", "mani", "top">>}
      BY <3>2, <2>1, Singles, Pairs, Triples DEF Call
    <3>3. ASSUME NEW again \in {<<"top">>, <<"mani", "top">>},
                 pc' = Head(again), then' = Tail(again) \o then
          PROVE  \/ pc' = "top" /\ then' = <<>>
                 \/ pc' = "mani" /\ then' = <<"top">>
      <4>1. \/ again = <<"top">> /\ Head(again) = "top" /\ Tail(again) = <<>>
            \/ again = <<"mani", "top">> /\ Head(again) = "mani" /\ Tail(again) = <<"top">>
        BY ZenonT(60), SMTT(60), Singles, Pairs
      <4>2. Tail(again) \o <<>> = Tail(again)
        BY <4>1, Singles, Pairs, Triples
      <4> QED BY <3>3, <2>1, <4>1, <4>2
    <3> QED BY <3>1, <3>2, <3>3, <1>3 DEF Lsn
  <2> QED BY <2>1, <2>2, Singles, Pairs, Triples DEF Written, ToWrite
<1>4. CASE Flush
  <2>1. then \in {<<"pop">>, <<"lsn">>} /\ pc = "flush"
    BY <1>4, ReturnsTo DEF Flush, TypeInv, FlusherTypes, Packers
  <2>2. pc' \in {"write", "mani"}
    BY <1>4 DEF Flush, Goto, Call
  <2> QED BY <2>1, <2>2 DEF ToWrite, Written
<1>5. CASE RemoveRot
  <2>1. pc = "remove"
    BY <1>5 DEF RemoveRot
  <2>2. CASE UNCHANGED <<pc, then>>
    BY <2>1, <2>2 DEF Written, ToWrite
  <2>3. CASE Return
    BY <2>1, <2>3, ReturnPairs, Singles, Pairs DEF Written, ToWrite
  <2> QED BY <2>2, <2>3, <1>5 DEF RemoveRot
<1>6. CASE Mani
  BY <1>6 DEF Mani, Goto, Written, ToWrite
<1>7. CASE ManiSync \/ ManiRot
  <2>1. pc \in {"mani_sync", "mani_rot"}
    BY <1>7 DEF ManiSync, ManiRot
  <2>2. CASE pc' \in {"mani_rot"} /\ then' = then
    BY <2>1, <2>2 DEF Written, ToWrite
  <2>3. CASE Return
    BY <2>1, <2>3, ReturnPairs, Singles, Pairs, Triples DEF Written, ToWrite
  <2> QED BY <2>1, <2>2, <2>3, <1>7 DEF ManiSync, ManiRot, Goto
<1> QED
  BY <1>1, <1>2, <1>3, <1>4, <1>5, <1>6, <1>7

LEMMA LogCalls ==
  ASSUME TypeInv, TypeInv', Control, Numbers, Log,
         \/ Stop
         \/ \E s \in Sizes : AppendEntry(s)
         \/ \E a \in Advancers : AdvStore(a) \/ \E l \in 1 .. MaxLsn : AdvLoad(a, l)
  PROVE  Log'
<1>1. CASE Stop
  BY <1>1 DEF Stop, disk, packing, history, Log, Stream, Written, ToWrite, Headers, Behind, Acked,
              Whole, WholeRunning, WholeClosed, Filled, Finished, Popped, Packed, Reported
<1>2. CASE \E s \in Sizes : AppendEntry(s)
  <2>1. PICK s \in Sizes : AppendEntry(s)
    BY <1>2
  <2>2. pc # "closed" /\ pc' = pc /\ then' = then
    BY <2>1 DEF AppendEntry, Control
  <2>3. Popped' = Popped
    <3>1. ring' = Append(ring, next_lsn) /\ next_lsn' = next_lsn + 1 /\ ring \in Seq(1 .. MaxLsn)
          /\ next_lsn \in Nat
      BY <2>1 DEF AppendEntry, TypeInv, CallerTypes
    <3>2. Len(ring') = Len(ring) + 1 /\ Len(ring) \in Nat
      BY <3>1
    <3> QED BY <3>1, <3>2 DEF Popped
  <2>4. cur' = cur /\ buf' = buf /\ last_filled_lsn' = last_filled_lsn /\ data' = data
        /\ acked' = acked /\ max_lsn' = max_lsn /\ needed' = needed /\ torn' = torn
    BY <2>1 DEF AppendEntry, packing, disk
  <2>5. Filled' = Filled /\ Finished' = Finished
    BY <2>3, <2>4 DEF Filled, Finished
  <2>6. \A l \in 1 .. Filled : size'[l] = size[l]
    <3>1. size' = [size EXCEPT ![next_lsn] = s] /\ size \in [Lsns -> Nat]
      BY <2>1 DEF AppendEntry, TypeInv, HistoryTypes
    <3>2. Filled < next_lsn /\ Filled \in Int /\ next_lsn \in Lsns
      BY SMTT(60), FilledTypes, ConstantTypes DEF TypeInv, CallerTypes, Lsns
    <3>3. \A l \in 1 .. Filled : l \in Lsns /\ l # next_lsn
      BY <3>2, ConstantTypes DEF Lsns
    <3> QED BY <3>1, <3>3
  <2>7. (Written' <=> Written) /\ (ToWrite' => ToWrite)
    BY <2>2 DEF Written, ToWrite
  <2>8. needed <= needed'
    BY <2>4 DEF TypeInv, HistoryTypes
  <2> QED BY <2>2, <2>4, <2>5, <2>6, <2>7, <2>8, LogElsewhere
<1>3. CASE \E a \in Advancers : AdvStore(a)
  BY <1>3 DEF AdvStore, disk, packing, history, Log, Stream, Written, ToWrite, Headers, Behind,
              Acked, Whole, WholeRunning, WholeClosed, Filled, Finished, Popped, Packed, Reported
<1>4. CASE \E a \in Advancers : \E l \in 1 .. MaxLsn : AdvLoad(a, l)
  <2>1. PICK a \in Advancers, l \in 1 .. MaxLsn : AdvLoad(a, l)
    BY <1>4
  <2>2. pc # "closed" /\ pc' = pc /\ then' = then
    BY <2>1 DEF AdvLoad, Control
  <2>3. cur' = cur /\ buf' = buf /\ last_filled_lsn' = last_filled_lsn /\ data' = data
        /\ acked' = acked /\ max_lsn' = max_lsn /\ torn' = torn /\ size' = size
        /\ ring' = ring /\ next_lsn' = next_lsn
    BY <2>1 DEF AdvLoad, packing, disk
  <2>4. needed <= needed'
    BY <2>1, LargerIs, ConstantTypes DEF AdvLoad, TypeInv, HistoryTypes
  <2>5. Filled' = Filled /\ Finished' = Finished
    BY <2>3 DEF Filled, Finished, Popped
  <2>6. (Written' <=> Written) /\ (ToWrite' => ToWrite)
    BY <2>2 DEF Written, ToWrite
  <2> QED BY <2>2, <2>3, <2>4, <2>5, <2>6, LogElsewhere
<1> QED
  BY <1>1, <1>2, <1>3, <1>4

LEMMA LogMoves ==
  ASSUME TypeInv, TypeInv', Control, Numbers, Log,
         \/ Start \/ NoTimeFlush \/ Lsn \/ Flush \/ Mani \/ ManiSync \/ ManiRot
         \/ Pop \/ (Top /\ running) \/ (RemoveRot /\ UNCHANGED data)
  PROVE  Log'
<1>n. needed \in Nat
  BY DEF TypeInv, HistoryTypes
<1>1. CASE Start \/ NoTimeFlush \/ Lsn \/ Flush \/ Mani \/ ManiSync \/ ManiRot
           \/ (RemoveRot /\ UNCHANGED data)
  <2>1. (Written' <=> Written) /\ (ToWrite' => ToWrite) /\ pc # "closed" /\ pc' # "closed"
    BY <1>1, Modes
  <2>2. data' = data /\ buf' = buf /\ cur' = cur
        /\ (last_filled_lsn' = last_filled_lsn \/ (last_filled_lsn' = 0 /\ pc = "start"))
    BY <1>1 DEF Start, NoTimeFlush, Lsn, Flush, Mani, ManiSync, ManiRot, RemoveRot, Frame, disk,
                shared, packing
  <2>3. ring' = ring /\ next_lsn' = next_lsn /\ max_lsn' = max_lsn
    BY <1>1 DEF Start, NoTimeFlush, Lsn, Flush, Mani, ManiSync, ManiRot, RemoveRot, Frame, shared
  <2>4. acked' = acked /\ needed' = needed /\ torn' = torn /\ size' = size
    BY <1>1 DEF Start, NoTimeFlush, Lsn, Flush, Mani, ManiSync, ManiRot, RemoveRot, Frame, history
  <2>5. last_filled_lsn' = last_filled_lsn
    BY <2>2 DEF Control
  <2>6. Filled' = Filled /\ Finished' = Finished
    BY <2>2, <2>3 DEF Filled, Finished, Popped
  <2> QED BY <1>n, <2>1, <2>2, <2>3, <2>4, <2>5, <2>6, LogElsewhere
<1>2. CASE Top /\ running
  <2>1. pc = "top" /\ pc' = "pop" /\ UNCHANGED <<shared, packing>> /\ UNCHANGED <<disk, history>>
    BY <1>2 DEF Top, Goto
  <2>2. (Written' <=> Written) /\ (ToWrite' => ToWrite)
    BY <2>1 DEF Written, ToWrite
  <2>3. Filled' = Filled /\ Finished' = Finished
    BY <2>1 DEF Filled, Finished, Popped, shared, packing
  <2> QED BY <1>n, <2>1, <2>2, <2>3, LogElsewhere DEF shared, packing, disk, history
<1>3. CASE Pop
  <2>1. /\ pc = "pop" /\ pc' \in {"pop", "quiet"} /\ cur = NoEntry
        /\ UNCHANGED <<disk, max_lsn, next_lsn, buf, last_filled_lsn, history>>
    BY <1>3 DEF Pop, Goto
  <2>2. (Written' <=> Written) /\ (ToWrite' => ToWrite)
    BY <2>1 DEF Written, ToWrite
  <2>3. cur.lsn = 0 /\ cur.split = FALSE
    BY <2>1 DEF NoEntry
  <2>4. cur'.split = cur.split /\ Filled' = Filled /\ Finished' = Finished
    <3>1. CASE ring = <<>>
      <4>1. cur' = cur /\ ring' = ring
        BY <3>1, <1>3 DEF Pop
      <4> QED BY <4>1, <2>1 DEF Filled, Finished, Popped
    <3>2. CASE ring # <<>>
      <4>1. cur' = [lsn |-> Head(ring), left |-> size[Head(ring)], split |-> FALSE]
            /\ ring' = Tail(ring)
        BY <3>2, <1>3 DEF Pop
      <4>2. Head(ring) \in 1 .. MaxLsn /\ Len(Tail(ring)) = Len(ring) - 1 /\ Len(ring) \in Nat
        <5>1. ring \in Seq(1 .. MaxLsn)
          BY DEF TypeInv, CallerTypes
        <5>2. Len(ring) \in Nat
          BY <5>1
        <5> QED BY <3>2, <5>1, <5>2, HeadTail
      <4>3. cur'.lsn # 0 /\ cur'.split = FALSE
        BY <4>1, <4>2
      <4>4. Popped' = Popped + 1 /\ Popped \in Int
        BY <4>1, <4>2, <2>1 DEF Popped, TypeInv, CallerTypes
      <4>5. Filled = Popped /\ Finished = Popped
        BY <2>3 DEF Filled, Finished
      <4>6. Filled' = Popped' - 1 /\ Finished' = Popped' - 1
        BY <4>3 DEF Filled, Finished
      <4>7. Filled' = Filled /\ Finished' = Finished
        BY <4>4, <4>5, <4>6
      <4> QED BY <4>3, <4>7, <2>3
    <3> QED BY <3>1, <3>2
  <2> QED BY <1>n, <2>1, <2>2, <2>3, <2>4, LogElsewhere DEF disk, history
<1> QED
  BY <1>1, <1>2, <1>3

\* Steps that do nothing but add blocks without parts, or complete the header of
\* the last one.
LEMMA LogSameBlocks ==
  ASSUME TypeInv, TypeInv', Control, Numbers, Log, pc # "closed", pc' # "closed", data # <<>>,
         data' = data, acked' = acked, max_lsn' = max_lsn, needed' = needed, torn' = torn,
         size' = size, ring' = ring, next_lsn' = next_lsn, cur' = cur, ~Written, ~Written',
         SameBlocks(buf, buf'), Headers'
  PROVE  Log'
<1>1. /\ data \in Seq(RotType) /\ buf \in Seq(BlockType) /\ buf' \in Seq(BlockType)
      /\ Stream = With(data, buf) /\ Stream' = With(data, buf')
  BY StreamFacts, StreamNext DEF TypeInv, FlusherTypes
<1>2. SameParts(Stream, Stream') /\ SameNames(Stream, Stream')
  BY <1>1, SameBlocksWith
<1>3. Filled' = Filled /\ Finished' = Finished
  BY DEF Filled, Finished, Popped
<1>4. (Ordered(Stream) /\ Ascending(Stream) /\ Named(Stream))'
  BY <1>2, OrderKept
<1>5. Behind'
  BY <1>2, <1>3, BehindKept DEF Log
<1>6. Acked'
  BY <1>2, <1>3, AckedKept DEF Log
<1>7. Whole'
  <2>1. \A l \in 1 .. Filled : Packed(l)' = Packed(l)
    BY DEF Packed
  <2> QED BY <1>2, <1>3, <2>1, WholeKept DEF Log, TypeInv, HistoryTypes
<1> QED
  BY <1>4, <1>5, <1>6, <1>7 DEF Log

LEMMA LogOpenBlock ==
  ASSUME TypeInv, TypeInv', Control, Numbers, Log, OpenBlock
  PROVE  Log'
<1> DEFINE F == Fixed(buf, last_filled_lsn) N == NewBlock(cur.lsn) n == Len(buf) G == Append(F, N)
<1>1. buf \in Seq(BlockType) /\ last_filled_lsn \in 0 .. MaxLsn /\ min_lsn \in Nat /\ n \in Nat
  BY DEF TypeInv, FlusherTypes, CallerTypes
<1>2. /\ F \in Seq(BlockType) /\ Len(F) = n
      /\ \A j \in 1 .. n : /\ F[j].parts = buf[j].parts
                           /\ j < n => F[j] = buf[j]
                           /\ j = n => F[j].max = last_filled_lsn
  BY <1>1, FixedFacts
<1>3. buf' = G /\ N.parts = <<>>
  BY <1>1 DEF OpenBlock, NewBlock
<1>4. /\ Len(G) = n + 1 /\ DOMAIN G = 1 .. n + 1 /\ G[n + 1] = N /\ DOMAIN buf = 1 .. n
      /\ \A j \in 1 .. n : G[j] = F[j]
  BY <1>1, <1>2
<1>5. pc = "pop" /\ pc' = "pop" /\ ~Written /\ ~ToWrite /\ ~Written' /\ ~ToWrite' /\ data # <<>>
  BY DEF OpenBlock, Written, ToWrite, Control, Early
<1> HIDE DEF F, N, G, n
<1>6. \A j \in 1 .. n : G[j].parts = buf[j].parts
  BY <1>2, <1>4
<1>7. SameBlocks(buf, buf')
  <2>1. \A j \in 1 .. n + 1 : G[j].parts = IF j <= n THEN buf[j].parts ELSE <<>>
    <3> SUFFICES ASSUME NEW j \in 1 .. n + 1
                 PROVE  G[j].parts = IF j <= n THEN buf[j].parts ELSE <<>>
      OBVIOUS
    <3>1. CASE j <= n
      BY <3>1, <1>1, <1>6
    <3>2. CASE ~(j <= n)
      <4>1. j = n + 1
        BY <3>2, <1>1
      <4> QED BY <4>1, <1>1, <1>3, <1>4
    <3> QED BY <3>1, <3>2
  <2>2. Len(buf) = n
    BY DEF n
  <2> QED BY <2>1, <2>2, <1>1, <1>3, <1>4 DEF SameBlocks
<1>8. Headers'
  <2>h. Headers
    BY DEF Log
  <2>1. \A i \in DOMAIN data' : \A j \in DOMAIN data'[i].blocks : Headed(data'[i].blocks[j])
    BY <2>h DEF OpenBlock, disk, Headers
  <2>2. ASSUME NEW j \in DOMAIN buf', j < Len(buf'), buf'[j].parts # <<>>
        PROVE  Headed(buf'[j])
    <3>1. j \in 1 .. n /\ buf'[j] = F[j]
      BY <2>2, <1>1, <1>3, <1>4
    <3>2. CASE j < n
      <4>1. F[j] = buf[j] /\ j \in DOMAIN buf /\ j < Len(buf)
        BY <3>1, <3>2, <1>1, <1>2, <1>4 DEF n
      <4> QED BY <4>1, <3>1, <2>2, <2>h DEF Headers
    <3>3. CASE j = n
      <4>1. F[j].max = last_filled_lsn /\ F[j].parts = buf[j].parts /\ buf[j].parts # <<>>
        BY <3>1, <3>3, <1>2, <2>2
      <4>2. buf # <<>> /\ Last(buf) = buf[j]
        BY <3>1, <3>3, <1>1 DEF n, Last
      <4>3. Last(buf[j].parts).lsn = last_filled_lsn
        BY <4>1, <4>2, <2>h DEF Headers
      <4> QED BY <4>1, <4>3, <3>1 DEF Headed
    <3> QED BY <3>1, <3>2, <3>3, <1>1
  <2>3. Last(buf').parts = <<>>
    BY <1>1, <1>3, <1>4 DEF Last
  <2>4. last_filled_lsn' = last_filled_lsn /\ Filled' = Filled
    BY DEF OpenBlock, shared, Filled, Popped
  <2>5. ASSUME NEW j \in DOMAIN buf', buf'[j].parts # <<>> PROVE last_filled_lsn # 0
    <3>1. j # n + 1
      BY <2>5, <1>3, <1>4
    <3>2. j \in 1 .. n /\ buf'[j].parts = buf[j].parts
      BY <3>1, <2>5, <1>1, <1>3, <1>4, <1>6
    <3> QED BY <3>2, <2>5, <2>h, <1>4 DEF Headers
  <2> QED BY <2>1, <2>2, <2>3, <2>4, <2>5, <2>h, <1>5 DEF Headers
<1> QED
  BY <1>5, <1>7, <1>8, LogSameBlocks DEF OpenBlock, disk, shared, history

\* The buffer holds blocks B, f is the last LSN in them, and at a flush the
\* header of the last one is completed.
LEMMA HeadersFilled ==
  ASSUME Headers, buf \in Seq(BlockType), buf' \in Seq(BlockType),
         NEW B \in Seq(BlockType), NEW f, Len(B) = Len(buf), Len(buf') = Len(B),
         \A j \in 1 .. Len(B) : j < Len(B) => B[j] = buf[j],
         \A j \in 1 .. Len(B) : /\ buf'[j].parts = B[j].parts
                                /\ j < Len(B) => buf'[j] = B[j]
                                /\ ToWrite' /\ j = Len(B) => buf'[j].max = f
                                /\ B[j].parts # <<>> => f # 0
                                /\ j = Len(B) /\ B[j].parts # <<>> => Last(B[j].parts).lsn = f,
         data' = data, last_filled_lsn' = f, f # 0 => f = Filled', ~Written'
  PROVE  Headers'
<1> DEFINE n == Len(buf)
<1>1. DOMAIN buf' = 1 .. n /\ DOMAIN B = 1 .. n /\ DOMAIN buf = 1 .. n /\ n \in Nat
  OBVIOUS
<1>2. /\ \A j \in 1 .. n : j < n => B[j] = buf[j]
      /\ \A j \in 1 .. n : /\ buf'[j].parts = B[j].parts
                           /\ j < n => buf'[j] = B[j]
                           /\ ToWrite' /\ j = n => buf'[j].max = f
                           /\ B[j].parts # <<>> => f # 0
                           /\ j = n /\ B[j].parts # <<>> => Last(B[j].parts).lsn = f
      /\ Len(buf') = n
  BY ZenonT(60), SMTT(60)
<1>3. \A j \in 1 .. n : j < n /\ buf[j].parts # <<>> => Headed(buf[j])
  BY ZenonT(60), SMTT(60), <1>1 DEF Headers
<1>4. buf' # <<>> => n \in 1 .. n /\ Last(buf') = buf'[n]
  <2>1. Last(buf') = buf'[n]
    BY <1>2 DEF Last
  <2>2. buf' # <<>> => Len(buf') # 0
    OBVIOUS
  <2> HIDE DEF n
  <2> QED BY <2>1, <2>2, <1>1, <1>2
<1> HIDE DEF n
<1>5. ASSUME NEW j \in DOMAIN buf', j < Len(buf') \/ ToWrite' \/ Written', buf'[j].parts # <<>>
      PROVE  Headed(buf'[j])
  <2>1. j \in 1 .. n
    BY <1>1
  <2>2. CASE j < n
    <3>1. buf'[j] = buf[j]
      BY <2>1, <2>2, <1>2
    <3> QED BY <3>1, <2>1, <2>2, <1>3, <1>5
  <2>3. CASE j = n
    <3>1. ToWrite'
      BY <2>3, <1>1, <1>2, <1>5
    <3> QED BY <3>1, <2>1, <2>3, <1>2, <1>5 DEF Headed
  <2> QED BY <2>1, <2>2, <2>3, <1>1
<1>6. buf' # <<>> /\ Last(buf').parts # <<>> => Last(Last(buf').parts).lsn = f
  BY <1>2, <1>4
<1>7. \A j \in DOMAIN buf' : buf'[j].parts # <<>> => f # 0
  BY <1>1, <1>2
<1>8. \A i \in DOMAIN data' : \A j \in DOMAIN data'[i].blocks : Headed(data'[i].blocks[j])
  BY ZenonT(60), SMTT(60) DEF Headers
<1> QED
  BY <1>5, <1>6, <1>7, <1>8 DEF Headers

\* The headers before, in these terms.
LEMMA HeadersBefore ==
  ASSUME Headers, buf \in Seq(BlockType), NEW j \in 1 .. Len(buf)
  PROVE  /\ buf[j].parts # <<>> => last_filled_lsn # 0
         /\ j = Len(buf) /\ buf[j].parts # <<>> => Last(buf[j].parts).lsn = last_filled_lsn
<1>1. DOMAIN buf = 1 .. Len(buf) /\ buf # <<>> /\ Last(buf) = buf[Len(buf)]
  BY DEF Last
<1> QED
  BY <1>1 DEF Headers

LEMMA LogFillZero ==
  ASSUME TypeInv, TypeInv', Control, Numbers, Log, FillZero \/ TimeFlush
  PROVE  Log'
<1> DEFINE f == last_filled_lsn
<1>1. buf \in Seq(BlockType) /\ f \in 0 .. MaxLsn /\ min_lsn \in Nat
  BY DEF TypeInv, FlusherTypes, CallerTypes
<1>2. /\ pc \in {"pop", "quiet"} /\ pc' \in {pc, "flush"} /\ cur' = cur
      /\ last_filled_lsn' = f /\ data' = data /\ UNCHANGED <<shared, history>>
  BY DEF FillZero, TimeFlush, Packing, FlushIfDue, Call, disk
<1>3. /\ buf' \in Seq(BlockType) /\ Len(buf') = Len(buf)
      /\ \A j \in 1 .. Len(buf) : /\ buf'[j].parts = buf[j].parts
                                  /\ j < Len(buf) => buf'[j] = buf[j]
                                  /\ pc' = "flush" /\ j = Len(buf) => buf'[j].max = f
  <2>1. CASE FillZero
    <3>1. FlushIfDue(buf, BlockUnits, f, cur.split)
      BY <2>1 DEF FillZero
    <3>2. pc' = "flush" => \A j \in 1 .. Len(buf) : j = Len(buf) => buf'[j].max = f
      BY <1>1, <1>2, <3>1, FlushIfDueFacts
    <3> QED BY <1>1, <3>1, <3>2, FlushIfDueFacts
  <2>2. CASE TimeFlush
    <3>1. buf' = Fixed(buf, f)
      BY <2>2 DEF TimeFlush
    <3> QED BY <1>1, <3>1, FixedFacts
  <2> QED BY <2>1, <2>2
<1>4. ~Written /\ ~ToWrite /\ ~Written' /\ (ToWrite' => pc' = "flush") /\ data # <<>>
      /\ pc # "closed" /\ pc' # "closed"
  BY <1>2 DEF Written, ToWrite, Control, Early
<1>5. Filled' = Filled
  BY <1>2 DEF Filled, Popped, shared
<1>6. Headers /\ (f # 0 => f = Filled)
  BY DEF Log, Headers
<1>7. \A j \in 1 .. Len(buf) :
        /\ buf[j].parts # <<>> => f # 0
        /\ j = Len(buf) /\ buf[j].parts # <<>> => Last(buf[j].parts).lsn = f
  BY <1>1, <1>6, HeadersBefore
<1>8. SameBlocks(buf, buf')
  <2>1. DOMAIN buf' = 1 .. Len(buf) /\ Len(buf) \in Nat
    BY <1>1, <1>3
  <2>2. \A j \in 1 .. Len(buf) : buf'[j].parts = buf[j].parts
    BY <1>3
  <2>3. Len(buf) <= Len(buf')
    <3>1. Len(buf') = Len(buf)
      BY <1>3
    <3> QED BY <2>1, <3>1
  <2>4. \A j \in 1 .. Len(buf) : j <= Len(buf)
    BY <2>1
  <2> QED BY <2>1, <2>2, <2>3, <2>4 DEF SameBlocks
<1> HIDE DEF f
<1>9. Headers'
  BY <1>1, <1>2, <1>3, <1>4, <1>5, <1>6, <1>7, HeadersFilled
<1> QED
  BY <1>2, <1>4, <1>8, <1>9, LogSameBlocks DEF shared, history

\* A part of the entry is added to the last block of the buffer.
LEMMA LogPut ==
  ASSUME TypeInv, TypeInv', Control, Numbers, Log, pc = "pop", cur # NoEntry, buf # <<>>,
         NEW kind, kind \in IF cur.split THEN {"Middle", "Last"} ELSE {"Full", "First"},
         NEW u, NEW split, FlushIfDue(WithPart(kind), u, cur.lsn, split),
         NextPart(kind) \in PartType,
         kind \in {"Full", "Last"} <=> NextPart(kind).from + NextPart(kind).units = size[cur.lsn],
         Filled' = cur.lsn, Finished <= Finished', Finished' \in Int,
         \A l \in 1 .. cur.lsn :
           Packed(l)' = IF l = cur.lsn THEN NextPart(kind).from + NextPart(kind).units ELSE size[l]
  PROVE  Log'
<1> DEFINE p == NextPart(kind) B == WithPart(kind) n == Len(buf) c == cur.lsn s == size[cur.lsn]
<1>1. /\ buf \in Seq(BlockType) /\ c \in 0 .. MaxLsn /\ min_lsn \in Nat /\ n \in Nat /\ c \in Nat
      /\ data \in Seq(RotType) /\ buf' \in Seq(BlockType)
  BY ConstantTypes DEF TypeInv, FlusherTypes, CallerTypes, DiskTypes
<1>2. /\ c # 0 /\ c = Popped /\ Filled \in Nat /\ Filled <= c /\ Finished = c - 1
      /\ cur.split => Filled = c
      /\ ~cur.split => Filled = c - 1
  <2>1. c # 0
    BY DEF Numbers
  <2> QED BY <2>1, FilledTypes DEF Numbers
<1>3. /\ B \in Seq(BlockType) /\ Len(B) = n /\ OneMore(buf, B, p)
      /\ \A j \in 1 .. n : j < n => B[j] = buf[j]
  BY WithPartFacts DEF TypeInv
<1>4. /\ Len(buf') = n
      /\ \A j \in 1 .. n : /\ buf'[j].parts = B[j].parts
                           /\ j < n => buf'[j] = B[j]
                           /\ pc' = "flush" /\ j = n => buf'[j].max = c
      /\ last_filled_lsn' = c /\ data' = data /\ pc' \in {"pop", "flush"}
      /\ UNCHANGED shared /\ UNCHANGED history
  <2>1. FlushIfDue(B, u, c, split)
    OBVIOUS
  <2> HIDE DEF p, B, n, s, c
  <2>4. \/ /\ pc' = "flush"
           /\ \A j \in 1 .. Len(B) : j = Len(B) => buf'[j].max = c
        \/ pc' = pc
    <3>1. (buf' = Fixed(B, c) /\ pc' = "flush") \/ pc' = pc
      BY <2>1 DEF FlushIfDue, Call
    <3>2. \A j \in 1 .. Len(B) : j = Len(B) => Fixed(B, c)[j].max = c
      BY <1>1, <1>3, FixedFacts
    <3> QED BY <3>1, <3>2
  <2>2. pc' = "flush" => \A j \in 1 .. Len(B) : j = Len(B) => buf'[j].max = c
    BY <2>4
  <2>3. /\ Len(buf') = Len(B)
        /\ \A j \in 1 .. Len(B) : /\ buf'[j].parts = B[j].parts
                                  /\ j < Len(B) => buf'[j] = B[j]
        /\ last_filled_lsn' = c /\ data' = data /\ pc' \in {"pop", "flush"}
        /\ UNCHANGED shared /\ UNCHANGED history
    BY ZenonT(60), SMTT(60), <2>1, <1>1, <1>3, FlushIfDueFacts
  <2> QED BY <2>2, <2>3, <1>3
<1>5. /\ data # <<>> /\ ~Written /\ ~Written' /\ (ToWrite' => pc' = "flush")
      /\ pc # "closed" /\ pc' # "closed"
  BY <1>4 DEF Written, ToWrite, Control, Early
<1>6. Stream = With(data, buf) /\ Stream' = With(data, buf') /\ Stream \in Seq(RotType)
      /\ Stream' \in Seq(RotType) /\ Len(Stream) = Len(data)
      /\ Stream[Len(data)].first = data[Len(data)].first
  <2>1. Len(data) \in DOMAIN data
    BY SMTT(60), <1>5, LastTypes DEF TypeInv, DiskTypes
  <2> QED BY <2>1, <1>4, <1>5, StreamFacts, StreamNext DEF SameNames
<1> HIDE DEF p, B, n, s, c
<1>7. OneMore(buf, buf', p)
  <2>1. /\ buf # <<>> /\ DOMAIN buf = 1 .. n
        /\ \A j \in 1 .. n : B[j].parts = IF j = n THEN Append(buf[j].parts, p) ELSE buf[j].parts
    <3>1. DOMAIN buf = 1 .. n
      BY <1>1 DEF n
    <3> QED BY <3>1, <1>3 DEF OneMore, n
  <2> QED BY ZenonT(60), SMTT(60), <2>1, <1>4 DEF OneMore, n
<1>8. p \in PartType /\ p.lsn = c /\ p.kind = kind /\ p.from = s - cur.left
      /\ p.from \in Nat /\ p.units \in Nat
  <2>1. p \in PartType
    BY DEF p
  <2> QED BY <2>1 DEF p, NextPart, PartType, c, s
<1>9. PICK z : Added(Stream, Stream', z, p) /\ z[2] = Len(data[Len(data)].blocks) + n
               /\ SameNames(Stream, Stream')
  BY <1>1, <1>5, <1>6, <1>7, <1>8, OneMoreWith DEF n
<1>10. \A x \in Places(Stream) : LsnAt(Stream, x) <= Filled /\ LsnAt(Stream, x) \in Nat
  BY <1>5, <1>6, AtTypes, ConstantTypes DEF Log, Behind
<1>11. /\ Last(data) = data[Len(data)] /\ Last(data).first \in Nat /\ Last(data).first <= c
       /\ Last(data).synced \in Nat /\ Last(data).synced <= Len(data[Len(data)].blocks)
       /\ Len(data[Len(data)].blocks) \in Nat
  <2>1. /\ Last(data) = data[Len(data)] /\ Last(data).first \in Nat
        /\ Last(data).synced \in Nat /\ Last(data).synced <= Len(Last(data).blocks)
        /\ Len(Last(data).blocks) \in Nat
    BY <1>5, LastTypes DEF TypeInv
  <2>2. /\ Last(data).first <= Filled + 1
        /\ cur.split => Last(data).first <= Filled
    BY <1>5 DEF Log, Behind
  <2> QED BY <2>1, <2>2, <1>2, <1>1
<1>12. (Ordered(Stream) /\ Ascending(Stream) /\ Named(Stream))'
  <2>1. \A x \in Places(Stream) : LsnAt(Stream, x) <= p.lsn
    BY <1>1, <1>2, <1>8, <1>10
  <2>2. Stream # <<>> /\ Stream[Len(Stream)].first <= p.lsn
    BY <1>5, <1>6, <1>8, <1>11
  <2> QED BY <2>1, <2>2, <1>6, <1>8, <1>9, AddedOrdered DEF Log
<1>13. Headers'
  <2>1. Headers
    BY DEF Log
  <2>2. \A j \in 1 .. n : /\ B[j].parts # <<>> => c # 0
                          /\ j = n /\ B[j].parts # <<>> => Last(B[j].parts).lsn = c
    <3> SUFFICES ASSUME NEW j \in 1 .. n, j = n PROVE Last(B[j].parts).lsn = c
      BY <1>2
    <3> DEFINE P == buf[j].parts
    <3>1. B[j].parts = Append(P, p)
      <4>1. j \in DOMAIN buf /\ j = Len(buf)
        BY <1>1 DEF n
      <4> QED BY <4>1, <1>3 DEF OneMore
    <3>2. P \in Seq(PartType)
      BY <1>1, BlockTypes DEF n
    <3>3. Last(Append(P, p)) = p
      <4> HIDE DEF P
      <4>1. Len(Append(P, p)) = Len(P) + 1 /\ Append(P, p)[Len(P) + 1] = p
        BY <3>2, <1>8
      <4> QED BY <4>1 DEF Last
    <3> QED BY <3>1, <3>3, <1>8
  <2>3. c # 0 => c = Filled'
    BY DEF c
  <2>4. Len(B) = Len(buf) /\ Len(buf') = Len(B)
    BY <1>3, <1>4 DEF n
  <2>5. /\ \A j \in 1 .. Len(B) : j < Len(B) => B[j] = buf[j]
        /\ \A j \in 1 .. Len(B) : /\ buf'[j].parts = B[j].parts
                                  /\ j < Len(B) => buf'[j] = B[j]
                                  /\ ToWrite' /\ j = Len(B) => buf'[j].max = c
                                  /\ B[j].parts # <<>> => c # 0
                                  /\ j = Len(B) /\ B[j].parts # <<>> => Last(B[j].parts).lsn = c
    BY <2>2, <1>3, <1>4, <1>5
  <2> QED BY <2>1, <2>3, <2>4, <2>5, <1>1, <1>3, <1>4, <1>5, HeadersFilled
<1>14. Behind'
  <2>1. \A x \in Places(Stream') : LsnAt(Stream', x) <= c
    <3> SUFFICES ASSUME NEW x \in Places(Stream') PROVE LsnAt(Stream', x) <= c
      OBVIOUS
    <3>1. CASE x \in Places(Stream)
      <4>1. LsnAt(Stream', x) = LsnAt(Stream, x)
        BY <3>1, <1>9 DEF Added, LsnAt
      <4> QED BY <4>1, <3>1, <1>1, <1>2, <1>10
    <3>2. CASE x = z
      <4>1. LsnAt(Stream', x) = c
        BY <3>2, <1>8, <1>9 DEF Added, LsnAt
      <4> QED BY <4>1, <1>1
    <3> QED BY <3>1, <3>2, <1>9 DEF Added
  <2>2. Filled' = c
    BY DEF c
  <2> QED BY <2>1, <2>2, <1>1, <1>4, <1>11 DEF Behind
<1>15. Acked'
  <2>1. Reported' = Reported
    BY <1>4 DEF Reported, shared, history
  <2>2. Reported < c
    <3>1. acked <= Finished /\ max_lsn <= Finished /\ acked \in Nat /\ max_lsn \in Nat
      BY <1>5, ConstantTypes DEF Log, Acked, Numbers, TypeInv, HistoryTypes, CallerTypes
    <3>2. Reported \in {acked, max_lsn}
      BY DEF Reported, Larger
    <3> QED BY <3>1, <3>2, <1>1, <1>2
  <2>3. ASSUME NEW x \in Places(Stream'), x[1] = Len(data), x[2] > Last(data).synced
        PROVE  Reported < LsnAt(Stream', x)
    <3>1. CASE x \in Places(Stream)
      <4>1. LsnAt(Stream', x) = LsnAt(Stream, x)
        BY <3>1, <1>9 DEF Added, LsnAt
      <4> QED BY <4>1, <3>1, <2>3 DEF Log, Acked
    <3>2. CASE x = z
      <4>1. LsnAt(Stream', x) = c
        BY <3>2, <1>8, <1>9 DEF Added, LsnAt
      <4> QED BY <4>1, <2>2
    <3> QED BY <3>1, <3>2, <1>9 DEF Added
  <2>4. acked' <= Finished'
    <3>1. acked <= Finished /\ acked \in Nat /\ acked' = acked
      BY <1>4, <1>5, ConstantTypes DEF Log, Acked, TypeInv, HistoryTypes, history
    <3> QED BY <3>1, <1>2, <1>1
  <2> QED BY <2>1, <2>3, <2>4, <1>4 DEF Log, Acked
<1>16. Whole'
  <2>1. size' = size /\ needed' = needed /\ torn' = torn /\ Filled' = c
    BY <1>4 DEF history, c
  <2>2. ASSUME NEW l \in 1 .. Filled, l \notin torn, ~(l < needed)
        PROVE  Tiled(Stream, l, Packed(l), size[l])
    BY <2>2, <1>5 DEF Log, Whole, WholeRunning
  <2>3. ASSUME NEW l \in 1 .. c, l \notin torn, ~(l < needed)
        PROVE  Tiled(Stream', l, Packed(l)', size[l])
    <3>1. CASE l # c
      <4>1. l \in 1 .. c - 1 /\ l \in 1 .. Filled
        BY <3>1, <1>1, <1>2
      <4>2. Packed(l)' = size[l]
        BY <2>3, <3>1 DEF c
      <4>3. Packed(l) = size[l]
        BY <3>1 DEF Packed, c
      <4>4. Tiled(Stream, l, size[l], size[l])
        BY <4>1, <4>3, <2>2, <2>3
      <4>5. Tiled(Stream', l, size[l], size[l])
        BY <4>4, <3>1, <1>8, <1>9, AddedOther
      <4> QED BY <4>2, <4>5
    <3>2. CASE l = c /\ cur.split
      <4>1. l \in 1 .. Filled
        BY <3>2, <1>2
      <4>2. Packed(l) = p.from
        BY <3>2, <1>8 DEF Packed, c, s
      <4>3. Tiled(Stream, p.lsn, p.from, s)
        BY <4>1, <4>2, <3>2, <2>2, <2>3, <1>8 DEF s, c
      <4>4. 0 < p.from /\ p.from < s /\ s \in Nat
        <5>1. cur.left \in Nat /\ s \in Nat
          BY <1>1, ConstantTypes DEF TypeInv, FlusherTypes, HistoryTypes, s, c, Lsns
        <5>2. 0 < cur.left /\ cur.left < s
          BY <3>2, <1>2 DEF Numbers, s, c
        <5> QED BY <5>1, <5>2, <1>8
      <4>5. p.kind \in {"Middle", "Last"} /\ (p.kind = "Last" <=> p.from + p.units = s)
        BY <3>2, <1>8 DEF p, s
      <4>6. Tiled(Stream', p.lsn, p.from + p.units, s)
        BY <4>3, <4>4, <4>5, <1>6, <1>8, <1>9, AddedNext
      <4>7. Packed(l)' = p.from + p.units
        BY <3>2, <2>3 DEF p, c
      <4> QED BY <4>6, <4>7, <3>2, <1>8 DEF s, c
    <3>3. CASE l = c /\ ~cur.split
      <4>1. Mine(Stream, p.lsn) = {}
        BY <3>3, <1>1, <1>2, <1>8, <1>10 DEF Mine
      <4>2. p.from = 0
        <5>1. cur.left = s /\ s \in Nat
          BY SMTT(60), <3>3, <1>1, <1>2, ConstantTypes DEF Numbers, s, c, TypeInv, HistoryTypes, Lsns
        <5> QED BY <5>1, <1>8
      <4>3. p.kind \in {"Full", "First"} /\ (p.kind = "Full" <=> p.from + p.units = s)
        BY <3>3, <1>8 DEF p, s
      <4>4. p.from + p.units = p.units
        BY <4>2, <1>8
      <4>5. Tiled(Stream', p.lsn, p.units, s)
        BY <4>1, <4>2, <4>3, <4>4, <1>6, <1>8, <1>9, AddedFirst
      <4>6. Packed(l)' = p.from + p.units
        BY <3>3, <2>3 DEF p, c
      <4> QED BY <4>4, <4>5, <4>6, <3>3, <1>8 DEF s, c
    <3> QED BY <3>1, <3>2, <3>3
  <2> QED BY <2>1, <2>3, <1>5 DEF Whole, WholeRunning
<1> QED
  BY <1>12, <1>13, <1>14, <1>15, <1>16 DEF Log

LEMMA LogPutRest ==
  ASSUME TypeInv, TypeInv', Control, Numbers, Log, PutRest
  PROVE  Log'
<1> DEFINE kind == IF cur.split THEN "Last" ELSE "Full"
<1>1. /\ pc = "pop" /\ cur # NoEntry /\ buf # <<>>
      /\ FlushIfDue(WithPart(kind), used + 1 + cur.left, cur.lsn, FALSE)
      /\ cur' = NoEntry
  BY DEF PutRest, Packing, AtBoundary
<1>2. kind \in {"Full", "Last"} /\ kind \in {"Full", "First", "Middle", "Last"}
      /\ kind \in (IF cur.split THEN {"Middle", "Last"} ELSE {"Full", "First"})
  OBVIOUS
<1> HIDE DEF kind
<1>3. /\ NextPart(kind) \in PartType /\ cur.left \in Nat /\ size[cur.lsn] \in Nat
      /\ cur.left <= size[cur.lsn]
  BY <1>1, <1>2, NextPartType
<1>4. NextPart(kind).from + NextPart(kind).units = size[cur.lsn]
  BY <1>2, <1>3 DEF NextPart
<1>5. cur.lsn # 0 /\ cur.lsn = Popped /\ Finished = Popped - 1 /\ Popped \in Int
  <2>1. cur.lsn # 0
    BY <1>1 DEF Numbers
  <2> QED BY <2>1, FilledTypes DEF Numbers
<1>6. UNCHANGED shared /\ size' = size
  BY <1>1 DEF FlushIfDue, history
<1>7. Popped' = Popped
  BY <1>6 DEF Popped, shared
<1>8. Filled' = Popped /\ Finished' = Popped
  BY <1>1, <1>7 DEF Filled, Finished, NoEntry
<1>9. \A l \in 1 .. cur.lsn :
        Packed(l)' = IF l = cur.lsn THEN NextPart(kind).from + NextPart(kind).units ELSE size[l]
  BY <1>1, <1>4, <1>6 DEF Packed, NoEntry
<1>10. Filled' = cur.lsn /\ Finished <= Finished' /\ Finished' \in Int
  BY <1>5, <1>8
<1> QED
  BY <1>1, <1>2, <1>3, <1>4, <1>9, <1>10, LogPut

LEMMA LogPutPart ==
  ASSUME TypeInv, TypeInv', Control, Numbers, Log, PutPart
  PROVE  Log'
<1> DEFINE kind == IF cur.split THEN "Middle" ELSE "First"
<1>1. /\ pc = "pop" /\ cur # NoEntry /\ buf # <<>> /\ 1 + cur.left > Room /\ 1 < Room
      /\ FlushIfDue(WithPart(kind), BlockUnits, cur.lsn, TRUE)
      /\ cur' = [cur EXCEPT !.left = @ - (Room - 1), !.split = TRUE]
  BY DEF PutPart, Packing, AtBoundary
<1>2. kind \notin {"Full", "Last"} /\ kind \in {"Full", "First", "Middle", "Last"}
      /\ kind \in (IF cur.split THEN {"Middle", "Last"} ELSE {"Full", "First"})
  OBVIOUS
<1> HIDE DEF kind
<1>3. /\ NextPart(kind) \in PartType /\ cur.left \in Nat /\ size[cur.lsn] \in Nat
      /\ cur.left <= size[cur.lsn] /\ Room \in Nat
  BY <1>1, <1>2, NextPartType
<1>4. /\ NextPart(kind).from = size[cur.lsn] - cur.left /\ NextPart(kind).units = Room - 1
  BY <1>2 DEF NextPart
<1>5. NextPart(kind).from + NextPart(kind).units # size[cur.lsn]
  BY <1>1, <1>3, <1>4
<1>6. cur.lsn # 0 /\ cur.lsn = Popped /\ Finished = Popped - 1 /\ Popped \in Int
  <2>1. cur.lsn # 0
    BY <1>1 DEF Numbers
  <2> QED BY <2>1, FilledTypes DEF Numbers
<1>7. UNCHANGED shared /\ size' = size
  BY <1>1 DEF FlushIfDue, history
<1>8. cur'.lsn = cur.lsn /\ cur'.split = TRUE /\ cur'.left = cur.left - (Room - 1)
  BY <1>1 DEF TypeInv, FlusherTypes
<1>9. Popped' = Popped
  BY <1>7 DEF Popped, shared
<1>10. Filled' = Popped /\ Finished' = Popped - 1
  BY <1>6, <1>8, <1>9 DEF Filled, Finished
<1>11. ASSUME NEW l \in 1 .. cur.lsn
       PROVE  Packed(l)' = IF l = cur.lsn THEN NextPart(kind).from + NextPart(kind).units
                           ELSE size[l]
  <2>1. CASE l = cur.lsn
    <3>1. Packed(l)' = size[l] - (cur.left - (Room - 1))
      BY <2>1, <1>7, <1>8 DEF Packed
    <3> QED BY <2>1, <3>1, <1>3, <1>4
  <2>2. CASE l # cur.lsn
    BY <2>2, <1>7, <1>8 DEF Packed
  <2> QED BY <2>1, <2>2
<1>12. Filled' = cur.lsn /\ Finished <= Finished' /\ Finished' \in Int
  BY <1>6, <1>10
<1> QED
  BY <1>1, <1>2, <1>3, <1>5, <1>11, <1>12, LogPut

\* The log is closed: of the stream what is in data' is left, and what was
\* synced is.
LEMMA LogClosed ==
  ASSUME TypeInv, TypeInv', Control, Numbers, Synced, Log, pc # "closed", NoWriter,
         UNCHANGED history, CutTo(Stream, data'), SameNames(Stream, data'),
         \A y \in Places(Stream) : y \notin Places(data') =>
           y[1] = Len(data) /\ y[2] > Last(data).synced,
         \A i \in DOMAIN data' : \A j \in DOMAIN data'[i].blocks : Headed(data'[i].blocks[j]),
         \A x \in Places(data') : ~(x[1] = Len(data') /\ x[2] > Last(data').synced),
         data' # <<>> /\ Last(data').synced > 0 =>
           Reported <= Last(data').blocks[Last(data').synced].max
           \/ acked <= Last(data').blocks[Last(data').synced].max
  PROVE  Log'
<1>1. pc' = "closed" /\ buf' = <<>> /\ max_lsn' = 0 /\ last_filled_lsn' = 0
  BY DEF NoWriter
<1>2. /\ Stream' = data' /\ Stream \in Seq(RotType) /\ data' \in Seq(RotType)
      /\ ~Written' /\ ~ToWrite'
  BY <1>1, StreamFacts, StreamNext DEF Written, ToWrite
<1>3. (Ordered(Stream) /\ Ascending(Stream) /\ Named(Stream))'
  BY <1>2, CutOrdered DEF Log
<1>4. Headers'
  BY <1>1, <1>2 DEF Headers
<1>5. Behind'
  BY <1>1 DEF Behind
<1>6. acked \in Nat /\ acked' = acked /\ max_lsn \in Nat /\ Reported \in Nat /\ acked <= Reported
      /\ Reported' = acked /\ size' = size /\ needed' = needed /\ torn' = torn
  BY <1>1, ConstantTypes DEF Reported, Larger, TypeInv, HistoryTypes, CallerTypes, history
<1>7. Acked'
  <2>1. data' # <<>> /\ Last(data').synced > 0 =>
           acked <= Last(data').blocks[Last(data').synced].max
    <3> SUFFICES ASSUME data' # <<>>, Last(data').synced > 0
                 PROVE  acked <= Last(data').blocks[Last(data').synced].max
      OBVIOUS
    <3> DEFINE i == Len(data') k == Last(data').synced
    <3>1. i \in 1 .. Len(data') /\ Last(data') = data'[i] /\ DOMAIN data' = 1 .. Len(data')
      BY <1>2 DEF Last
    <3>2. data'[i].synced \in Nat /\ data'[i].synced <= Len(data'[i].blocks)
          /\ Len(data'[i].blocks) \in Nat
      BY <3>1, <1>2, RotTypes DEF TypeInv, DiskTypes
    <3>3. k \in 1 .. Len(data'[i].blocks)
      BY <3>1, <3>2
    <3>4. data'[i].blocks[k].max \in Nat
      BY SMTT(60), <3>1, <3>3, <1>2, RotTypes, ConstantTypes
    <3> QED BY <3>1, <3>4, <1>6
  <2> QED BY <2>1, <1>1, <1>2, <1>6 DEF Acked
<1>8. /\ Filled \in Nat /\ Finished \in Nat /\ Popped \in Nat /\ Finished <= Filled
      /\ (cur.split => cur.lsn # 0 /\ Filled = Popped /\ Finished = Popped - 1)
      /\ acked <= Finished
  BY FilledTypes DEF Log, Acked
<1>9. ASSUME NEW l \in 1 .. Filled, l \notin torn, ~(l < needed)
      PROVE  Tiled(Stream, l, Packed(l), size[l])
  BY <1>9 DEF Log, Whole, WholeRunning
<1>10. ASSUME NEW l \in Lsns \ {0}, l \notin torn, ~(l < needed), l <= acked
       PROVE  Tiled(data', l, size[l], size[l])
  <2>1. l \in 1 .. Filled /\ l \in Nat /\ l <= Finished
    BY <1>6, <1>8, <1>10, ConstantTypes DEF Lsns
  <2>2. Packed(l) = size[l]
    <3>1. ~(cur.split /\ l = cur.lsn)
      BY <2>1, <1>8 DEF Numbers
    <3> QED BY <3>1 DEF Packed
  <2>3. Tiled(Stream, l, size[l], size[l])
    BY <2>1, <2>2, <1>9, <1>10
  <2>4. Mine(Stream, l) \subseteq Places(data')
    <3> SUFFICES ASSUME NEW y \in Mine(Stream, l), y \notin Places(data') PROVE FALSE
      OBVIOUS
    <3>1. y \in Places(Stream) /\ LsnAt(Stream, y) = l
      BY DEF Mine
    <3>2. Reported < l
      BY <3>1 DEF Log, Acked
    <3> QED BY <3>2, <2>1, <1>6, <1>10
  <2> QED BY <2>3, <2>4, CutMine, TiledSame
<1>11. ASSUME NEW l \in Lsns \ {0}, l \notin torn, ~(l < needed),
              NEW w \in Places(data'), l <= LsnAt(data', w)
       PROVE  Tiled(data', l, size[l], size[l]) \/ CutOff(data', l)
  <2>1. w \in Places(Stream) /\ LsnAt(data', w) = LsnAt(Stream, w)
    BY DEF CutTo, LsnAt
  <2>2. l \in Nat /\ l >= 1 /\ LsnAt(Stream, w) \in Nat /\ size[l] \in Nat
    <3>1. l \in Nat /\ l >= 1
      BY ConstantTypes DEF Lsns
    <3>2. size[l] \in Nat
      BY DEF TypeInv, HistoryTypes
    <3>3. LsnAt(Stream, w) \in Nat
      BY <2>1, <1>2, AtTypes, ConstantTypes
    <3> QED BY <3>1, <3>2, <3>3
  <2>3. LsnAt(Stream, w) <= Filled
    BY <2>1 DEF Log, Behind
  <2>4. l \in 1 .. Filled
    BY <2>1, <2>2, <2>3, <1>8, <1>11
  <2>5. Tiled(Stream, l, Packed(l), size[l])
    BY <2>4, <1>9, <1>11
  <2>6. /\ Packed(l) \in Nat /\ Packed(l) <= size[l]
        /\ Packed(l) = size[l] \/ \A x \in Places(Stream) : LsnAt(Stream, x) <= l
    <3>1. CASE cur.split /\ l = cur.lsn
      <4>1. cur.left \in Nat /\ cur.left < size[l] /\ l = Popped
        BY <3>1, <1>8 DEF Numbers, TypeInv, FlusherTypes
      <4>2. Packed(l) = size[l] - cur.left
        BY <3>1 DEF Packed
      <4>3. \A x \in Places(Stream) : LsnAt(Stream, x) <= l
        BY <3>1, <4>1, <1>8 DEF Log, Behind
      <4> QED BY <4>1, <4>2, <4>3, <2>2
    <3>2. CASE ~(cur.split /\ l = cur.lsn)
      BY <3>2, <2>2 DEF Packed
    <3> QED BY <3>1, <3>2
  <2>7. l <= LsnAt(data', w) /\ Ordered(Stream)
    BY <1>11 DEF Log
  <2> QED BY <2>2, <2>5, <2>6, <2>7, <1>2, CutWithin
<1>12. Whole'
  <2>1. WholeClosed'
    BY <1>6, <1>10, <1>11 DEF WholeClosed
  <2> QED BY <2>1, <1>1 DEF Whole
<1> QED
  BY <1>3, <1>4, <1>5, <1>7, <1>12 DEF Log

LEMMA InStream ==
  ASSUME TypeInv, NEW x \in Places(data)
  PROVE  x \in Places(Stream) /\ PartAt(Stream, x) = PartAt(data, x)
         /\ LsnAt(Stream, x) = LsnAt(data, x)
<1>1. data \in Seq(RotType) /\ buf \in Seq(BlockType)
  BY DEF TypeInv, DiskTypes, FlusherTypes
<1>2. CASE Stream = data
  BY <1>2 DEF LsnAt
<1>3. CASE data # <<>> /\ Stream = With(data, buf)
  BY <1>1, <1>3, WithPlaces DEF LsnAt
<1> QED
  BY <1>2, <1>3, StreamFacts

\* The last part of a block is what its header says.
LEMMA LastPart ==
  ASSUME NEW D \in Seq(RotType), NEW i \in 1 .. Len(D), NEW j \in 1 .. Len(D[i].blocks),
         Headed(D[i].blocks[j])
  PROVE  \E x \in Places(D) : /\ x = <<i, j, Len(D[i].blocks[j].parts)>>
                              /\ x[1] = i /\ x[2] = j /\ x[3] = Len(D[i].blocks[j].parts)
                              /\ LsnAt(D, x) = D[i].blocks[j].max
<1> DEFINE P == D[i].blocks[j].parts
           x == <<i, j, Len(P)>>
<1>1. P \in Seq(PartType) /\ D[i].blocks \in Seq(BlockType)
  BY RotTypes
<1>2. P # <<>> /\ D[i].blocks[j].max = Last(P).lsn
  BY DEF Headed
<1>3. Len(P) \in DOMAIN P /\ Last(P) = P[Len(P)]
  BY <1>1, <1>2 DEF Last
<1>4. i \in DOMAIN D /\ j \in DOMAIN D[i].blocks
  BY <1>1
<1>5. IsPlace(D, x)
  BY <1>3, <1>4 DEF IsPlace
<1>6. x \in Places(D)
  BY <1>5, PlaceIff
<1>7. LsnAt(D, x) = D[i].blocks[j].max
  BY <1>2, <1>3 DEF LsnAt, PartAt
<1> HIDE DEF P
<1> QED
  BY <1>6, <1>7 DEF P

\* The block has its last part at this place.
EndsAt(D, i, j) ==
  \E x \in Places(D) : /\ x[1] = i /\ x[2] = j /\ x[3] = Len(D[i].blocks[j].parts)
                       /\ LsnAt(D, x) = D[i].blocks[j].max

LEMMA LastPartEnds ==
  ASSUME NEW D \in Seq(RotType), NEW i \in 1 .. Len(D), NEW j \in 1 .. Len(D[i].blocks),
         Headed(D[i].blocks[j])
  PROVE  EndsAt(D, i, j)
<1>1. PICK x \in Places(D) : /\ x[1] = i /\ x[2] = j /\ x[3] = Len(D[i].blocks[j].parts)
                            /\ LsnAt(D, x) = D[i].blocks[j].max
  BY ZenonT(60), SMTT(60), LastPart
<1> QED
  BY <1>1 DEF EndsAt

\* The log is closed, and the last rotation keeps n blocks.
LEMMA LogCut ==
  ASSUME TypeInv, TypeInv', Control, Numbers, Synced, Log, pc # "closed", NoWriter,
         UNCHANGED history, data # <<>>,
         NEW n \in 0 .. Len(Last(data).blocks), CutBehind(data, data', n),
         data'[Len(data)].synced = n, Last(data).synced <= n
  PROVE  Log'
<1> DEFINE m == Len(data) A == data[m].blocks
<1>1. /\ data \in Seq(RotType) /\ data' \in Seq(RotType) /\ buf \in Seq(BlockType)
      /\ <<>> \in Seq(BlockType)
  BY DEF TypeInv, DiskTypes, FlusherTypes
<1>2. /\ m \in 1 .. m /\ m \in Nat /\ Last(data) = data[m] /\ A \in Seq(BlockType)
      /\ data[m].synced \in Nat /\ n \in Nat /\ n \in 0 .. Len(A) /\ Len(A) \in Nat
  BY LastTypes DEF TypeInv
<1>3. /\ Len(data') = m /\ DOMAIN data' = 1 .. m /\ DOMAIN data = 1 .. m
      /\ \A i \in 1 .. m : i < m => data'[i] = data[i]
      /\ data'[m].blocks = SubSeq(A, 1, n)
  BY <1>1 DEF CutBehind
<1>4. /\ Len(data'[m].blocks) = n /\ DOMAIN data'[m].blocks = 1 .. n
      /\ \A j \in 1 .. n : data'[m].blocks[j] = A[j] /\ j \in DOMAIN A
  <2> HIDE DEF A, m
  <2> QED BY <1>2, <1>3
<1>5. Last(data') = data'[m]
  BY <1>3 DEF Last
<1>6. /\ CutTo(Stream, data') /\ SameNames(Stream, data')
      /\ \A y \in Places(Stream) : y \notin Places(data') => y[1] = m /\ y[2] > n
  <2>1. Stream = With(data, buf) \/ Stream = With(data, <<>>)
    BY <1>1, StreamFacts, WithNone
  <2>2. n \in 0 .. Len(data[Len(data)].blocks)
    BY <1>2
  <2> HIDE DEF m, A
  <2> QED BY <1>1, <2>1, <2>2, CutPlaces DEF m
<1>7. \A y \in Places(Stream) : y \notin Places(data') => y[1] = m /\ y[2] > Last(data).synced
  <2> SUFFICES ASSUME NEW y \in Places(Stream), y \notin Places(data')
               PROVE  y[1] = m /\ y[2] > Last(data).synced
    OBVIOUS
  <2>1. y[1] = m /\ y[2] > n
    BY <1>6
  <2>2. y[2] \in Int
    BY StreamFacts, PlaceTypes
  <2> QED BY <2>1, <2>2, <1>2
<1>8. ASSUME NEW i \in DOMAIN data', NEW j \in DOMAIN data'[i].blocks
      PROVE  Headed(data'[i].blocks[j])
  <2>h. Headers
    BY DEF Log
  <2>1. CASE i < m
    <3>1. data'[i] = data[i] /\ i \in DOMAIN data
      BY <2>1, <1>3
    <3> QED BY <3>1, <2>h DEF Headers
  <2>2. CASE i = m
    <3>1. data'[i].blocks[j] = A[j] /\ j \in DOMAIN A /\ i \in DOMAIN data
      BY <2>2, <1>2, <1>3, <1>4
    <3> QED BY <3>1, <2>2, <2>h DEF Headers
  <2> QED BY <2>1, <2>2, <1>2, <1>3
<1>9. ASSUME NEW x \in Places(data') PROVE ~(x[1] = Len(data') /\ x[2] > Last(data').synced)
  <2>1. x[2] \in 1 .. Len(data'[x[1]].blocks)
    BY <1>1, PlaceTypes
  <2> QED BY <2>1, <1>2, <1>3, <1>4, <1>5
<1>10. ASSUME n > 0
       PROVE  Reported <= Last(data').blocks[n].max
  <2>1. n \in 1 .. n /\ data'[m].blocks[n] = A[n] /\ n \in 1 .. Len(A) /\ n \in DOMAIN A
    BY <1>2, <1>4, <1>10
  <2>2. CASE n = Last(data).synced
    BY <2>1, <2>2, <1>2, <1>5, <1>10 DEF Log, Acked
  <2>3. CASE n # Last(data).synced
    <3>1. Headed(data[m].blocks[n])
      BY <2>1, <1>2, <1>3 DEF Log, Headers
    <3>2. PICK x \in Places(data) : x[1] = m /\ x[2] = n /\ LsnAt(data, x) = A[n].max
      BY <1>1, <1>2, <2>1, <3>1, LastPart
    <3>3. x \in Places(Stream) /\ LsnAt(Stream, x) = A[n].max
      BY <3>2, InStream
    <3>4. n > Last(data).synced
      BY <2>3, <1>2
    <3>5. Reported < A[n].max
      BY <3>2, <3>3, <3>4 DEF Log, Acked
    <3>6. Reported \in Nat /\ A[n].max \in Nat
      <4>1. A[n].max \in Nat
        BY <1>2, <2>1, BlockTypes, ConstantTypes
      <4>2. Reported \in Nat
        BY ConstantTypes DEF Reported, Larger, TypeInv, HistoryTypes, CallerTypes
      <4> QED BY <4>1, <4>2
    <3> QED BY <3>5, <3>6, <2>1, <1>5
  <2> QED BY <2>2, <2>3
<1>11. data' # <<>> /\ Last(data').synced > 0 =>
         Reported <= Last(data').blocks[Last(data').synced].max
  BY <1>5, <1>10
<1> HIDE DEF A
<1> QED
  BY <1>6, <1>7, <1>8, <1>9, <1>11, LogClosed

LEMMA LogHalt ==
  ASSUME TypeInv, TypeInv', Control, Numbers, Synced, Log, Halt
  PROVE  Log'
<1>1. pc # "closed" /\ NoWriter /\ UNCHANGED history
  BY DEF Halt
<1>2. CASE data = <<>>
  <2>1. data' = <<>> /\ Stream = <<>>
    BY <1>2, StreamFacts DEF Halt
  <2>2. Places(<<>>) = {}
    BY DEF Places
  <2>3. CutTo(Stream, data') /\ SameNames(Stream, data')
    BY <2>1, <2>2 DEF CutTo, SameNames
  <2> QED BY <1>1, <2>1, <2>2, <2>3, LogClosed
<1>3. CASE data # <<>>
  <2>1. PICK n \in 0 .. Len(Last(data).blocks) :
          /\ CutBehind(data, data', n)
          /\ data'[Len(data)].synced = n /\ Last(data).synced <= n
    BY <1>3, HaltData DEF TypeInv
  <2> QED BY <1>1, <1>3, <2>1, LogCut
<1> QED
  BY <1>2, <1>3

LEMMA LogTop ==
  ASSUME TypeInv, TypeInv', Control, Numbers, Synced, Log, Top, ~running
  PROVE  Log'
<1>1. pc = "top" /\ NoWriter /\ UNCHANGED history /\ data' = data /\ data # <<>>
  BY DEF Top, disk, Control, Early
<1> DEFINE m == Len(data) A == data[m].blocks n == Len(A)
<1>2. /\ m \in DOMAIN data /\ m \in Nat /\ Last(data) = data[m] /\ A \in Seq(BlockType)
      /\ n \in Nat /\ data[m].synced \in Nat
  BY <1>1, LastTypes DEF TypeInv, DiskTypes
<1>3. data[m].synced = n
  BY <1>1, <1>2 DEF Synced
<1>4. CutBehind(data, data', n)
  <2>1. SubSeq(A, 1, n) = A
    <3> HIDE DEF A
    <3> QED BY <1>2
  <2> QED BY <2>1, <1>1 DEF CutBehind
<1>5. n \in 0 .. Len(Last(data).blocks) /\ Last(data).synced <= n /\ data'[Len(data)].synced = n
  BY <1>1, <1>2, <1>3
<1> QED
  BY <1>1, <1>4, <1>5, LogCut

\* A closed log that can be opened: what the disk says is all that was reported
\* and all that is there.
LEMMA Reopened ==
  ASSUME TypeInv, Control, Numbers, Synced, Manifest, Log, pc = "closed", Restored.ok,
         ~BlankManifest
  PROVE  /\ Stream = data /\ Restored.max \in 0 .. MaxLsn /\ acked <= Restored.max
         /\ \A x \in Places(data) : LsnAt(data, x) <= Restored.max
         /\ data # <<>> => Last(data).first <= Restored.max + 1
         /\ Restored.max # 0 => \E x \in Places(data) : LsnAt(data, x) = Restored.max
         /\ data # <<>> /\ Last(data).synced > 0 =>
              Restored.max = Last(data).blocks[Last(data).synced].max
         /\ \A x \in Places(data) : ~(x[1] = Len(data) /\ x[2] > Last(data).synced)
<1>1. /\ data \in Seq(RotType) /\ buf = <<>> /\ Stream = data
  BY StreamFacts DEF Control
<1>2. Restored.max \in 0 .. MaxLsn /\ acked \in Nat
  BY RestoredTypes, ConstantTypes DEF TypeInv, HistoryTypes
<1>3. ASSUME NEW x \in Places(data) PROVE ~(x[1] = Len(data) /\ x[2] > Last(data).synced)
  <2>1. /\ x[1] \in 1 .. Len(data) /\ x[2] \in 1 .. Len(data[x[1]].blocks)
    BY <1>1, PlaceTypes
  <2>2. x[1] \in DOMAIN data /\ Last(data) = data[Len(data)]
    BY <2>1, <1>1 DEF Last
  <2>3. data[x[1]].synced = Len(data[x[1]].blocks) /\ Len(data[x[1]].blocks) \in Nat
    BY <2>1, <2>2, <1>1, RotTypes DEF Synced
  <2> QED BY <2>1, <2>2, <2>3
<1>4. CASE mani = <<>> \/ Last(mani).entries = <<>>
  <2>1. Restored.max = 0 /\ acked = 0
        /\ \A i \in DOMAIN data : data[i].first = 1 /\ data[i].blocks = <<>>
    <3>1. CASE mani = <<>>
      <4>1. data = <<>> /\ acked = 0
        BY <3>1 DEF Manifest
      <4>2. Restored.max = 0
        BY <3>1 DEF Restored
      <4> QED BY <4>1, <4>2
    <3>2. CASE mani # <<>> /\ Last(mani).entries = <<>>
      <4>1. ~(Len(mani) > 1) /\ mani \in Seq(ManiType)
        BY <3>2 DEF BlankManifest, TypeInv, DiskTypes
      <4>2. Len(mani) < 2
        BY <4>1
      <4>3. Len(mani) = 1
        BY <3>2, <4>1, <4>2, OfOne
      <4>4. Last(mani) = mani[1] /\ Last(mani).synced = Len(Last(mani).entries)
        BY <4>3, <3>2 DEF Last, Manifest
      <4>5. Fresh
        BY <4>3, <4>4, <3>2 DEF Fresh
      <4>6. Restored.max = 0
        BY <3>2, RestoredCases DEF TypeInv
      <4> QED BY <4>5, <4>6 DEF Manifest, Beginning
    <3> QED BY <3>1, <3>2, <1>4
  <2>2. Places(data) = {}
    <3>1. \A x \in Places(data) : x[1] \in DOMAIN data /\ x[2] \in DOMAIN data[x[1]].blocks
      BY PlaceIff DEF IsPlace
    <3> QED BY <3>1, <2>1
  <2>3. ASSUME data # <<>> PROVE Last(data).first = 1 /\ Last(data).synced = 0
    <3>1. Len(data) \in DOMAIN data /\ Last(data) = data[Len(data)]
      BY <2>3, <1>1 DEF Last
    <3>2. data[Len(data)].synced = Len(data[Len(data)].blocks)
      BY <3>1 DEF Synced
    <3>3. data[Len(data)].first = 1 /\ data[Len(data)].blocks = <<>>
      BY <2>1, <3>1
    <3> QED BY <3>1, <3>2, <3>3
  <2> QED BY <1>1, <1>2, <2>1, <2>2, <2>3
<1>5. CASE ~(mani = <<>> \/ Last(mani).entries = <<>>)
  <2> DEFINE m == Len(data) A == data[m].blocks n == Len(A)
  <2>1. data # <<>> /\ Last(data).blocks # <<>> /\ Restored.max = Last(Last(data).blocks).max
    BY <1>5, RestoredCases DEF TypeInv
  <2>2. /\ m \in DOMAIN data /\ m \in 1 .. m /\ m \in Nat /\ Last(data) = data[m]
        /\ A \in Seq(BlockType) /\ n \in Nat
    BY <2>1, LastTypes DEF TypeInv, DiskTypes
  <2>3. A # <<>> /\ data[m].synced = n
    BY <2>1, <2>2, <1>5 DEF Synced
  <2>4. n \in 1 .. n /\ n \in DOMAIN A /\ Restored.max = A[n].max /\ n > 0
    <3>1. Restored.max = Last(A).max
      BY <2>1, <2>2
    <3> HIDE DEF A
    <3> QED BY <3>1, <2>2, <2>3 DEF Last
  <2>5. Headed(data[m].blocks[n])
    BY <2>2, <2>4 DEF Log, Headers
  <2>6. PICK x \in Places(data) : /\ x[1] = m /\ x[2] = n /\ x[3] = Len(A[n].parts)
                                  /\ LsnAt(data, x) = Restored.max
    <3>1. m \in 1 .. Len(data) /\ n \in 1 .. Len(data[m].blocks)
      BY <2>2, <2>4
    <3>2. \E x \in Places(data) : /\ x[1] = m /\ x[2] = n
                                  /\ x[3] = Len(data[m].blocks[n].parts)
                                  /\ LsnAt(data, x) = data[m].blocks[n].max
      <4> HIDE DEF m, n
      <4>1. data \in Seq(RotType)
        BY <1>1
      <4>2. m \in 1 .. Len(data)
        BY <3>1
      <4>3. n \in 1 .. Len(data[m].blocks)
        BY <3>1
      <4>4. EndsAt(data, m, n)
        BY <4>1, <4>2, <4>3, <2>5, LastPartEnds
      <4> QED BY <4>4 DEF EndsAt
    <3> QED BY <3>2, <2>4
  <2>7. ASSUME NEW y \in Places(data) PROVE LsnAt(data, y) <= Restored.max
    <3>1. /\ y[1] \in 1 .. Len(data) /\ y[2] \in 1 .. Len(data[y[1]].blocks)
          /\ y[3] \in 1 .. Len(data[y[1]].blocks[y[2]].parts)
      BY <1>1, PlaceTypes
    <3>2. ~Before(x, y)
      <4>1. y[1] <= m
        BY <3>1
      <4>2. y[1] = m => y[2] <= n
        BY <3>1
      <4>3. y[1] = m /\ y[2] = n => y[3] <= Len(A[n].parts)
        BY <3>1
      <4>4. Len(A[n].parts) \in Nat
        BY <2>2, <2>4, BlockTypes
      <4> HIDE DEF m, n, A
      <4> QED BY SMTT(60), <4>1, <4>2, <4>3, <4>4, <3>1, <2>2, <2>6 DEF Before
    <3>3. Before(y, x) \/ y = x
      BY <3>2, <1>1, BeforeTotal
    <3>4. Ordered(data)
      BY <1>1 DEF Log
    <3>5. Before(y, x) => LsnAt(data, y) <= LsnAt(data, x)
      BY <3>4 DEF Ordered
    <3> QED BY <3>3, <3>5, <2>6, <1>2
  <2>8. Last(data).first <= Restored.max
    <3>1. Named(data)
      BY <1>1 DEF Log
    <3>2. x[1] >= m => data[m].first <= LsnAt(data, x)
      BY <3>1, <2>2 DEF Named
    <3> QED BY <3>2, <2>2, <2>6
  <2>9. acked <= Restored.max
    <3>1. Reported <= A[n].max
      BY <2>1, <2>2, <2>3, <2>4 DEF Log, Acked
    <3>2. acked <= Reported /\ Reported \in Nat
      BY <1>2, ConstantTypes DEF Reported, Larger, TypeInv, CallerTypes
    <3> QED BY <3>1, <3>2, <2>4, <1>2
  <2>10. Last(data).first <= Restored.max + 1
    BY <2>1, <2>8, <1>2, LastTypes DEF TypeInv
  <2>11. Restored.max = Last(data).blocks[Last(data).synced].max
    BY <2>2, <2>3, <2>4
  <2> HIDE DEF m, n, A
  <2> QED BY <1>1, <1>2, <1>3, <2>6, <2>7, <2>9, <2>10, <2>11
<1> QED
  BY <1>4, <1>5, <1>3

LEMMA LogOpen ==
  ASSUME TypeInv, TypeInv', Control, Numbers, Synced, Manifest, Log, Open, faults' = {}
  PROVE  Log'
<1> DEFINE top == Restored.max
<1>1. /\ pc = "closed" /\ Restored.ok /\ pc' = "open_data" /\ data' = data
      /\ max_lsn' = top /\ next_lsn' = top + 1 /\ torn' = torn \cup Torn
      /\ UNCHANGED <<ring, packing, size, acked, needed>>
  BY DEF Open, Goto
<1>2. ~BlankManifest
  BY DEF Open
<1>3. /\ Stream = data /\ top \in 0 .. MaxLsn /\ acked <= top
      /\ \A x \in Places(data) : LsnAt(data, x) <= top
      /\ data # <<>> => Last(data).first <= top + 1
      /\ top # 0 => \E x \in Places(data) : LsnAt(data, x) = top
      /\ data # <<>> /\ Last(data).synced > 0 =>
           top = Last(data).blocks[Last(data).synced].max
      /\ \A x \in Places(data) : ~(x[1] = Len(data) /\ x[2] > Last(data).synced)
  BY <1>1, <1>2, Reopened
<1>4. buf = <<>> /\ last_filled_lsn = 0 /\ ring = <<>> /\ cur = NoEntry /\ cur.lsn = 0
      /\ cur.split = FALSE
  BY <1>1 DEF Control, Early, Numbers, NoEntry
<1> HIDE DEF top
<1>5. top \in Nat
  BY <1>3, ConstantTypes
<1>6. /\ Stream' = data /\ ~Written' /\ ~ToWrite' /\ buf' = <<>> /\ last_filled_lsn' = 0
      /\ cur' = cur
  BY <1>1, <1>4, StreamNext DEF Written, ToWrite, packing
<1>7. Popped' = top /\ Filled' = top /\ Finished' = top
  <2>1. Popped' = top
    <3>1. Len(ring') = 0 /\ next_lsn' = top + 1
      BY <1>1, <1>4
    <3> QED BY <3>1, <1>5 DEF Popped
  <2> QED BY <2>1, <1>4, <1>6 DEF Filled, Finished
<1>8. (Ordered(Stream) /\ Ascending(Stream) /\ Named(Stream))'
  BY <1>3, <1>6 DEF Log
<1>9. Headers'
  BY <1>1, <1>6 DEF Log, Headers
<1>10. Behind'
  BY <1>1, <1>3, <1>4, <1>6, <1>7 DEF Behind
<1>11. Acked'
  <2>1. Reported' = top
    BY <1>1, <1>3, <1>5, ConstantTypes DEF Reported, Larger, TypeInv, HistoryTypes
  <2>2. top <= top
    BY <1>5
  <2> QED BY <2>1, <2>2, <1>1, <1>3, <1>6, <1>7 DEF Acked
<1>12. Whole'
  <2>1. ASSUME NEW l \in 1 .. top
        PROVE  l < needed \/ l \in torn' \/ Tiled(data, l, size[l], size[l])
    <3>1. PICK x \in Places(data) : LsnAt(data, x) = top
      BY <1>3, <1>5
    <3>2. l <= LsnAt(data, x) /\ l \in Lsns \ {0}
      BY <3>1, <1>3, ConstantTypes DEF Lsns
    <3>3. l < needed \/ l \in torn \/ Tiled(data, l, size[l], size[l]) \/ CutOff(data, l)
      BY <3>2, <1>1 DEF Log, Whole, WholeClosed
    <3>4. CutOff(data, l) => l \in Torn
      BY DEF CutOff, Torn, Mine, LsnAt, KindAt
    <3> QED BY <3>3, <3>4, <1>1
  <2>2. \A l \in 1 .. top : Packed(l)' = size[l]
    BY <1>1, <1>4, <1>6 DEF Packed
  <2> QED BY <2>1, <2>2, <1>1, <1>6, <1>7 DEF Whole, WholeRunning
<1> QED
  BY <1>8, <1>9, <1>10, <1>11, <1>12 DEF Log

\* A new rotation behind the others.
LEMMA LogNewRot ==
  ASSUME TypeInv, TypeInv', Control, Numbers, Log, pc # "closed", pc' # "closed",
         Stream = data, Stream' = data', NEW f \in Nat, data' = Append(data, NewRot(f)),
         \A x \in Places(data) : LsnAt(data, x) < f,
         \A i \in DOMAIN data : data[i].first <= f,
         f <= Filled + 1, ~cur.split,
         buf' = buf, cur' = cur, last_filled_lsn' = last_filled_lsn, max_lsn' = max_lsn,
         ring' = ring, next_lsn' = next_lsn, UNCHANGED history,
         ToWrite' \/ Written' => Written, Written' => Written
  PROVE  Log'
<1> DEFINE m == Len(data) N == NewRot(f)
<1>1. data \in Seq(RotType) /\ data' \in Seq(RotType) /\ SameParts(data, data')
  BY NewRotPlaces DEF TypeInv, DiskTypes
<1>2. /\ N.first = f /\ N.blocks = <<>> /\ N.synced = 0
  BY DEF NewRot
<1> HIDE DEF N
<1>3. /\ Len(data') = m + 1 /\ DOMAIN data' = 1 .. m + 1 /\ DOMAIN data = 1 .. m /\ m \in Nat
      /\ data'[m + 1] = N /\ \A i \in 1 .. m : data'[i] = data[i]
  <2>1. data' = Append(data, N)
    BY DEF N
  <2> QED BY <2>1, <1>1
<1>4. data' # <<>> /\ Last(data') = N
  BY <1>3 DEF Last
<1>5. Filled' = Filled /\ Finished' = Finished /\ size' = size /\ needed' = needed
      /\ torn' = torn /\ acked' = acked
  BY DEF Filled, Finished, Popped, history
<1>6. \A x \in Places(data') : x \in Places(data) /\ LsnAt(data', x) = LsnAt(data, x)
                               /\ x[1] \in 1 .. m
  BY <1>1, PlaceTypes DEF SameParts, LsnAt
<1> HIDE DEF m
<1>7. Ordered(data')
  BY <1>1, SamePartsOrdered DEF Log
<1>8. Ascending(data')
  <2> SUFFICES ASSUME NEW i \in DOMAIN data', NEW j \in DOMAIN data', i < j
               PROVE  data'[i].first <= data'[j].first
    BY DEF Ascending
  <2>1. i \in 1 .. m /\ data'[i] = data[i] /\ i \in DOMAIN data
    BY <1>3
  <2>2. CASE j = m + 1
    BY <2>1, <2>2, <1>2, <1>3
  <2>3. CASE j # m + 1
    <3>1. j \in 1 .. m /\ data'[j] = data[j] /\ j \in DOMAIN data
      BY <2>3, <1>3
    <3>2. Ascending(data)
      BY DEF Log
    <3> QED BY <3>1, <3>2, <2>1 DEF Ascending
  <2> QED BY <2>2, <2>3
<1>9. Named(data')
  <2> SUFFICES ASSUME NEW x \in Places(data'), NEW i \in DOMAIN data'
               PROVE  /\ x[1] < i => LsnAt(data', x) < data'[i].first
                      /\ x[1] >= i => data'[i].first <= LsnAt(data', x)
    BY DEF Named
  <2>1. x \in Places(data) /\ LsnAt(data', x) = LsnAt(data, x) /\ x[1] \in 1 .. m
    BY <1>6
  <2>2. CASE i = m + 1
    BY <2>1, <2>2, <1>2, <1>3
  <2>3. CASE i # m + 1
    <3>1. i \in 1 .. m /\ data'[i] = data[i] /\ i \in DOMAIN data
      BY <2>3, <1>3
    <3>2. Named(data)
      BY DEF Log
    <3> QED BY <3>1, <3>2, <2>1 DEF Named
  <2> QED BY <2>2, <2>3
<1>10. Headers'
  <2>h. Headers
    BY DEF Log
  <2>1. \A i \in DOMAIN data' : \A j \in DOMAIN data'[i].blocks : Headed(data'[i].blocks[j])
    <3> SUFFICES ASSUME NEW i \in DOMAIN data', NEW j \in DOMAIN data'[i].blocks
                 PROVE  Headed(data'[i].blocks[j])
      OBVIOUS
    <3>1. i # m + 1
      BY <1>2, <1>3
    <3>2. data'[i] = data[i] /\ i \in DOMAIN data
      BY <3>1, <1>3
    <3> QED BY <3>2, <2>h DEF Headers
  <2>2. Last(data').blocks = <<>>
    BY <1>2, <1>4
  <2> QED BY <2>h, <2>1, <2>2, <1>5 DEF Headers
<1>11. Behind'
  <2>1. \A x \in Places(data') : LsnAt(data', x) <= Filled
    BY <1>6 DEF Log, Behind
  <2> QED BY <2>1, <1>2, <1>4, <1>5 DEF Behind
<1>12. Acked'
  <2>1. \A x \in Places(data') : ~(x[1] = Len(data'))
    BY <1>3, <1>6
  <2>2. Last(data').synced = 0
    BY <1>2, <1>4
  <2> QED BY <2>1, <2>2, <1>5 DEF Log, Acked
<1>13. Whole'
  <2>1. \A l \in 1 .. Filled : Packed(l)' = Packed(l)
    BY <1>5 DEF Packed
  <2>2. needed <= needed'
    BY <1>5 DEF TypeInv, HistoryTypes
  <2> QED BY <2>1, <2>2, <1>1, <1>5, WholeKept DEF Log
<1> QED
  BY <1>7, <1>8, <1>9, <1>10, <1>11, <1>12, <1>13 DEF Log

LEMMA LogOpenData ==
  ASSUME TypeInv, TypeInv', Control, Numbers, Log, OpenData
  PROVE  Log'
<1>1. pc = "open_data" /\ pc' = "start" /\ then' = then /\ buf = <<>>
      /\ UNCHANGED <<mani, min_lsn, max_lsn, ring, next_lsn, adv, packing, history>>
  BY DEF OpenData, Goto, Control
<1>2. ~Written /\ ~Written' /\ ~ToWrite'
  BY <1>1 DEF Written, ToWrite
<1>3. CASE data = <<>>
  <2>1. data' = Append(data, NewRot(1)) /\ Places(data) = {}
    BY <1>3 DEF OpenData, Places
  <2>2. Stream = data /\ Stream' = data'
    BY <1>1, StreamFacts, StreamNext DEF packing
  <2>3. Filled \in Nat /\ ~cur.split
    BY <1>1, FilledTypes DEF Numbers, NoEntry
  <2>4. \A i \in DOMAIN data : FALSE
    BY <1>3
  <2>5. 1 \in Nat /\ 1 <= Filled + 1
    BY <2>3
  <2>6. \A x \in Places(data) : LsnAt(data, x) < 1
    BY <2>1
  <2>7. \A i \in DOMAIN data : data[i].first <= 1
    BY <2>4
  <2> QED BY <1>1, <1>2, <2>1, <2>2, <2>3, <2>5, <2>6, <2>7, LogNewRot DEF packing
<1>4. CASE data # <<>>
  <2>1. data' = data
    BY <1>4 DEF OpenData
  <2>2. Filled' = Filled /\ Finished' = Finished
    BY <1>1 DEF Filled, Finished, Popped, packing
  <2>3. needed \in Nat
    BY DEF TypeInv, HistoryTypes
  <2> QED BY <1>1, <1>2, <2>1, <2>2, <2>3, LogElsewhere DEF packing, history
<1> QED
  BY <1>3, <1>4

LEMMA LogRotNew ==
  ASSUME TypeInv, TypeInv', Control, Numbers, Log, RotNew
  PROVE  Log'
<1> DEFINE f == last_filled_lsn + 1
<1>1. /\ pc = "rot_new" /\ data' = Append(data, NewRot(f)) /\ data # <<>> /\ ~cur.split
      /\ pc' = "remove" /\ then' = <<"flushed">> \o then /\ buf' = buf
      /\ UNCHANGED <<shared, cur, last_filled_lsn, opens, size, needed, torn, acked, faults>>
  BY DEF RotNew, Frame, Call, Control, Early
<1>2. then \in {<<"pop">>, <<"lsn">>}
  BY <1>1, ReturnsTo DEF TypeInv, FlusherTypes, Packers
<1>3. Written /\ Written' /\ ~ToWrite'
  BY <1>1, <1>2, Pairs DEF Written, ToWrite
<1>4. Stream = data /\ Stream' = data'
  BY <1>3, StreamFacts, StreamNext
<1>5. last_filled_lsn # 0
  <2>1. buf # <<>> /\ buf \in Seq(BlockType)
    BY <1>3 DEF Control, TypeInv, FlusherTypes
  <2>2. 1 \in DOMAIN buf
    BY <2>1
  <2> QED BY <2>2, <1>3 DEF Log, Headers
<1>6. last_filled_lsn = Filled /\ Filled \in Nat /\ f = Filled + 1
  BY <1>1, <1>5, FilledTypes DEF Log, Headers
<1>7. ASSUME NEW x \in Places(data) PROVE LsnAt(data, x) < f
  <2>1. LsnAt(data, x) <= Filled
    BY <1>1, <1>4 DEF Log, Behind
  <2>2. LsnAt(data, x) \in Nat
    BY AtTypes, ConstantTypes DEF TypeInv, DiskTypes
  <2> QED BY <2>1, <2>2, <1>6
<1>8. ASSUME NEW i \in DOMAIN data PROVE data[i].first <= f
  <2>1. /\ Last(data) = data[Len(data)] /\ Len(data) \in DOMAIN data /\ DOMAIN data = 1 .. Len(data)
        /\ Len(data) \in Nat /\ data \in Seq(RotType)
    BY <1>1, LastTypes DEF TypeInv, DiskTypes
  <2>2. Last(data).first <= Filled + 1
    BY <1>1 DEF Log, Behind
  <2>3. i < Len(data) => data[i].first <= data[Len(data)].first
    BY <1>4, <2>1 DEF Log, Ascending
  <2>4. data[i].first \in Nat /\ data[Len(data)].first \in Nat
    BY <2>1, RotTypes
  <2> QED BY <2>1, <2>2, <2>3, <2>4, <1>6
<1>9. f \in Nat /\ f <= Filled + 1
  BY <1>6
<1> HIDE DEF f
<1> QED
  BY <1>1, <1>3, <1>4, <1>7, <1>8, <1>9, LogNewRot DEF shared, history

LEMMA LogWrite ==
  ASSUME TypeInv, TypeInv', Control, Numbers, Log, Write, faults' = {}
  PROVE  Log'
<1> DEFINE m == Len(data) A == data[m].blocks a == Len(A) b == Len(buf) C == data'[m].blocks
<1>1. /\ pc = "write" /\ pc' \in {"sync", "rot_sync"} /\ then' = then /\ data # <<>> /\ buf # <<>>
      /\ buf' = buf
      /\ UNCHANGED <<shared, cur, last_filled_lsn, opens, size, needed, torn, acked>>
  BY DEF Write, Frame, Goto, Control, Early, ToWrite
<1>2. \A i \in DOMAIN buf : buf[i].parts # <<>>
  BY DEF Write
<1>3. ToWrite /\ ~Written /\ Written' /\ ~ToWrite'
  BY <1>1 DEF Written, ToWrite
<1>4. /\ data \in Seq(RotType) /\ buf \in Seq(BlockType) /\ data' \in Seq(RotType)
      /\ data' = With(data, buf)
  BY <1>1, WriteData DEF TypeInv, DiskTypes, FlusherTypes
<1>5. Stream' = Stream
  BY <1>3, <1>4, StreamFacts, StreamNext
<1>6. SameParts(Stream, Stream') /\ SameNames(Stream, Stream')
  BY <1>5, SameIsSame
<1>7. Filled' = Filled /\ Finished' = Finished
  BY <1>1 DEF Filled, Finished, Popped, shared
<1>8. /\ Len(data') = m /\ DOMAIN data' = 1 .. m /\ DOMAIN data = 1 .. m /\ m \in Nat
      /\ m \in 1 .. m
      /\ \A i \in 1 .. m : /\ data'[i].first = data[i].first
                           /\ data'[i].synced = data[i].synced
                           /\ i < m => data'[i] = data[i]
  <2>1. m \in 1 .. m
    BY <1>1, LastTypes DEF TypeInv
  <2> QED BY <2>1, <1>1, <1>4, WithFacts
<1>9. /\ Len(C) = a + b /\ a \in Nat /\ b \in Nat
      /\ \A j \in 1 .. a : C[j] = A[j]
      /\ \A j \in 1 .. b : C[a + j] = buf[j]
  BY <1>1, <1>4, WithBlocks
<1>10. DOMAIN C = 1 .. a + b /\ DOMAIN A = 1 .. a /\ DOMAIN buf = 1 .. b /\ b \in 1 .. b
  <2>1. C \in Seq(BlockType) /\ A \in Seq(BlockType)
    BY <1>4, <1>8, RotTypes
  <2>2. b # 0
    BY <1>1, <1>4
  <2> HIDE DEF A, C
  <2> QED BY <2>1, <2>2, <1>4, <1>9
<1>11. Last(data') = data'[m] /\ Last(data) = data[m] /\ Last(data').first = Last(data).first
  BY <1>8 DEF Last
<1> HIDE DEF m, A, C, a, b
<1>12. (Ordered(Stream) /\ Ascending(Stream) /\ Named(Stream))'
  BY <1>5 DEF Log
<1>13. Headers'
  <2>h. Headers
    BY DEF Log
  <2>1. ASSUME NEW j \in 1 .. b PROVE Headed(buf[j])
    BY <2>h, <1>2, <1>3, <1>10 DEF Headers
  <2>2. ASSUME NEW i \in DOMAIN data', NEW j \in DOMAIN data'[i].blocks
        PROVE  Headed(data'[i].blocks[j])
    <3>1. CASE i < m
      <4>1. data'[i] = data[i] /\ i \in DOMAIN data
        BY <3>1, <1>8
      <4> QED BY <4>1, <2>h DEF Headers
    <3>2. CASE i = m
      <4>1. j \in 1 .. a + b /\ data'[i].blocks[j] = C[j]
        BY <3>2, <1>10 DEF C
      <4>2. CASE j <= a
        <5>1. j \in 1 .. a /\ C[j] = A[j]
          BY <4>1, <4>2, <1>9
        <5>2. j \in DOMAIN data[m].blocks /\ m \in DOMAIN data
          BY <5>1, <1>8, <1>10 DEF A
        <5>3. Headed(data[m].blocks[j])
          BY <5>2, <2>h DEF Headers
        <5> QED BY <5>1, <5>3, <4>1 DEF A
      <4>3. CASE ~(j <= a)
        <5>1. j - a \in 1 .. b /\ a + (j - a) = j
          BY <4>1, <4>3, <1>9
        <5>2. C[j] = buf[j - a]
          BY <5>1, <1>9
        <5> QED BY <5>1, <5>2, <4>1, <2>1
      <4> QED BY <4>2, <4>3
    <3> QED BY <3>1, <3>2, <1>8
  <2>3. Last(Last(data').blocks).max = last_filled_lsn
    <3>1. Last(Last(data').blocks) = buf[b]
      <4>1. Last(C) = C[a + b]
        BY <1>9 DEF Last
      <4>2. Last(data').blocks = C
        BY <1>11 DEF C
      <4> QED BY <4>1, <4>2, <1>9, <1>10
    <3>2. Last(buf) = buf[b]
      BY DEF Last, b
    <3>3. Headed(buf[b]) /\ Last(buf).parts # <<>>
      BY <2>1, <1>2, <1>10, <3>2
    <3>4. Last(Last(buf).parts).lsn = last_filled_lsn
      BY <3>3, <1>1, <2>h DEF Headers
    <3> QED BY <3>1, <3>2, <3>3, <3>4 DEF Headed
  <2>4. ASSUME NEW j \in DOMAIN buf' PROVE Headed(buf'[j]) /\ buf'[j].parts # <<>>
    BY <2>1, <1>1, <1>2, <1>10
  <2>5. last_filled_lsn' = last_filled_lsn
    BY <1>1
  <2> QED BY <2>2, <2>3, <2>4, <2>5, <2>h, <1>1, <1>7 DEF Headers
<1>14. Behind'
  <2>1. pc # "closed" /\ cur'.split = cur.split
    BY <1>1
  <2> QED BY <2>1, <1>1, <1>6, <1>7, <1>11, BehindKept DEF Log
<1>15. Acked'
  <2>1. Reported' = Reported /\ acked' = acked
    BY <1>1 DEF Reported, shared
  <2>2. Last(data').synced = Last(data).synced /\ Len(data') = Len(data)
    BY <1>8, <1>11 DEF m
  <2>3. ASSUME Last(data).synced > 0
        PROVE  Reported <= Last(data').blocks[Last(data').synced].max
    <3>1. Last(data).synced \in 1 .. a
      BY <2>3, <1>1, <1>11, LastTypes DEF TypeInv, A, a
    <3>2. C[Last(data).synced] = A[Last(data).synced]
      BY <3>1, <1>9
    <3>3. Reported <= Last(data).blocks[Last(data).synced].max
      BY <2>3, <1>1 DEF Log, Acked
    <3> QED BY <3>2, <3>3, <2>2, <1>11 DEF A, C
  <2>4. acked <= Finished
    BY <1>1 DEF Log, Acked
  <2>5. \A x \in Places(Stream) :
          x[1] = Len(data) /\ x[2] > Last(data).synced => Reported < LsnAt(Stream, x)
    BY DEF Log, Acked
  <2> QED BY <2>1, <2>2, <2>3, <2>4, <2>5, <1>5, <1>7 DEF Acked
<1>16. Whole'
  <2>1. \A l \in 1 .. Filled : Packed(l)' = Packed(l)
    BY <1>1 DEF Packed
  <2>2. needed <= needed'
    BY <1>1 DEF TypeInv, HistoryTypes
  <2> QED BY <2>1, <2>2, <1>1, <1>6, <1>7, WholeKept DEF Log
<1> QED
  BY <1>12, <1>13, <1>14, <1>15, <1>16 DEF Log

\* What was reported is in the blocks that are synced now.
LEMMA ReportedFilled ==
  ASSUME TypeInv, Control, Numbers, Log, Written
  PROVE  /\ last_filled_lsn = Filled /\ Filled \in Nat /\ Finished \in Nat /\ Finished <= Filled
         /\ Reported <= Finished /\ acked <= Finished /\ max_lsn <= Finished
         /\ max_flushed_lsn = Finished
<1>1. last_filled_lsn # 0
  <2>1. buf # <<>> /\ buf \in Seq(BlockType)
    BY DEF Control, TypeInv, FlusherTypes
  <2>2. 1 \in DOMAIN buf
    BY <2>1
  <2> QED BY <2>2 DEF Log, Headers
<1>2. pc \notin {"closed", "open_data", "start"}
  BY DEF Written
<1>3. max_lsn <= Finished /\ acked <= Finished /\ max_flushed_lsn = Finished
  BY <1>2 DEF Numbers, Log, Acked
<1>4. Reported \in {acked, max_lsn}
  BY DEF Reported, Larger
<1> QED
  BY <1>1, <1>2, <1>3, <1>4, FilledTypes DEF Log, Headers

LEMMA LogSync ==
  ASSUME TypeInv, TypeInv', Control, Numbers, Log, Sync \/ RotSync
  PROVE  Log'
<1> DEFINE m == Len(data) A == data[m].blocks
<1>1. /\ SyncData /\ pc \in {"sync", "rot_sync"} /\ pc' \in {"flushed", "rot_new"}
      /\ then' = then /\ data # <<>> /\ buf' = buf
      /\ UNCHANGED <<shared, cur, last_filled_lsn, opens, size, needed, torn, acked>>
  BY DEF Sync, RotSync, SyncData, Frame, Goto, Control, Early
<1>2. Written /\ Written' /\ ~ToWrite'
  BY <1>1 DEF Written, ToWrite
<1>3. /\ data \in Seq(RotType) /\ data' \in Seq(RotType) /\ Len(data') = m
      /\ DOMAIN data' = 1 .. m /\ DOMAIN data = 1 .. m /\ m \in 1 .. m /\ m \in Nat
      /\ \A i \in 1 .. m : /\ data'[i].first = data[i].first
                           /\ data'[i].blocks = data[i].blocks
      /\ data'[m].synced = Len(A)
  <2>1. m \in 1 .. m
    BY <1>1, LastTypes DEF TypeInv
  <2> QED BY <2>1, <1>1, SyncFacts DEF TypeInv, DiskTypes
<1>4. Stream = data /\ Stream' = data'
  BY <1>2, StreamFacts, StreamNext
<1>5. SameParts(Stream, Stream') /\ SameNames(Stream, Stream')
  BY <1>3, <1>4, SameRotsPlaces DEF SameNames
<1>6. Filled' = Filled /\ Finished' = Finished
  BY <1>1 DEF Filled, Finished, Popped, shared
<1>7. /\ Last(data') = data'[m] /\ Last(data) = data[m] /\ Last(data').first = Last(data).first
      /\ Last(data').blocks = Last(data).blocks /\ Last(data).blocks = A
      /\ data # <<>> /\ data' # <<>>
  BY <1>1, <1>3 DEF Last
<1>8. (Ordered(Stream) /\ Ascending(Stream) /\ Named(Stream))'
  BY <1>5, OrderKept
<1>9. Headers'
  <2>h. Headers
    BY DEF Log
  <2>1. \A i \in DOMAIN data' : \A j \in DOMAIN data'[i].blocks : Headed(data'[i].blocks[j])
    BY <2>h, <1>3 DEF Headers
  <2>2. buf' = buf /\ last_filled_lsn' = last_filled_lsn
    BY <1>1
  <2> QED BY <2>h, <2>1, <2>2, <1>2, <1>6, <1>7 DEF Headers
<1>10. Behind'
  <2>1. pc # "closed" /\ cur'.split = cur.split
    BY <1>1
  <2> QED BY <2>1, <1>5, <1>6, <1>7, BehindKept DEF Log
<1>11. Acked'
  <2>1. Reported' = Reported /\ acked' = acked
    BY <1>1 DEF Reported, shared
  <2>2. ASSUME NEW x \in Places(data'), x[1] = Len(data') PROVE ~(x[2] > Last(data').synced)
    <3>1. x[2] \in 1 .. Len(data'[x[1]].blocks)
      BY <1>3, PlaceTypes
    <3>2. x[2] \in 1 .. Len(A) /\ Last(data').synced = Len(A)
      BY <3>1, <2>2, <1>3, <1>7
    <3>3. Len(A) \in Nat
      BY <1>3, RotTypes
    <3> HIDE DEF A
    <3> QED BY <3>2, <3>3
  <2>3. ASSUME Last(data').synced > 0
        PROVE  Reported <= Last(data').blocks[Last(data').synced].max
    <3>1. A # <<>> /\ Last(data').synced = Len(A) /\ Last(data').blocks = A
      BY <2>3, <1>3, <1>7
    <3>2. Last(A).max = last_filled_lsn
      BY <3>1, <1>2, <1>7 DEF Log, Headers
    <3>3. A[Len(A)] = Last(A)
      BY DEF Last
    <3>4. Reported <= last_filled_lsn
      <4>1. Reported \in Nat
        BY ConstantTypes DEF Reported, Larger, TypeInv, HistoryTypes, CallerTypes
      <4> QED BY <4>1, <1>2, ReportedFilled
    <3> QED BY <3>1, <3>2, <3>3, <3>4
  <2>4. acked <= Finished
    BY <1>2, ReportedFilled
  <2> QED BY <2>1, <2>2, <2>3, <2>4, <1>4, <1>6 DEF Acked
<1>12. Whole'
  <2>1. \A l \in 1 .. Filled : Packed(l)' = Packed(l)
    BY <1>1 DEF Packed
  <2>2. needed <= needed'
    BY <1>1 DEF TypeInv, HistoryTypes
  <2> QED BY <2>1, <2>2, <1>1, <1>5, <1>6, WholeKept DEF Log
<1> QED
  BY <1>8, <1>9, <1>10, <1>11, <1>12 DEF Log

LEMMA LogFlushed ==
  ASSUME TypeInv, TypeInv', Control, Numbers, Synced, Log, Flushed
  PROVE  Log'
<1>1. /\ pc = "flushed" /\ pc' \in {"pop", "lsn"} /\ buf' = <<>> /\ data' = data
      /\ max_lsn' \in {max_lsn, max_flushed_lsn} /\ acked' = Larger(acked, max_lsn')
      /\ (max_lsn' = max_lsn \/ max_lsn' = max_flushed_lsn)
      /\ UNCHANGED <<ring, next_lsn, cur, last_filled_lsn, size, needed, torn>>
  BY ReturnPairs DEF Flushed, disk
<1>2. Written /\ ~Written' /\ ~ToWrite' /\ data # <<>>
  BY <1>1 DEF Written, ToWrite, Control, Early
<1>3. Stream = data /\ Stream' = data
  BY <1>1, <1>2, StreamFacts, StreamNext
<1>4. SameParts(Stream, Stream') /\ SameNames(Stream, Stream')
  BY <1>3, SameIsSame
<1>5. Filled' = Filled /\ Finished' = Finished
  BY <1>1 DEF Filled, Finished, Popped
<1>6. (Ordered(Stream) /\ Ascending(Stream) /\ Named(Stream))'
  BY <1>4, OrderKept
<1>7. Headers'
  <2>1. last_filled_lsn' = last_filled_lsn
    BY <1>1
  <2> QED BY <2>1, <1>1, <1>2, <1>5 DEF Log, Headers
<1>8. Behind'
  <2>1. pc # "closed" /\ cur'.split = cur.split
    BY <1>1
  <2> QED BY <2>1, <1>1, <1>4, <1>5, BehindKept DEF Log
<1>9. Acked'
  <2>1. /\ Finished \in Nat /\ acked <= Finished /\ max_lsn <= Finished
        /\ max_flushed_lsn = Finished /\ Finished <= Filled /\ last_filled_lsn = Filled
        /\ Filled \in Nat /\ acked \in Nat /\ max_lsn \in Nat
    BY <1>2, ReportedFilled, ConstantTypes DEF TypeInv, HistoryTypes, CallerTypes
  <2>2. acked' <= Finished /\ max_lsn' <= Finished /\ acked' \in Nat /\ max_lsn' \in Nat
    BY <2>1, <1>1 DEF Larger
  <2>3. Reported' <= Filled /\ Reported' \in Nat
    <3>1. Reported' \in {acked', max_lsn'}
      BY DEF Reported, Larger
    <3> QED BY <3>1, <2>1, <2>2
  <2>4. /\ Last(data) = data[Len(data)] /\ Len(data) \in DOMAIN data /\ data \in Seq(RotType)
        /\ Last(data).blocks \in Seq(BlockType) /\ Len(Last(data).blocks) \in Nat
    BY <1>2, LastTypes DEF TypeInv, DiskTypes
  <2>5. Last(data).synced = Len(Last(data).blocks)
    BY <2>4, <1>1 DEF Synced
  <2>6. ASSUME NEW x \in Places(data), x[1] = Len(data) PROVE ~(x[2] > Last(data).synced)
    <3>1. x[2] \in 1 .. Len(data[x[1]].blocks)
      BY <2>4, PlaceTypes
    <3> QED BY <3>1, <2>4, <2>5, <2>6
  <2>7. ASSUME Last(data).synced > 0
        PROVE  Reported' <= Last(data).blocks[Last(data).synced].max
    <3>1. Last(data).blocks # <<>>
      BY <2>5, <2>7
    <3>2. Last(Last(data).blocks).max = last_filled_lsn
      BY <3>1, <1>2 DEF Log, Headers
    <3>3. Last(data).blocks[Last(data).synced] = Last(Last(data).blocks)
      BY <2>5 DEF Last
    <3> QED BY <3>2, <3>3, <2>1, <2>3
  <2> QED BY <2>2, <2>6, <2>7, <1>1, <1>3, <1>5 DEF Acked
<1>10. Whole'
  <2>1. \A l \in 1 .. Filled : Packed(l)' = Packed(l)
    BY <1>1 DEF Packed
  <2>2. needed <= needed'
    BY <1>1 DEF TypeInv, HistoryTypes
  <2> QED BY <2>1, <2>2, <1>1, <1>4, <1>5, WholeKept DEF Log
<1> QED
  BY <1>6, <1>7, <1>8, <1>9, <1>10 DEF Log

\* The first rotation holds nothing that is needed.
LEMMA LogRemove ==
  ASSUME TypeInv, TypeInv', Control, Numbers, Advanced, Log,
         RemoveRot, Len(data) > 1, data[2].first <= min
  PROVE  Log'
<1> DEFINE n == Len(data)
<1>1. /\ pc = "remove" /\ pc' = pc /\ then' = then /\ data' = Tail(data) /\ buf' = buf
      /\ UNCHANGED <<shared, cur, last_filled_lsn, size, needed, torn, acked>>
  BY DEF RemoveRot, Frame
<1>2. (Written' <=> Written) /\ (ToWrite' <=> ToWrite)
  BY <1>1 DEF Written, ToWrite
<1>3. /\ data \in Seq(RotType) /\ data # <<>> /\ n \in Nat /\ n > 1
      /\ data' \in Seq(RotType) /\ data' # <<>> /\ Len(data') = n - 1
      /\ \A i \in 1 .. n - 1 : data'[i] = data[i + 1]
  <2>1. data \in Seq(RotType)
    BY DEF TypeInv, DiskTypes
  <2>2. n \in Nat /\ n > 1 /\ data # <<>>
    BY <2>1
  <2> QED BY <2>1, <2>2, <1>1, TailLeft
<1>4. Last(data') = Last(data)
  BY <1>3 DEF Last
<1>5. /\ Stream \in Seq(RotType) /\ Len(Stream) = n /\ Stream # <<>> /\ Stream' = Tail(Stream)
      /\ Stream[2].first = data[2].first
  <2>1. /\ Stream \in Seq(RotType) /\ Len(Stream) = n /\ Stream[2].first = data[2].first
    BY <1>3, StreamFacts DEF SameNames
  <2>2. Stream # <<>>
    BY <2>1, <1>3
  <2>3. CASE Written
    BY <2>1, <2>2, <2>3, <1>1, <1>2, StreamFacts, StreamNext
  <2>4. CASE ~Written
    <3>1. Stream = With(data, buf) /\ Stream' = With(Tail(data), buf)
      BY <2>4, <1>1, <1>2, StreamFacts, StreamNext
    <3>2. buf \in Seq(BlockType)
      BY DEF TypeInv, FlusherTypes
    <3> QED BY <2>1, <2>2, <3>1, <3>2, <1>3, TailWith
  <2> QED BY <2>3, <2>4
<1>6. /\ \A x \in Places(Stream') : /\ Shifted(x) \in Places(Stream)
                                    /\ LsnAt(Stream', x) = LsnAt(Stream, Shifted(x))
  BY <1>5, TailPlaces DEF LsnAt
<1>7. Filled' = Filled /\ Finished' = Finished /\ Reported' = Reported
  BY <1>1 DEF Filled, Finished, Popped, Reported, shared
<1>8. (Ordered(Stream) /\ Ascending(Stream) /\ Named(Stream))'
  BY <1>5, TailOrdered DEF Log
<1>9. Headers'
  <2>1. \A i \in DOMAIN data' : i + 1 \in DOMAIN data /\ data'[i] = data[i + 1]
    BY <1>3
  <2>2. \A i \in DOMAIN data' : \A j \in DOMAIN data'[i].blocks : Headed(data'[i].blocks[j])
    BY <2>1 DEF Log, Headers
  <2>3. buf' = buf /\ last_filled_lsn' = last_filled_lsn
    BY <1>1
  <2> QED BY <2>2, <2>3, <1>2, <1>4, <1>7 DEF Log, Headers
<1>10. Behind'
  <2>1. cur' = cur
    BY <1>1
  <2> QED BY <2>1, <1>1, <1>3, <1>4, <1>6, <1>7 DEF Log, Behind
<1>11. Acked'
  <2>1. ASSUME NEW x \in Places(Stream'), x[1] = Len(data'), x[2] > Last(data').synced
        PROVE  Reported' < LsnAt(Stream', x)
    <3>1. Shifted(x)[1] = n /\ Shifted(x)[2] = x[2]
      BY <2>1, <1>3 DEF Shifted
    <3> QED BY <3>1, <2>1, <1>4, <1>6, <1>7 DEF Log, Acked
  <2>2. pc' = pc /\ acked' = acked
    BY <1>1
  <2> QED BY <2>1, <2>2, <1>1, <1>3, <1>4, <1>7 DEF Log, Acked
<1>12. Whole'
  <2>1. ASSUME NEW l \in 1 .. Filled
        PROVE  l < needed' \/ l \in torn' \/ Tiled(Stream', l, Packed(l)', size'[l])
    <3>1. l < needed \/ l \in torn \/ Tiled(Stream, l, Packed(l), size[l])
      BY <1>1 DEF Log, Whole, WholeRunning
    <3>2. ASSUME l >= needed, Tiled(Stream, l, Packed(l), size[l])
          PROVE  Tiled(Tail(Stream), l, Packed(l), size[l])
      <4>1. ASSUME NEW x \in Mine(Stream, l) PROVE x[1] > 1
        <5>1. x \in Places(Stream) /\ LsnAt(Stream, x) = l /\ x[1] \in 1 .. n
          BY <1>5, PlaceTypes DEF Mine
        <5>2. 2 \in DOMAIN Stream
          BY <1>3, <1>5
        <5>3. x[1] < 2 => l < data[2].first
          BY <5>1, <5>2, <1>5 DEF Log, Named
        <5>4. min <= Need /\ Need <= l /\ Need \in Nat
          BY <3>2, NeedTypes DEF Advanced, Need, Larger, TypeInv, HistoryTypes
        <5>5. data[2].first \in Nat /\ min \in Nat
          <6>1. 2 \in 1 .. Len(data)
            BY <1>3
          <6>2. data[2].first \in Nat
            BY <6>1, <1>3, RotTypes
          <6> QED BY <6>2 DEF TypeInv, FlusherTypes
        <5> QED BY <5>1, <5>3, <5>4, <5>5
      <4> QED BY <4>1, <3>2, <1>5, TailTiled
    <3>3. Packed(l)' = Packed(l) /\ size' = size /\ needed' = needed /\ torn' = torn
      BY <1>1 DEF Packed
    <3>4. l < needed \/ l >= needed
      BY DEF TypeInv, HistoryTypes
    <3> QED BY <3>1, <3>2, <3>3, <3>4, <1>5
  <2> QED BY <2>1, <1>1, <1>7 DEF Whole, WholeRunning
<1> QED
  BY <1>8, <1>9, <1>10, <1>11, <1>12 DEF Log

-----------------------------------------------------------------------------
(* The inductive invariant.                                                *)

LEMMA LogStep ==
  ASSUME IInv, TypeInv', faults = {}, faults' = {}, Next
  PROVE  Log'
<1>1. TypeInv /\ Control /\ Numbers /\ Advanced /\ Synced /\ Manifest /\ Log
  BY DEF IInv
<1>2. CASE \/ Stop
           \/ \E s \in Sizes : AppendEntry(s)
           \/ \E a \in Advancers : AdvStore(a) \/ \E l \in 1 .. MaxLsn : AdvLoad(a, l)
  BY <1>1, <1>2, LogCalls
<1>3. CASE Start \/ NoTimeFlush \/ Lsn \/ Flush \/ Mani \/ ManiSync \/ ManiRot \/ Pop
  BY <1>1, <1>3, LogMoves
<1>4. CASE Open
  BY <1>1, <1>4, LogOpen
<1>5. CASE Halt
  BY <1>1, <1>5, LogHalt
<1>6. CASE OpenData
  BY <1>1, <1>6, LogOpenData
<1>7. CASE Top
  BY <1>1, <1>7, LogTop, LogMoves
<1>8. CASE OpenBlock
  BY <1>1, <1>8, LogOpenBlock
<1>9. CASE PutRest
  BY <1>1, <1>9, LogPutRest
<1>10. CASE PutPart
  BY <1>1, <1>10, LogPutPart
<1>11. CASE FillZero \/ TimeFlush
  BY <1>1, <1>11, LogFillZero
<1>12. CASE Write
  BY <1>1, <1>12, LogWrite
<1>13. CASE Sync \/ RotSync
  BY <1>1, <1>13, LogSync
<1>14. CASE RotNew
  BY <1>1, <1>14, LogRotNew
<1>15. CASE Flushed
  BY <1>1, <1>15, LogFlushed
<1>16. CASE RemoveRot
  <2>1. CASE Len(data) > 1 /\ data[2].first <= min
    BY <1>1, <1>16, <2>1, LogRemove
  <2>2. CASE ~(Len(data) > 1 /\ data[2].first <= min)
    <3>1. UNCHANGED data
      BY <1>16, <2>2 DEF RemoveRot
    <3> QED BY <3>1, <1>1, <1>16, LogMoves
  <2> QED BY <2>1, <2>2
<1> QED
  BY <1>2, <1>3, <1>4, <1>5, <1>6, <1>7, <1>8, <1>9, <1>10, <1>11, <1>12, <1>13, <1>14, <1>15,
     <1>16 DEF Next, Flusher

LEMMA Begun ==
  ASSUME Init
  PROVE  IInv
<1>1. /\ data = <<>> /\ mani = <<>> /\ running = FALSE /\ min_lsn = 0 /\ max_lsn = 0
      /\ next_lsn = 0 /\ ring = <<>> /\ adv = [a \in Advancers |-> 0]
      /\ pc = "closed" /\ then = <<>> /\ buf = <<>> /\ used = 0 /\ cur = NoEntry /\ min = 0
      /\ rotatable = FALSE /\ last_min_lsn = 0 /\ next_no_use_lsn = 0
      /\ last_filled_lsn = 0 /\ max_flushed_lsn = 0 /\ opens = 0 /\ size = [l \in Lsns |-> 0]
      /\ acked = 0 /\ needed = 0 /\ torn = {} /\ faults = {}
  BY DEF Init
<1>2. DOMAIN data = {} /\ DOMAIN mani = {} /\ DOMAIN buf = {} /\ Len(mani) = 0 /\ Len(data) = 0
  BY <1>1
<1>3. TypeInv
  <2>1. DiskTypes
    <3>1. data \in Seq(RotType) /\ mani \in Seq(ManiType)
      BY <1>1
    <3> QED BY <3>1, <1>2 DEF DiskTypes
  <2>2. CallerTypes
    <3>1. adv \in [Advancers -> Nat] /\ ring \in Seq(1 .. MaxLsn)
      BY <1>1
    <3>2. max_lsn \in 0 .. MaxLsn /\ next_lsn \in 0 .. MaxLsn + 1
      BY <1>1, ConstantTypes
    <3> QED BY <3>1, <3>2, <1>1 DEF CallerTypes
  <2>3. FlusherTypes
    <3>1. buf \in Seq(BlockType)
      BY <1>1
    <3>2. cur \in [lsn : 0 .. MaxLsn, left : Nat, split : BOOLEAN]
      BY <1>1, ConstantTypes DEF NoEntry
    <3>3. /\ used \in 0 .. BlockUnits /\ last_filled_lsn \in 0 .. MaxLsn
          /\ max_flushed_lsn \in 0 .. MaxLsn
      BY <1>1, ConstantTypes
    <3>4. /\ pc \in Labels /\ rotatable \in BOOLEAN /\ min \in Nat /\ last_min_lsn \in Nat
          /\ next_no_use_lsn \in Nat
      BY <1>1 DEF Labels
    <3> QED BY <3>1, <3>2, <3>3, <3>4 DEF FlusherTypes
  <2>4. HistoryTypes
    BY <1>1, ConstantTypes DEF HistoryTypes
  <2> QED BY <2>1, <2>2, <2>3, <2>4 DEF TypeInv
<1>4. Control
  <2>1. ~ToWrite /\ ~Written /\ Early
    BY <1>1 DEF ToWrite, Written, Early
  <2>2. then \in Returns(pc)
    BY <1>1 DEF Returns
  <2> QED BY <1>1, <2>1, <2>2 DEF Control, NoEntry
<1>5. Numbers
  BY <1>1 DEF Numbers, NoEntry
<1>6. Advanced
  BY <1>1, <1>2 DEF Advanced, Need, Larger
<1>7. Synced
  BY <1>2 DEF Synced
<1>8. Manifest
  <2>1. ~Fresh
    BY <1>2 DEF Fresh
  <2> QED BY <1>1, <1>2, <2>1 DEF Manifest
<1>9. Log
  <2>1. Stream = <<>>
    BY <1>1, <1>3, StreamFacts
  <2>2. Places(<<>>) = {}
    BY DEF Places
  <2>3. DOMAIN Stream = {} /\ Places(Stream) = {}
    BY <2>1, <2>2
  <2>4. Ordered(Stream) /\ Ascending(Stream) /\ Named(Stream)
    BY <2>3 DEF Ordered, Ascending, Named
  <2>5. ~ToWrite /\ ~Written
    BY <1>1 DEF ToWrite, Written
  <2>6. Headers
    BY <1>1, <1>2, <2>5 DEF Headers
  <2>7. Behind /\ Acked
    BY <1>1, <2>3 DEF Behind, Acked
  <2>8. Whole
    <3>1. \A l \in Lsns \ {0} : ~(l <= acked)
      BY <1>1, ConstantTypes DEF Lsns
    <3>2. Places(data) = {}
      BY <1>1, <2>2
    <3> QED BY <1>1, <3>1, <3>2 DEF Whole, WholeClosed
  <2> QED BY <2>4, <2>6, <2>7, <2>8 DEF Log
<1> QED
  BY <1>3, <1>4, <1>5, <1>6, <1>7, <1>8, <1>9 DEF IInv

LEMMA Kept ==
  ASSUME IInv, Next
  PROVE  IInv'
<1>1. TypeInv /\ Control /\ Numbers /\ Advanced /\ Synced
  BY DEF IInv
<1>2. \/ Open \/ Stop \/ Halt
      \/ \E s \in Sizes : AppendEntry(s)
      \/ \E a \in Advancers : AdvStore(a) \/ \E l \in 1 .. MaxLsn : AdvLoad(a, l)
      \/ OpenData \/ Start \/ Top \/ Pop \/ OpenBlock \/ PutRest \/ PutPart \/ FillZero
      \/ TimeFlush \/ NoTimeFlush \/ Lsn
      \/ Flush \/ Write \/ Sync \/ RotSync \/ RotNew \/ RemoveRot \/ Flushed
      \/ Mani \/ ManiSync \/ ManiRot
  BY DEF Next, Flusher
<1>3. TypeInv'
  BY <1>1, <1>2, TypeCallers, TypePacking, TypeWriting
<1>4. Control'
  BY <1>1, <1>2, ControlCallers, ControlPacking, ControlWriting
<1>5. Numbers'
  BY <1>1, <1>2, NumbersCallers, NumbersPacking, NumbersWriting
<1>6. Advanced'
  BY <1>1, <1>2, AdvancedCallers, AdvancedPacking, AdvancedWriting
<1>7. Synced'
  BY <1>1, <1>2, SyncedCallers, SyncedPacking, SyncedWriting
<1>8. ASSUME faults' = {} PROVE Manifest' /\ Log'
  <2>1. faults = {}
    <3>1. \/ faults' = faults
          \/ \E S : faults' = faults \cup S
      BY <1>2 DEF Open, Stop, Halt, AppendEntry, AdvStore, AdvLoad, OpenData, Start, Top, Pop,
                  OpenBlock, PutRest, PutPart, FillZero, FlushIfDue, TimeFlush, NoTimeFlush, Lsn,
                  Flush, Write, Sync, RotSync, SyncData, RotNew, RemoveRot, Flushed,
                  Mani, ManiSync, ManiRot, history
    <3> QED BY ZenonT(60), SMTT(60), <3>1, <1>8
  <2>2. Manifest
    BY <2>1 DEF IInv
  <2>3. Manifest'
    BY <1>1, <1>2, <2>2, ManifestCallers, ManifestPacking, ManifestWriting
  <2>4. Log'
    BY <1>3, <1>8, <2>1, LogStep
  <2> QED BY <2>3, <2>4
<1> QED
  BY <1>3, <1>4, <1>5, <1>6, <1>7, <1>8 DEF IInv

LEMMA Stutter ==
  ASSUME IInv, UNCHANGED vars
  PROVE  IInv'
<1>1. /\ UNCHANGED <<data, mani, running, min_lsn, max_lsn, ring, next_lsn, adv, pc, then>>
      /\ UNCHANGED <<buf, used, cur, last_filled_lsn, max_flushed_lsn, min, last_min_lsn,
                     next_no_use_lsn, rotatable, opens, size, acked, needed, torn, faults>>
  BY DEF vars, disk, shared, packing, lsns, history
<1>2. TypeInv'
  BY <1>1 DEF IInv, TypeInv, DiskTypes, CallerTypes, FlusherTypes, HistoryTypes
<1>3. Control'
  BY <1>1 DEF IInv, Control, ToWrite, Written, Early
<1>4. Numbers'
  BY <1>1 DEF IInv, Numbers, Popped, Finished
<1>5. Advanced' /\ Synced'
  BY <1>1 DEF IInv, Advanced, Need, Synced
<1>6. ASSUME faults = {} PROVE Manifest' /\ Log'
  <2>1. Manifest /\ Log
    BY <1>6 DEF IInv
  <2>2. Manifest'
    BY <1>1, <2>1 DEF Manifest, Fresh, Beginning
  <2>3. Stream' = Stream /\ (ToWrite' <=> ToWrite) /\ (Written' <=> Written)
    BY <1>1 DEF Stream, ToWrite, Written
  <2>4. Filled' = Filled /\ Finished' = Finished /\ Reported' = Reported
    BY <1>1 DEF Filled, Finished, Popped, Reported
  <2>5. Headers' /\ Behind' /\ Acked'
    BY <1>1, <2>1, <2>3, <2>4 DEF Log, Headers, Behind, Acked
  <2>6. Whole'
    <3>1. \A l : Packed(l)' = Packed(l)
      BY <1>1 DEF Packed
    <3>2. CASE pc = "closed"
      BY <1>1, <2>1, <3>2 DEF Log, Whole, WholeClosed
    <3>3. CASE pc # "closed"
      BY <1>1, <2>1, <2>3, <2>4, <3>1, <3>3 DEF Log, Whole, WholeRunning
    <3> QED BY <3>2, <3>3
  <2> QED BY <2>1, <2>2, <2>3, <2>5, <2>6 DEF Log
<1> QED
  BY <1>1, <1>2, <1>3, <1>4, <1>5, <1>6 DEF IInv

\* The invariant of the flushing thread, the stream of parts and the disk holds
\* in every reachable state, whatever steps of callers, crashes and reopenings
\* come between those of the flushing thread.
THEOREM Invariant == Spec => []IInv
<1>1. Init => IInv
  BY Begun
<1>2. IInv /\ [Next]_vars => IInv'
  BY Kept, Stutter
<1> QED
  BY <1>1, <1>2, PTL DEF Spec

-----------------------------------------------------------------------------
(* The properties.                                                         *)

\* The name of a data rotation is beyond every LSN of the rotations before and at
\* most every LSN of its own, though entries are split over blocks, rotations are
\* switched where no entry is cut, cut off by crashes and removed.
THEOREM NamesSeparate == Spec => []RotationNames
<1>1. IInv => RotationNames
  <2> SUFFICES ASSUME IInv, faults = {}, NEW i \in DOMAIN data
               PROVE  /\ \A j \in 1 .. i - 1 : data[j].first <= data[i].first
                      /\ \A x \in Places(data) :
                           IF x[1] < i THEN PartAt(data, x).lsn < data[i].first
                           ELSE x[1] = i => data[i].first <= PartAt(data, x).lsn
    BY DEF RotationNames
  <2>1. TypeInv /\ Ascending(Stream) /\ Named(Stream)
    BY DEF IInv, Log
  <2>2. /\ data \in Seq(RotType) /\ DOMAIN Stream = DOMAIN data /\ DOMAIN data = 1 .. Len(data)
        /\ \A j \in DOMAIN data : Stream[j].first = data[j].first
    BY <2>1, StreamFacts DEF SameNames
  <2>3. ASSUME NEW j \in 1 .. i - 1 PROVE data[j].first <= data[i].first
    <3>1. j \in DOMAIN data /\ j < i
      BY <2>2
    <3> QED BY <3>1, <2>1, <2>2 DEF Ascending
  <2>4. ASSUME NEW x \in Places(data)
        PROVE  IF x[1] < i THEN PartAt(data, x).lsn < data[i].first
               ELSE x[1] = i => data[i].first <= PartAt(data, x).lsn
    <3>1. x \in Places(Stream) /\ PartAt(Stream, x).lsn = PartAt(data, x).lsn
      BY <2>1, InStream
    <3>2. x[1] \in Nat /\ i \in Nat
      BY <2>2, PlaceTypes
    <3> QED BY <3>1, <3>2, <2>1, <2>2 DEF Named, LsnAt
  <2> QED BY <2>3, <2>4
<1> QED
  BY <1>1, Invariant, PTL

\* What restore_lsn finds after any number of crashes is at least every LSN that
\* a flush reported: none of them is given out again.
THEOREM LsnsNotReused == Spec => []NoReuse
<1>1. IInv => NoReuse
  <2> SUFFICES ASSUME IInv, pc = "closed", Restored.ok, ~BlankManifest, faults = {}
               PROVE  Restored.max >= acked
    BY DEF NoReuse
  <2>1. acked <= Restored.max /\ Restored.max \in 0 .. MaxLsn
    BY Reopened DEF IInv
  <2>2. acked \in Nat
    BY ConstantTypes DEF IInv, TypeInv, HistoryTypes
  <2> QED BY <2>1, <2>2
<1> QED
  BY <1>1, Invariant, PTL

\* The parts of a reported entry are on disk, and synced.
LEMMA ReportedSynced ==
  ASSUME TypeInv, Synced, Acked, NEW l \in Nat, l <= acked, NEW x \in Mine(Stream, l)
  PROVE  x \in SyncedPlaces /\ PartAt(data, x) = PartAt(Stream, x)
<1> DEFINE n == Len(data) A == Last(data).blocks
<1>1. x \in Places(Stream) /\ LsnAt(Stream, x) = l /\ IsPlace(Stream, x)
  BY PlaceIff DEF Mine
<1>2. /\ data \in Seq(RotType) /\ Stream \in Seq(RotType) /\ Len(Stream) = n
      /\ buf \in Seq(BlockType)
      /\ Stream = data \/ Stream = With(data, buf)
  BY StreamFacts DEF TypeInv, FlusherTypes
<1>3. x[1] \in 1 .. n /\ n \in Nat /\ x[2] \in 1 .. Len(Stream[x[1]].blocks)
  BY <1>1, <1>2, PlaceTypes
<1>4. data # <<>> /\ Last(data) = data[n] /\ n \in 1 .. n
  BY <1>2, <1>3 DEF Last
<1>5. ~(x[1] = n /\ x[2] > Last(data).synced)
  <2>1. l <= Reported /\ Reported \in Nat
    BY ConstantTypes DEF Reported, Larger, TypeInv, HistoryTypes, CallerTypes
  <2>2. x[1] = n /\ x[2] > Last(data).synced => Reported < l
    BY <1>1 DEF Acked
  <2> QED BY <2>1, <2>2
<1>6. data[x[1]].synced <= Len(data[x[1]].blocks) /\ data[x[1]].synced \in Nat
      /\ Len(data[x[1]].blocks) \in Nat
  BY <1>2, <1>3, RotTypes DEF TypeInv, DiskTypes
<1>7. CASE Stream = data
  <2>1. x[1] < n => data[x[1]].synced = Len(data[x[1]].blocks)
    BY <1>2, <1>3 DEF Synced
  <2>2. x[2] <= data[x[1]].synced
    <3>1. x[1] < n \/ x[1] = n
      BY <1>3
    <3> QED BY <3>1, <2>1, <1>3, <1>4, <1>5, <1>6, <1>7
  <2> QED BY <2>2, <1>1, <1>7 DEF SyncedPlaces
<1>8. CASE Stream = With(data, buf)
  <2>1. CASE x[1] < n
    <3>1. Stream[x[1]] = data[x[1]]
      BY <2>1, <1>2, <1>3, <1>4, <1>8, WithFacts
    <3>2. x \in Places(data)
      BY SMTT(60), <3>1, <1>1, <1>2, <1>3, PlaceIff DEF IsPlace
    <3>3. x[2] <= data[x[1]].synced
      BY <2>1, <3>1, <1>2, <1>3 DEF Synced
    <3> QED BY <3>1, <3>2, <3>3 DEF SyncedPlaces, PartAt
  <2>2. CASE x[1] = n
    <3>1. x[2] <= data[n].synced
      BY <2>2, <1>3, <1>4, <1>5, <1>6
    <3>2. x[2] \in 1 .. Len(data[n].blocks)
      BY <3>1, <2>2, <1>3, <1>6
    <3>3. Stream[n].blocks[x[2]] = data[n].blocks[x[2]]
      BY <3>2, <1>2, <1>4, <1>8, WithBlocks
    <3>4. x \in Places(data)
      <4>1. x[2] \in DOMAIN data[n].blocks
        BY <3>2, <1>2, <1>4, RotTypes
      <4>2. x[1] \in DOMAIN data
        BY <1>2, <1>3
      <4> QED BY <4>1, <4>2, <3>3, <2>2, <1>1, PlaceIff DEF IsPlace
    <3> QED BY <3>1, <3>3, <3>4, <2>2 DEF SyncedPlaces, PartAt
  <2>3. x[1] < n \/ x[1] = n
    BY <1>3
  <2> QED BY <2>1, <2>2, <2>3
<1> QED
  BY <1>2, <1>7, <1>8

\* What was reported is in the stream in full.
LEMMA ReportedTiled ==
  ASSUME TypeInv, Control, Numbers, Log, NEW l \in Larger(needed, 1) .. acked, l \notin torn
  PROVE  Tiled(Stream, l, size[l], size[l])
<1>1. /\ l \in Nat /\ l >= 1 /\ l >= needed /\ l <= acked /\ acked \in 0 .. MaxLsn
      /\ needed \in Nat
  BY ConstantTypes DEF Larger, TypeInv, HistoryTypes
<1>2. CASE pc = "closed"
  <2>1. l \in Lsns \ {0}
    BY <1>1, ConstantTypes DEF Lsns
  <2>2. Tiled(data, l, size[l], size[l])
    BY <2>1, <1>1, <1>2 DEF Log, Whole, WholeClosed
  <2>3. Stream = data
    BY <1>2, StreamFacts DEF Control
  <2> QED BY <2>2, <2>3
<1>3. CASE pc # "closed"
  <2>1. l <= Finished /\ Finished \in Nat /\ Filled \in Nat /\ Finished <= Filled
    BY <1>1, <1>3, FilledTypes DEF Log, Acked
  <2>2. Tiled(Stream, l, Packed(l), size[l])
    <3>1. l \in 1 .. Filled
      BY <1>1, <2>1
    <3> QED BY <3>1, <1>1, <1>3 DEF Log, Whole, WholeRunning
  <2>3. Packed(l) = size[l]
    <3>1. cur.split => cur.lsn = Popped /\ Finished = Popped - 1 /\ Popped \in Int
      BY FilledTypes DEF Numbers
    <3> QED BY <3>1, <2>1, <1>1 DEF Packed
  <2> QED BY <2>2, <2>3
<1> QED
  BY <1>2, <1>3

\* What a flush reported as persisted, and no advance_lsn gave up, is on disk in
\* full and synced, unless a crash tore it before it was reported: writes in
\* parts, switches and removals of rotations, crashes and reopenings lose none.
THEOREM ReportedDurable == Spec => []Durable
<1>1. IInv => Durable
  <2> SUFFICES ASSUME IInv, faults = {}, NEW l \in Larger(needed, 1) .. acked, l \notin torn
               PROVE  Complete(l, SyncedPlaces)
    BY DEF Durable
  <2>1. TypeInv /\ Control /\ Numbers /\ Synced /\ Log
    BY DEF IInv
  <2>2. Tiled(Stream, l, size[l], size[l])
    BY <2>1, ReportedTiled
  <2>3. l \in Nat /\ l <= acked
    BY <2>1, ConstantTypes DEF Larger, TypeInv, HistoryTypes
  <2> DEFINE M == {x \in SyncedPlaces : PartAt(data, x).lsn = l}
  <2>4. \A x \in Mine(Stream, l) : x \in SyncedPlaces /\ PartAt(data, x) = PartAt(Stream, x)
    BY <2>1, <2>3, ReportedSynced DEF Log
  <2>5. \A x \in SyncedPlaces : x \in Places(Stream) /\ PartAt(Stream, x) = PartAt(data, x)
    BY <2>1, InStream DEF SyncedPlaces
  <2>6. M = Mine(Stream, l)
    BY <2>4, <2>5 DEF Mine, LsnAt
  <2>7. \A x \in M : /\ PartAt(data, x).kind = KindAt(Stream, x)
                     /\ PartAt(data, x).from = FromAt(Stream, x)
                     /\ PartAt(data, x).from + PartAt(data, x).units = ToAt(Stream, x)
    BY <2>5 DEF KindAt, FromAt, ToAt
  <2> HIDE DEF M
  <2>8. /\ \E x \in M : PartAt(data, x).from = 0
        /\ \A x \in M :
             LET to(z) == PartAt(data, z).from + PartAt(data, z).units
             IN  /\ PartAt(data, x).kind \in {"Full", "First"} <=> PartAt(data, x).from = 0
                 /\ PartAt(data, x).kind \in {"Full", "Last"} <=> to(x) = size[l]
                 /\ \/ to(x) = size[l]
                    \/ \E y \in M : Before(x, y) /\ PartAt(data, y).from = to(x)
                 /\ \A y \in M : Before(x, y) => to(x) # size[l] /\ to(x) <= PartAt(data, y).from
    BY <2>2, <2>6, <2>7 DEF Tiled, Begins, Called, GoesOn, Apart
  <2> QED BY <2>8 DEF M, Complete
<1> QED
  BY <1>1, Invariant, PTL
-----------------------------------------------------------------------------
(* Reading: how blocks and parts begin.                                    *)

\* The header of a block names its first entry, and a part that an entry goes on
\* behind is not empty.
Opens(b) ==
  /\ b.parts # <<>> => b.min = b.parts[1].lsn
  /\ \A k \in DOMAIN b.parts : b.parts[k].kind \in {"First", "Middle"} => b.parts[k].units > 0

Openings ==
  /\ \A i \in DOMAIN data : \A j \in DOMAIN data[i].blocks : Opens(data[i].blocks[j])
  /\ \A j \in DOMAIN buf : Opens(buf[j])
  /\ buf # <<>> /\ Last(buf).parts = <<>> /\ used < BlockUnits =>
       cur.lsn # 0 /\ Last(buf).min = cur.lsn

LEMMA FixedOpens ==
  ASSUME NEW B \in Seq(BlockType), NEW f \in 0 .. MaxLsn, min_lsn \in Nat,
         \A j \in 1 .. Len(B) : Opens(B[j])
  PROVE  \A j \in 1 .. Len(B) : Opens(Fixed(B, f)[j]) /\ Fixed(B, f)[j].min = B[j].min
<1>1. CASE B = <<>>
  BY <1>1
<1>2. CASE B # <<>>
  <2> DEFINE m == Len(B)
             R == [B[m] EXCEPT !.max = f, !.wmin = min_lsn]
  <2>1. m \in 1 .. m /\ B[m] \in BlockType
    BY <1>2
  <2>2. R.parts = B[m].parts /\ R.min = B[m].min
    BY <2>1 DEF BlockType
  <2>3. Fixed(B, f) = [B EXCEPT ![m] = R]
    BY <1>2 DEF Fixed
  <2> HIDE DEF R
  <2>4. \A j \in 1 .. m : Fixed(B, f)[j] = IF j = m THEN R ELSE B[j]
    BY <2>1, <2>3
  <2>5. Opens(R)
    BY <2>1, <2>2 DEF Opens
  <2> QED BY <2>2, <2>4, <2>5
<1> QED
  BY <1>1, <1>2

LEMMA PartOpens ==
  ASSUME TypeInv, Numbers, Openings, Packing, buf # <<>>,
         NEW kind \in {"Full", "First", "Middle", "Last"},
         kind \in {"First", "Middle"} => 1 < Room
  PROVE  /\ \A j \in 1 .. Len(buf) : Opens(WithPart(kind)[j])
         /\ Last(WithPart(kind)).parts # <<>> /\ WithPart(kind) \in Seq(BlockType)
         /\ Len(WithPart(kind)) = Len(buf)
<1> DEFINE m == Len(buf)
           p == NextPart(kind)
           R == [buf[m] EXCEPT !.parts = Append(@, p)]
<1>1. m \in 1 .. m /\ buf[m] \in BlockType /\ buf \in Seq(BlockType) /\ DOMAIN buf = 1 .. m
  BY DEF TypeInv, FlusherTypes
<1>2. WithPart(kind) = [buf EXCEPT ![m] = R]
  BY DEF WithPart, NextPart
<1>3. p \in PartType /\ cur.lsn \in 1 .. MaxLsn
  BY NextPartType DEF Packing
<1>4. p.lsn = cur.lsn /\ p.kind = kind /\ (kind \in {"First", "Middle"} => p.units > 0)
  <2>1. Room \in Nat
    BY ConstantTypes DEF Room, TypeInv, FlusherTypes
  <2> QED BY <2>1 DEF NextPart
<1> HIDE DEF p
<1>5. buf[m].parts \in Seq(PartType)
  BY <1>1 DEF BlockType
<1>6. R.parts = Append(buf[m].parts, p) /\ R.min = buf[m].min
  BY <1>1 DEF BlockType
<1> HIDE DEF R
<1>7. \A j \in 1 .. m : WithPart(kind)[j] = IF j = m THEN R ELSE buf[j]
  BY <1>1, <1>2
<1>8. R.parts # <<>> /\ R.min = R.parts[1].lsn
  <2>1. CASE buf[m].parts = <<>>
    <3>1. R.parts = <<p>>
      BY <2>1, <1>5, <1>6
    <3>2. Last(buf) = buf[m]
      BY DEF Last
    <3>3. used < BlockUnits
      BY ConstantTypes DEF Packing, AtBoundary, TypeInv, FlusherTypes
    <3>4. buf[m].min = cur.lsn
      BY <2>1, <3>2, <3>3 DEF Openings
    <3> QED BY <3>1, <3>4, <1>4, <1>6
  <2>2. CASE buf[m].parts # <<>>
    <3>1. buf[m].min = buf[m].parts[1].lsn
      BY <2>2, <1>1 DEF Openings, Opens
    <3>2. R.parts[1] = buf[m].parts[1] /\ R.parts # <<>>
      BY <2>2, <1>3, <1>5, <1>6
    <3> QED BY <3>1, <3>2, <1>6
  <2> QED BY <2>1, <2>2
<1>9. Opens(R)
  <2>1. ASSUME NEW k \in DOMAIN R.parts, R.parts[k].kind \in {"First", "Middle"}
        PROVE  R.parts[k].units > 0
    <3>1. CASE k \in DOMAIN buf[m].parts
      <4>1. R.parts[k] = buf[m].parts[k]
        BY <3>1, <1>3, <1>5, <1>6
      <4> QED BY <4>1, <3>1, <2>1, <1>1 DEF Openings, Opens
    <3>2. CASE k = Len(buf[m].parts) + 1
      <4>1. R.parts[k] = p
        BY <3>2, <1>3, <1>5, <1>6
      <4> QED BY <4>1, <2>1, <1>4
    <3>3. k \in DOMAIN buf[m].parts \/ k = Len(buf[m].parts) + 1
      BY <1>3, <1>5, <1>6
    <3> QED BY <3>1, <3>2, <3>3
  <2> QED BY <2>1, <1>8 DEF Opens
<1>10. WithPart(kind) \in Seq(BlockType) /\ Len(WithPart(kind)) = m
  BY ZenonT(60), SMTT(60), <1>3, WithPartFacts DEF TypeInv, p
<1>11. Last(WithPart(kind)) = R
  BY <1>1, <1>7, <1>10 DEF Last
<1> QED
  BY <1>1, <1>7, <1>8, <1>9, <1>10, <1>11 DEF Openings


\* Blocks that have parts, or are full, keep their openings when they are flushed.
LEMMA FlushOpens ==
  ASSUME TypeInv, Openings, NEW B \in Seq(BlockType), NEW u \in Nat, NEW f \in 0 .. MaxLsn,
         NEW split, FlushIfDue(B, u, f, split),
         \A j \in 1 .. Len(B) : Opens(B[j]),
         B # <<>> => Last(B).parts # <<>> \/ u = BlockUnits
  PROVE  Openings'
<1>1. /\ buf' \in Seq(BlockType) /\ Len(buf') = Len(B) /\ used' = u /\ data' = data
      /\ \A j \in 1 .. Len(B) : buf'[j].parts = B[j].parts
  BY FlushIfDueFacts DEF TypeInv, CallerTypes
<1>2. buf' = Fixed(B, f) \/ buf' = B
  BY DEF FlushIfDue
<1>3. \A j \in 1 .. Len(B) : Opens(buf'[j])
  BY <1>2, FixedOpens DEF TypeInv, CallerTypes
<1>4. buf' # <<>> /\ Last(buf').parts = <<>> => ~(used' < BlockUnits)
  <2> SUFFICES ASSUME buf' # <<>>, Last(buf').parts = <<>> PROVE ~(used' < BlockUnits)
    OBVIOUS
  <2>1. Len(B) \in 1 .. Len(B) /\ Last(B) = B[Len(B)] /\ Last(buf') = buf'[Len(B)] /\ B # <<>>
    BY <1>1 DEF Last
  <2>2. Last(B).parts = <<>>
    BY <2>1, <1>1
  <2> QED BY <2>1, <2>2, <1>1, ConstantTypes
<1>5. DOMAIN buf' = 1 .. Len(B)
  BY <1>1
<1> QED
  BY <1>1, <1>3, <1>4, <1>5 DEF Openings

LEMMA OpeningsSame ==
  ASSUME Openings, data' = data, buf' = buf, used' = used, cur' = cur
  PROVE  Openings'
BY DEF Openings

\* Nothing is in the buffer any more, or it is on its way, and what is in the
\* files was in them.
LEMMA OpeningsEmptied ==
  ASSUME Openings, data' = data \/ \A i \in DOMAIN data' : \A j \in DOMAIN data'[i].blocks :
                                       Opens(data'[i].blocks[j]),
         buf' = <<>>
  PROVE  Openings'
BY DEF Openings

LEMMA OpeningsPacking ==
  ASSUME TypeInv, TypeInv', Control, Numbers, Openings,
         Pop \/ OpenBlock \/ PutRest \/ PutPart \/ FillZero \/ TimeFlush
  PROVE  Openings'
<1>1. buf \in Seq(BlockType) /\ DOMAIN buf = 1 .. Len(buf) /\ used \in 0 .. BlockUnits
      /\ \A j \in 1 .. Len(buf) : Opens(buf[j])
  BY SMTT(60) DEF TypeInv, FlusherTypes, Openings
<1>2. last_filled_lsn \in 0 .. MaxLsn /\ min_lsn \in Nat /\ cur.lsn \in 0 .. MaxLsn
      /\ cur.left \in Nat /\ Room \in Nat
  BY ConstantTypes DEF TypeInv, FlusherTypes, CallerTypes, Room
<1>3. CASE Pop
  <2>1. buf' = buf /\ used' = used /\ data' = data
    BY <1>3 DEF Pop, disk
  <2>2. cur.lsn = 0
    BY <1>3 DEF Pop, NoEntry
  <2> QED BY <2>1, <2>2 DEF Openings
<1>4. CASE OpenBlock
  <2> DEFINE B == Fixed(buf, last_filled_lsn) N == NewBlock(cur.lsn)
  <2>1. buf' = Append(B, N) /\ data' = data /\ cur' = cur /\ cur # NoEntry
    BY <1>4 DEF OpenBlock, disk
  <2>2. B \in Seq(BlockType) /\ Len(B) = Len(buf) /\ \A j \in 1 .. Len(buf) : Opens(B[j])
    BY <1>1, <1>2, FixedFacts, FixedOpens
  <2>3. N.parts = <<>> /\ N.min = cur.lsn /\ cur.lsn # 0
    BY <2>1 DEF NewBlock, Numbers
  <2>4. Opens(N)
    BY <2>3 DEF Opens
  <2> HIDE DEF B, N
  <2>5. /\ DOMAIN buf' = 1 .. Len(buf) + 1 /\ Last(buf') = N
        /\ \A j \in 1 .. Len(buf) : buf'[j] = B[j]
        /\ buf'[Len(buf) + 1] = N
    BY <2>1, <2>2 DEF Last
  <2>6. \A j \in DOMAIN buf' : Opens(buf'[j])
    BY <2>2, <2>4, <2>5
  <2> QED BY <2>1, <2>3, <2>5, <2>6 DEF Openings
<1>5. CASE PutRest
  <2> DEFINE kind == IF cur.split THEN "Last" ELSE "Full"
  <2>1. Packing /\ FlushIfDue(WithPart(kind), used + 1 + cur.left, cur.lsn, FALSE)
    BY <1>5 DEF PutRest
  <2>2. buf # <<>>
    BY <2>1 DEF Packing, AtBoundary
  <2>3. kind \in {"Full", "First", "Middle", "Last"} /\ ~(kind \in {"First", "Middle"})
    OBVIOUS
  <2>4. used + 1 + cur.left \in Nat
    BY <1>1, <1>2, ConstantTypes
  <2> HIDE DEF kind
  <2> QED BY <2>1, <2>2, <2>3, <2>4, <1>2, PartOpens, FlushOpens
<1>6. CASE PutPart
  <2> DEFINE kind == IF cur.split THEN "Middle" ELSE "First"
  <2>1. Packing /\ FlushIfDue(WithPart(kind), BlockUnits, cur.lsn, TRUE) /\ 1 < Room
    BY <1>6 DEF PutPart
  <2>2. buf # <<>>
    BY <2>1 DEF Packing, AtBoundary
  <2>3. kind \in {"Full", "First", "Middle", "Last"}
    OBVIOUS
  <2> HIDE DEF kind
  <2> QED BY <2>1, <2>2, <2>3, <1>2, ConstantTypes, PartOpens, FlushOpens
<1>7. CASE FillZero
  <2>1. FlushIfDue(buf, BlockUnits, last_filled_lsn, cur.split)
    BY <1>7 DEF FillZero
  <2> QED BY <2>1, <1>1, <1>2, ConstantTypes, FlushOpens
<1>8. CASE TimeFlush
  <2>1. buf' = Fixed(buf, last_filled_lsn) /\ used' = BlockUnits /\ data' = data
    BY <1>8 DEF TimeFlush, disk
  <2>2. \A j \in 1 .. Len(buf) : Opens(buf'[j])
    BY <2>1, <1>1, <1>2, FixedOpens
  <2>3. DOMAIN buf' = 1 .. Len(buf) /\ ~(used' < BlockUnits)
    BY <2>1, <1>1, <1>2, ConstantTypes, FixedFacts
  <2> QED BY <2>1, <2>2, <2>3 DEF Openings
<1> QED
  BY <1>3, <1>4, <1>5, <1>6, <1>7, <1>8

LEMMA OpeningsDisk ==
  ASSUME TypeInv, Control, Openings,
         Halt \/ OpenData \/ Write \/ Sync \/ RotSync \/ RotNew \/ RemoveRot \/ Flushed
  PROVE  Openings'
<1> DEFINE All(D) == \A i \in DOMAIN D : \A j \in DOMAIN D[i].blocks : Opens(D[i].blocks[j])
<1>1. data \in Seq(RotType) /\ buf \in Seq(BlockType) /\ DOMAIN data = 1 .. Len(data)
  BY DEF TypeInv, DiskTypes, FlusherTypes
<1>2. All(data) /\ \A j \in DOMAIN buf : Opens(buf[j])
  BY DEF Openings
<1>3. CASE Halt
  <2>1. buf' = <<>>
    BY <1>3 DEF Halt, NoWriter
  <2>2. CASE data = <<>>
    BY <2>1, <2>2, <1>3, OpeningsEmptied DEF Halt
  <2>3. CASE data # <<>>
    <3> DEFINE m == Len(data)
    <3>1. PICK n \in 0 .. Len(Last(data).blocks) :
            data' \in Seq(RotType) /\ CutBehind(data, data', n)
      BY <2>3, <1>3, HaltData DEF TypeInv
    <3>2. m \in 1 .. m /\ Last(data) = data[m] /\ data[m].blocks \in Seq(BlockType)
          /\ Len(data[m].blocks) \in Nat
      BY <2>3, LastTypes DEF TypeInv
    <3>3. /\ DOMAIN data' = 1 .. m /\ data'[m].blocks = SubSeq(data[m].blocks, 1, n)
          /\ \A i \in 1 .. m : i < m => data'[i] = data[i]
      BY <3>1 DEF CutBehind
    <3> HIDE DEF m
    <3>4. ASSUME NEW j \in DOMAIN data'[m].blocks PROVE Opens(data'[m].blocks[j])
      <4> DEFINE A == data[m].blocks
      <4>1. j \in 1 .. n /\ j \in DOMAIN A /\ data'[m].blocks[j] = A[j]
        <5> HIDE DEF A
        <5>1. A \in Seq(BlockType) /\ data'[m].blocks = SubSeq(A, 1, n) /\ n \in 0 .. Len(A)
          BY <3>1, <3>2, <3>3 DEF A
        <5> QED BY <5>1
      <4> QED BY <4>1, <1>1, <1>2, <3>2 DEF m
    <3>5. \A i \in DOMAIN data' : \A j \in DOMAIN data'[i].blocks : Opens(data'[i].blocks[j])
      <4>1. ASSUME NEW i \in DOMAIN data'
            PROVE \A j \in DOMAIN data'[i].blocks : Opens(data'[i].blocks[j])
        <5>1. CASE i = m
          BY <5>1, <3>4
        <5>2. CASE i # m
          <6>1. data'[i] = data[i] /\ i \in DOMAIN data
            BY <5>2, <1>1, <3>2, <3>3 DEF m
          <6> QED BY <6>1, <1>2
        <5> QED BY <5>1, <5>2
      <4> QED BY <4>1
    <3> QED BY <3>5, <2>1, OpeningsEmptied
  <2> QED BY <2>2, <2>3
<1>4. CASE OpenData
  <2>1. buf' = buf /\ used' = used /\ cur' = cur
    BY <1>4 DEF OpenData, packing
  <2>2. CASE data = <<>>
    <3>1. data' = <<NewRot(1)>> /\ NewRot(1).blocks = <<>>
      BY <2>2, <1>4 DEF OpenData, NewRot
    <3> QED BY <2>1, <3>1 DEF Openings
  <2>3. CASE data # <<>>
    BY <2>1, <2>3, <1>4, OpeningsSame DEF OpenData
  <2> QED BY <2>2, <2>3
<1>5. CASE Write
  <2> DEFINE m == Len(data)
  <2>1. data # <<>> /\ buf' = buf /\ used' = used /\ cur' = cur
    BY <1>5 DEF Write, Control, Early, Frame
  <2>2. m \in 1 .. m /\ data[m].blocks \in Seq(BlockType)
    BY <2>1, LastTypes DEF TypeInv
  <2>3. /\ data' = With(data, buf) /\ DOMAIN data' = 1 .. m
        /\ \A i \in 1 .. m : i < m => data'[i] = data[i]
        /\ data'[m].blocks = data[m].blocks \o buf
    <3>1. data' = With(data, buf)
      BY <2>1, <1>5, WriteData
    <3>2. /\ DOMAIN With(data, buf) = 1 .. m
          /\ \A i \in 1 .. m : i < m => With(data, buf)[i] = data[i]
          /\ With(data, buf)[m].blocks = data[m].blocks \o buf
      <4>1. /\ With(data, buf) \in Seq(RotType) /\ Len(With(data, buf)) = m
            /\ \A i \in 1 .. m : i < m => With(data, buf)[i] = data[i]
            /\ With(data, buf)[m].blocks = data[m].blocks \o buf
        BY ZenonT(60), SMTT(60), <2>1, <1>1, WithFacts
      <4> HIDE DEF m
      <4> QED BY <4>1
    <3> HIDE DEF m
    <3> QED BY <3>1, <3>2
  <2>4. ASSUME NEW j \in DOMAIN data'[m].blocks PROVE Opens(data'[m].blocks[j])
    <3> DEFINE A == data[m].blocks
    <3>1. \/ j \in DOMAIN A /\ data'[m].blocks[j] = A[j]
          \/ j - Len(A) \in DOMAIN buf /\ data'[m].blocks[j] = buf[j - Len(A)]
      <4> HIDE DEF A
      <4>1. A \in Seq(BlockType) /\ data'[m].blocks = A \o buf
        BY <2>2, <2>3 DEF A
      <4> QED BY <4>1, <1>1
    <3> QED BY <3>1, <1>1, <1>2, <2>2
  <2>5. ASSUME NEW i \in DOMAIN data', NEW j \in DOMAIN data'[i].blocks
        PROVE Opens(data'[i].blocks[j])
    <3>1. CASE i = m
      BY <3>1, <2>4
    <3>2. CASE i # m
      <4>1. data'[i] = data[i] /\ i \in DOMAIN data
        BY <3>2, <1>1, <2>2, <2>3
      <4> QED BY <4>1, <1>2
    <3> QED BY <3>1, <3>2
  <2> QED BY <2>1, <2>5 DEF Openings
<1>6. CASE Sync \/ RotSync
  <2>1. SyncData /\ data # <<>>
    BY <1>6 DEF Sync, RotSync, Control, Early
  <2>2. buf' = buf /\ used' = used /\ cur' = cur
    BY <2>1 DEF SyncData, Frame
  <2>3. DOMAIN data' = 1 .. Len(data) /\ \A i \in 1 .. Len(data) : data'[i].blocks = data[i].blocks
    BY <2>1, SyncFacts DEF TypeInv
  <2>4. All(data')
    BY <2>3, <1>1, <1>2
  <2> QED BY <2>2, <2>4 DEF Openings
<1>7. CASE RotNew
  <2> DEFINE N == NewRot(last_filled_lsn + 1)
  <2>1. data' = Append(data, N) /\ N.blocks = <<>> /\ buf' = buf /\ used' = used /\ cur' = cur
    BY <1>7 DEF RotNew, NewRot, Frame
  <2> HIDE DEF N
  <2>2. /\ DOMAIN data' = 1 .. Len(data) + 1
        /\ \A i \in 1 .. Len(data) : data'[i] = data[i]
        /\ data'[Len(data) + 1] = N
    BY <2>1, <1>1
  <2>3. All(data')
    BY <2>1, <2>2, <1>1, <1>2
  <2> QED BY <2>1, <2>3 DEF Openings
<1>8. CASE RemoveRot
  <2>1. buf' = buf /\ used' = used /\ cur' = cur
    BY <1>8 DEF RemoveRot, Frame
  <2>2. CASE UNCHANGED data
    BY <2>1, <2>2, OpeningsSame
  <2>3. CASE Len(data) > 1 /\ data' = Tail(data)
    <3>1. /\ data' \in Seq(RotType) /\ Len(data') = Len(data) - 1
          /\ \A i \in 1 .. Len(data) - 1 : data'[i] = data[i + 1]
      BY <2>3, <1>1, TailLeft
    <3>2. \A i \in DOMAIN data' : data'[i] = data[i + 1] /\ i + 1 \in DOMAIN data
      BY <3>1 DEF TypeInv, DiskTypes
    <3>3. All(data')
      BY <3>2, <1>2
    <3> QED BY <2>1, <3>3 DEF Openings
  <2> QED BY <2>2, <2>3, <1>8 DEF RemoveRot
<1>9. CASE Flushed
  BY <1>9, OpeningsEmptied DEF Flushed, disk
<1> QED
  BY <1>3, <1>4, <1>5, <1>6, <1>7, <1>8, <1>9

LEMMA OpeningsNext ==
  ASSUME IInv, IInv', Openings, [Next]_vars
  PROVE  Openings'
<1>1. TypeInv /\ TypeInv' /\ Control /\ Numbers
  BY DEF IInv
<1>2. CASE Pop \/ OpenBlock \/ PutRest \/ PutPart \/ FillZero \/ TimeFlush
  BY <1>1, <1>2, OpeningsPacking
<1>3. CASE Halt \/ OpenData \/ Write \/ Sync \/ RotSync \/ RotNew \/ RemoveRot \/ Flushed
  BY <1>1, <1>3, OpeningsDisk
<1>4. CASE UNCHANGED vars
  BY <1>4, OpeningsSame DEF vars, disk, packing
<1>5. CASE \/ Open \/ Stop
           \/ \E s \in Sizes : AppendEntry(s)
           \/ \E a \in Advancers : AdvStore(a) \/ \E l \in 1 .. MaxLsn : AdvLoad(a, l)
  <2>1. data' = data /\ buf' = buf /\ used' = used /\ cur' = cur
    BY <1>5 DEF Open, Stop, AppendEntry, AdvStore, AdvLoad, disk, packing
  <2> QED BY <2>1, OpeningsSame
<1>6. CASE Start \/ NoTimeFlush \/ Lsn \/ Flush \/ Mani \/ ManiSync \/ ManiRot
  <2>1. data' = data /\ buf' = buf /\ used' = used /\ cur' = cur
    BY <1>6 DEF Start, NoTimeFlush, Lsn, Flush, Mani, ManiSync, ManiRot, Frame, disk, packing
  <2> QED BY <2>1, OpeningsSame
<1>7. CASE Top
  <2>1. data' = data
    BY <1>7 DEF Top, disk
  <2>2. NoWriter \/ UNCHANGED packing
    BY <1>7 DEF Top
  <2>3. CASE NoWriter
    BY <2>1, <2>3, OpeningsEmptied DEF NoWriter
  <2> QED BY <2>1, <2>2, <2>3, OpeningsSame DEF packing
<1> QED
  BY <1>2, <1>3, <1>4, <1>5, <1>6, <1>7 DEF Next, Flusher

\* The headers in the files and in the buffer name the first entry of their block.
THEOREM HeadersOpen == Spec => []Openings
<1>1. Init => Openings
  BY DEF Init, Openings
<1>2. IInv /\ IInv' /\ Openings /\ [Next]_vars => Openings'
  BY OpeningsNext
<1> QED
  BY <1>1, <1>2, Invariant, PTL DEF Spec

-----------------------------------------------------------------------------
(* Reading: the iterator after each part.                                  *)

Earlier(read, x) == {y \in read : Before(y, x)}
UpTo(read, x) == {y \in read : y = x \/ Before(y, x)}
Turn(f, read, start, x) ==
  ReadPart(IF Earlier(read, x) = {} THEN [ok |-> TRUE, next |-> start, open |-> 0]
           ELSE f[LastOf(Earlier(read, x))], PartAt(data, x))
Turns(f, read, upto, start) == f = [x \in upto |-> Turn(f, read, start, x)]

\* Up to each part there is such a function.
LEMMA TurnsUpTo ==
  ASSUME data \in Seq(RotType), NEW read \in SUBSET Places(data), NEW start, NEW z \in read
  PROVE  \E f : Turns(f, read, UpTo(read, z), start)
<1> DEFINE Bad == {x \in read : ~ \E f : Turns(f, read, UpTo(read, x), start)}
<1>1. SUFFICES ASSUME Bad # {} PROVE FALSE
  OBVIOUS
<1>2. PICK x \in Bad : \A y \in Bad : ~Before(y, x)
  BY <1>1, FirstPlace
<1>3. x \in read /\ ~ \E f : Turns(f, read, UpTo(read, x), start)
  OBVIOUS
<1>4. CASE Earlier(read, x) = {}
  <2> DEFINE g == [y \in {x} |->
                     ReadPart([ok |-> TRUE, next |-> start, open |-> 0], PartAt(data, x))]
  <2>1. UpTo(read, x) = {x}
    BY <1>3, <1>4 DEF UpTo, Earlier
  <2>2. \A y \in {x} : Turn(g, read, start, y) =
                          ReadPart([ok |-> TRUE, next |-> start, open |-> 0], PartAt(data, x))
    BY <1>4 DEF Turn
  <2>3. Turns(g, read, UpTo(read, x), start)
    BY <2>1, <2>2 DEF Turns
  <2> QED BY <2>3, <1>3
<1>5. CASE Earlier(read, x) # {}
  <2> DEFINE p == LastOf(Earlier(read, x))
  <2>1. /\ p \in read /\ Before(p, x)
        /\ \A y \in read : Before(y, x) => y = p \/ Before(y, p)
    <3>1. Earlier(read, x) \in SUBSET Places(data)
      BY DEF Earlier
    <3>2. p \in Earlier(read, x) /\ \A y \in Earlier(read, x) : y = p \/ Before(y, p)
      BY <3>1, <1>5, LastOfIs
    <3> QED BY <3>2 DEF Earlier
  <2>2. PICK f : Turns(f, read, UpTo(read, p), start)
    BY <2>1, <1>2
  <2>3. UpTo(read, x) = UpTo(read, p) \cup {x} /\ x \notin UpTo(read, p) /\ p \in UpTo(read, p)
    <3>1. ASSUME NEW y \in read, Before(y, p) PROVE Before(y, x)
      BY <3>1, <2>1, <1>3, BeforeTransitive
    <3>2. p # x /\ ~Before(x, p)
      BY <2>1, <1>3, BeforeTotal
    <3> HIDE DEF p
    <3> QED BY <3>1, <3>2, <2>1, <1>3 DEF UpTo
  <2>4. ASSUME NEW y \in UpTo(read, p), Earlier(read, y) # {}
        PROVE  LastOf(Earlier(read, y)) \in UpTo(read, p)
    <3>1. Earlier(read, y) \in SUBSET Places(data) /\ y \in read
      BY DEF Earlier, UpTo
    <3>2. LastOf(Earlier(read, y)) \in Earlier(read, y)
      BY <3>1, <2>4, LastOfIs
    <3> DEFINE q == LastOf(Earlier(read, y))
    <3>3. q \in read /\ Before(q, y) /\ (y = p \/ Before(y, p))
      BY <3>2, <2>1 DEF Earlier, UpTo
    <3> HIDE DEF q, p
    <3>4. Before(q, p)
      BY <3>1, <3>3, <2>1, BeforeTransitive
    <3> QED BY <3>3, <3>4 DEF UpTo, q
  <2> HIDE DEF p
  <2> DEFINE g == [y \in UpTo(read, x) |-> IF y = x THEN Turn(f, read, start, x) ELSE f[y]]
  <2>5. \A y \in UpTo(read, p) : g[y] = f[y]
    BY <2>3
  <2>6. ASSUME NEW y \in UpTo(read, x) PROVE Turn(g, read, start, y) = Turn(f, read, start, y)
    <3>1. Earlier(read, y) # {} => g[LastOf(Earlier(read, y))] = f[LastOf(Earlier(read, y))]
      <4>1. CASE y = x
        BY <4>1, <2>3, <2>5 DEF p
      <4>2. CASE y \in UpTo(read, p)
        BY <4>2, <2>4, <2>5
      <4> QED BY <4>1, <4>2, <2>3
    <3> HIDE DEF g
    <3> QED BY <3>1 DEF Turn
  <2>7. \A y \in UpTo(read, p) : f[y] = Turn(f, read, start, y)
    BY <2>2 DEF Turns
  <2>8. Turns(g, read, UpTo(read, x), start)
    <3>1. \A y \in UpTo(read, x) :
            (IF y = x THEN Turn(f, read, start, x) ELSE f[y]) = Turn(g, read, start, y)
      BY <2>3, <2>6, <2>7
    <3> QED BY <3>1 DEF Turns
  <2> QED BY <2>8, <1>3
<1> QED
  BY <1>4, <1>5

\* So the iterator is in the state that each part in its turn leads to.
LEMMA ReadingTurns ==
  ASSUME data \in Seq(RotType), NEW read \in SUBSET Places(data), read # {}, NEW start
  PROVE  \A x \in read : Reading(read, start)[x] = Turn(Reading(read, start), read, start, x)
<1> DEFINE z == LastOf(read)
<1>1. z \in read /\ \A y \in read : y = z \/ Before(y, z)
  BY LastOfIs
<1>2. UpTo(read, z) = read
  BY <1>1 DEF UpTo
<1>3. PICK f : Turns(f, read, read, start)
  BY <1>1, <1>2, TurnsUpTo
<1>4. f = [x \in read |-> Turn(f, read, start, x)]
  BY <1>3 DEF Turns
<1>5. Reading(read, start) = [x \in read |-> Turn(Reading(read, start), read, start, x)]
  BY <1>4 DEF Reading, Turn, Earlier
<1> QED
  BY <1>5

-----------------------------------------------------------------------------
(* Reading: entries come out whole and in order.                           *)

\* A part that an entry goes on behind is not empty.
Goes(D) == \A x \in Places(D) : KindAt(D, x) \in {"First", "Middle"} => FromAt(D, x) < ToAt(D, x)
Ends(D, x) == KindAt(D, x) \in {"Full", "Last"}
Iter(next, open) == [ok |-> TRUE, next |-> next, open |-> open]
After(D, x) ==
  IF Ends(D, x) THEN Iter(LsnAt(D, x) + 1, 0) ELSE Iter(LsnAt(D, x), LsnAt(D, x))

LEMMA ReadPartFacts ==
  ASSUME NEW next, NEW open, NEW p
  PROVE  /\ p.kind = "Full" /\ p.lsn = next => ReadPart(Iter(next, open), p) = Iter(next + 1, open)
         /\ p.kind = "First" /\ open = 0 => ReadPart(Iter(next, open), p) = Iter(next, p.lsn)
         /\ p.kind = "Middle" /\ p.lsn = open => ReadPart(Iter(next, open), p) = Iter(next, open)
         /\ p.kind = "Last" /\ p.lsn = open /\ p.lsn = next =>
              ReadPart(Iter(next, open), p) = Iter(next + 1, 0)
<1>1. ASSUME p.kind = "Full", p.lsn = next
      PROVE  ReadPart(Iter(next, open), p) = Iter(next + 1, open)
  BY <1>1 DEF ReadPart, Iter
<1>2. ASSUME p.kind = "First", open = 0
      PROVE  ReadPart(Iter(next, open), p) = Iter(next, p.lsn)
  BY <1>2 DEF ReadPart, Iter
<1>3. ASSUME p.kind = "Middle", p.lsn = open
      PROVE  ReadPart(Iter(next, open), p) = Iter(next, open)
  BY <1>3 DEF ReadPart, Iter
<1>4. ASSUME p.kind = "Last", p.lsn = open, p.lsn = next
      PROVE  ReadPart(Iter(next, open), p) = Iter(next + 1, 0)
  BY <1>4 DEF ReadPart, Iter
<1> QED
  BY <1>1, <1>2, <1>3, <1>4

\* No part of an entry comes before the one that begins it.
LEMMA BeginsFirst ==
  ASSUME NEW D \in Seq(RotType), Goes(D), NEW l, NEW s, Tiled(D, l, s, s),
         NEW x \in Mine(D, l), NEW z \in Mine(D, l), FromAt(D, z) = 0
  PROVE  ~Before(x, z)
<1>1. SUFFICES ASSUME Before(x, z) PROVE FALSE
  OBVIOUS
<1>2. ToAt(D, x) # s /\ ToAt(D, x) <= 0
  BY <1>1 DEF Tiled, Apart
<1>3. /\ FromAt(D, x) \in Nat /\ ToAt(D, x) \in Nat /\ FromAt(D, x) <= ToAt(D, x)
      /\ KindAt(D, x) \in {"Full", "First", "Middle", "Last"}
  BY AtTypes DEF Mine
<1>4. FromAt(D, x) = 0
  BY <1>2, <1>3
<1>5. KindAt(D, x) = "First"
  BY <1>2, <1>3, <1>4 DEF Tiled, Called
<1>6. FromAt(D, x) < ToAt(D, x)
  BY <1>5 DEF Goes, Mine
<1> QED
  BY <1>2, <1>3, <1>6

\* The first part that is read is the first of its entry, and the next one goes
\* on with the entry or begins the next.
LEMMA ReadsFirst ==
  ASSUME data \in Seq(RotType), Ordered(data), Goes(data), NEW start \in Nat,
         Tiled(data, start, size[start], size[start]),
         NEW x \in Places(data), LsnAt(data, x) >= start,
         \A y \in Places(data) : LsnAt(data, y) >= start => ~Before(y, x)
  PROVE  LsnAt(data, x) = start /\ KindAt(data, x) \in {"Full", "First"}
<1>1. PICK z \in Mine(data, start) : FromAt(data, z) = 0
  BY DEF Tiled, Begins
<1>2. z \in Places(data) /\ LsnAt(data, z) = start
  BY DEF Mine
<1>3. x = z \/ Before(x, z)
  BY <1>2, BeforeTotal
<1>4. LsnAt(data, x) \in Nat
  BY AtTypes
<1>5. LsnAt(data, x) <= start
  BY <1>2, <1>3, <1>4 DEF Ordered
<1>6. x \in Mine(data, start)
  BY <1>4, <1>5 DEF Mine
<1>7. x = z
  BY <1>1, <1>3, <1>6, BeginsFirst
<1> QED
  BY <1>1, <1>2, <1>7 DEF Tiled, Called

LEMMA ReadsNext ==
  ASSUME data \in Seq(RotType), Ordered(data), Goes(data), NEW start \in Nat, NEW top \in Nat,
         \A l \in start .. top : Tiled(data, l, size[l], size[l]),
         \A x \in Places(data) : LsnAt(data, x) <= top,
         NEW p \in Places(data), LsnAt(data, p) >= start,
         NEW x \in Places(data), Before(p, x),
         \A y \in Places(data) : Before(y, x) /\ LsnAt(data, y) >= start => y = p \/ Before(y, p)
  PROVE  IF Ends(data, p)
         THEN LsnAt(data, x) = LsnAt(data, p) + 1 /\ KindAt(data, x) \in {"Full", "First"}
         ELSE LsnAt(data, x) = LsnAt(data, p) /\ KindAt(data, x) \in {"Middle", "Last"}
<1> DEFINE l == LsnAt(data, p) m == LsnAt(data, x)
<1>1. l \in start .. top /\ m \in start .. top /\ l <= m /\ l \in Nat /\ m \in Nat
  BY AtTypes DEF Ordered
<1>2. p \in Mine(data, l) /\ Tiled(data, l, size[l], size[l])
  BY <1>1 DEF Mine
<1>3. ASSUME NEW y \in Places(data), LsnAt(data, y) >= start, Before(p, y)
      PROVE  x = y \/ Before(x, y)
  <2>1. ~(y = p) /\ ~Before(y, p)
    BY <1>3, BeforeTotal
  <2> QED BY <2>1, <1>3, BeforeTotal
<1>4. CASE Ends(data, p)
  <2>1. ToAt(data, p) = size[l]
    BY <1>2, <1>4 DEF Ends, Tiled, Called
  <2>2. m # l
    <3>1. SUFFICES ASSUME m = l PROVE FALSE
      OBVIOUS
    <3>2. x \in Mine(data, l)
      BY <3>1 DEF Mine
    <3> QED BY <3>2, <2>1, <1>2 DEF Tiled, Apart
  <2>3. l + 1 \in start .. top /\ l + 1 <= m
    BY <2>2, <1>1
  <2>4. PICK z \in Mine(data, l + 1) : FromAt(data, z) = 0
    BY <2>3 DEF Tiled, Begins
  <2>5. z \in Places(data) /\ LsnAt(data, z) = l + 1
    BY DEF Mine
  <2>6. Before(p, z)
    <3>1. ~(z = p) /\ ~Before(z, p)
      BY <2>5, <1>1 DEF Ordered
    <3> QED BY <3>1, <2>5, BeforeTotal
  <2>7. x = z \/ Before(x, z)
    BY <2>5, <2>6, <2>3, <1>1, <1>3
  <2>8. m <= l + 1
    BY <2>5, <2>7, <1>1 DEF Ordered
  <2>9. x \in Mine(data, l + 1)
    BY <2>3, <2>8, <1>1 DEF Mine
  <2>10. x = z /\ Tiled(data, l + 1, size[l + 1], size[l + 1])
    BY <2>3, <2>4, <2>7, <2>9, BeginsFirst
  <2> QED BY <2>4, <2>5, <2>10, <1>4 DEF Tiled, Called
<1>5. CASE ~Ends(data, p)
  <2>1. KindAt(data, p) \in {"First", "Middle"} /\ FromAt(data, p) \in Nat /\ ToAt(data, p) \in Nat
    BY <1>5, AtTypes DEF Ends
  <2>2. ToAt(data, p) # size[l] /\ ToAt(data, p) > 0
    BY <2>1, <1>2 DEF Tiled, Called, Goes
  <2>3. PICK y \in Mine(data, l) : Before(p, y) /\ FromAt(data, y) = ToAt(data, p)
    BY <2>2, <1>2 DEF Tiled, GoesOn
  <2>4. y \in Places(data) /\ LsnAt(data, y) = l
    BY DEF Mine
  <2>5. x = y \/ Before(x, y)
    BY <2>3, <2>4, <1>1, <1>3
  <2>6. m = l
    BY <2>4, <2>5, <1>1 DEF Ordered
  <2>7. x \in Mine(data, l)
    BY <2>6 DEF Mine
  <2>8. ToAt(data, p) <= FromAt(data, x) /\ FromAt(data, x) \in Nat
    BY <2>7, <1>2, AtTypes DEF Tiled, Apart
  <2>9. FromAt(data, x) # 0
    BY <2>1, <2>2, <2>8
  <2>10. ~(KindAt(data, x) \in {"Full", "First"})
    BY <2>7, <2>9, <1>2 DEF Tiled, Called
  <2> QED BY <2>6, <2>10, <1>5, AtTypes
<1> QED
  BY <1>4, <1>5

\* What is read from an entry on: the iterator never finds anything else than what
\* it expects.
LEMMA ReadsInOrder ==
  ASSUME data \in Seq(RotType), Ordered(data), Goes(data), NEW start \in Nat, NEW top \in Nat,
         start <= top,
         \A l \in start .. top : Tiled(data, l, size[l], size[l]),
         \A x \in Places(data) : LsnAt(data, x) <= top
  PROVE  LET read == {x \in Places(data) : LsnAt(data, x) >= start}
         IN  \A x \in read : Reading(read, start)[x] = After(data, x)
<1> DEFINE read == {x \in Places(data) : LsnAt(data, x) >= start}
           st == Reading(read, start)
           Bad == {x \in read : st[x] # After(data, x)}
<1>1. SUFFICES ASSUME Bad # {} PROVE FALSE
  OBVIOUS
<1>2. PICK x \in Bad : \A y \in Bad : ~Before(y, x)
  BY <1>1, FirstPlace
<1>3. x \in read /\ st[x] # After(data, x) /\ x \in Places(data) /\ LsnAt(data, x) >= start
  OBVIOUS
<1>4. st[x] = Turn(st, read, start, x)
  <2>1. read \in SUBSET Places(data) /\ read # {}
    BY <1>3
  <2> HIDE DEF read
  <2> QED BY <2>1, <1>3, ReadingTurns
<1>5. PartAt(data, x).kind = KindAt(data, x) /\ PartAt(data, x).lsn = LsnAt(data, x)
  BY DEF KindAt, LsnAt
<1>6. start \in start .. top /\ LsnAt(data, x) \in Nat
  BY <1>3, AtTypes
<1>7. CASE Earlier(read, x) = {}
  <2>1. LsnAt(data, x) = start /\ KindAt(data, x) \in {"Full", "First"}
    <3>1. \A y \in Places(data) : LsnAt(data, y) >= start => ~Before(y, x)
      BY <1>7 DEF Earlier
    <3> QED BY <3>1, <1>3, <1>6, ReadsFirst
  <2>2. st[x] = ReadPart(Iter(start, 0), PartAt(data, x))
    BY <1>4, <1>7 DEF Turn, Iter
  <2> HIDE DEF st, read
  <2>3. CASE KindAt(data, x) = "Full"
    <3>1. ReadPart(Iter(start, 0), PartAt(data, x)) = Iter(start + 1, 0)
      <4>1. PartAt(data, x).kind = "Full" /\ PartAt(data, x).lsn = start
        BY <2>1, <2>3, <1>5
      <4> QED BY ZenonT(60), SMTT(60), <4>1, ReadPartFacts
    <3> QED BY <3>1, <2>1, <2>2, <2>3, <1>3 DEF After, Ends
  <2>4. CASE KindAt(data, x) = "First"
    <3>1. ReadPart(Iter(start, 0), PartAt(data, x)) = Iter(start, start)
      BY <2>1, <2>4, <1>5, ReadPartFacts
    <3> QED BY <3>1, <2>1, <2>2, <2>4, <1>3 DEF After, Ends
  <2> QED BY <2>1, <2>3, <2>4
<1>8. CASE Earlier(read, x) # {}
  <2> DEFINE p == LastOf(Earlier(read, x))
  <2>1. p \in read /\ Before(p, x) /\ \A y \in read : Before(y, x) => y = p \/ Before(y, p)
    <3>1. Earlier(read, x) \in SUBSET Places(data)
      BY DEF Earlier
    <3>2. p \in Earlier(read, x) /\ \A y \in Earlier(read, x) : y = p \/ Before(y, p)
      BY <3>1, <1>8, LastOfIs
    <3> QED BY <3>2 DEF Earlier
  <2>2. st[p] = After(data, p)
    BY <2>1, <1>2
  <2>3. st[x] = ReadPart(After(data, p), PartAt(data, x))
    <3> HIDE DEF st, read
    <3> QED BY <2>2, <1>4, <1>8 DEF Turn
  <2>4. IF Ends(data, p)
        THEN LsnAt(data, x) = LsnAt(data, p) + 1 /\ KindAt(data, x) \in {"Full", "First"}
        ELSE LsnAt(data, x) = LsnAt(data, p) /\ KindAt(data, x) \in {"Middle", "Last"}
    <3>1. p \in Places(data) /\ LsnAt(data, p) >= start
      BY <2>1
    <3>2. \A y \in Places(data) : Before(y, x) /\ LsnAt(data, y) >= start => y = p \/ Before(y, p)
      BY <2>1
    <3> HIDE DEF p
    <3> QED BY <3>1, <3>2, <2>1, <1>3, ReadsNext
  <2> DEFINE l == LsnAt(data, p) m == LsnAt(data, x)
  <2> HIDE DEF st, read, p, l, m
  <2>5. CASE Ends(data, p) /\ KindAt(data, x) = "Full"
    <3>1. After(data, p) = Iter(m, 0)
      BY <2>4, <2>5 DEF After, l, m
    <3>2. ReadPart(Iter(m, 0), PartAt(data, x)) = Iter(m + 1, 0)
      <4>1. PartAt(data, x).kind = "Full" /\ PartAt(data, x).lsn = m
        BY <2>5, <1>5 DEF m
      <4> QED BY Zenon, <4>1, ReadPartFacts
    <3> QED BY <3>1, <3>2, <2>3, <2>5, <1>3 DEF After, Ends, m
  <2>6. CASE Ends(data, p) /\ KindAt(data, x) = "First"
    <3>1. After(data, p) = Iter(m, 0)
      BY <2>4, <2>6 DEF After, l, m
    <3>2. ReadPart(Iter(m, 0), PartAt(data, x)) = Iter(m, m)
      BY <2>6, <1>5, ReadPartFacts DEF m
    <3> QED BY <3>1, <3>2, <2>3, <2>6, <1>3 DEF After, Ends, m
  <2>7. CASE ~Ends(data, p) /\ KindAt(data, x) = "Middle"
    <3>1. After(data, p) = Iter(m, m)
      BY <2>4, <2>7 DEF After, l, m
    <3>2. ReadPart(Iter(m, m), PartAt(data, x)) = Iter(m, m)
      BY <2>7, <1>5, ReadPartFacts DEF m
    <3> QED BY <3>1, <3>2, <2>3, <2>7, <1>3 DEF After, Ends, m
  <2>8. CASE ~Ends(data, p) /\ KindAt(data, x) = "Last"
    <3>1. After(data, p) = Iter(m, m)
      BY <2>4, <2>8 DEF After, l, m
    <3>2. ReadPart(Iter(m, m), PartAt(data, x)) = Iter(m + 1, 0)
      BY <2>8, <1>5, ReadPartFacts DEF m
    <3> QED BY <3>1, <3>2, <2>3, <2>8, <1>3 DEF After, Ends, m
  <2> QED BY <2>4, <2>5, <2>6, <2>7, <2>8
<1> QED
  BY <1>7, <1>8

-----------------------------------------------------------------------------
(* Reading: where it begins.                                               *)

\* The block has its first part at this place.
StartsAt(D, i, j) ==
  \E x \in Places(D) : x[1] = i /\ x[2] = j /\ x[3] = 1 /\ LsnAt(D, x) = D[i].blocks[j].min

LEMMA FirstPartStarts ==
  ASSUME NEW D \in Seq(RotType), NEW i \in 1 .. Len(D), NEW j \in 1 .. Len(D[i].blocks),
         Headed(D[i].blocks[j]), Opens(D[i].blocks[j])
  PROVE  StartsAt(D, i, j)
<1> DEFINE P == D[i].blocks[j].parts
           x == <<i, j, 1>>
<1>1. P \in Seq(PartType) /\ D[i].blocks \in Seq(BlockType)
  BY ZenonT(60), SMTT(60), RotTypes
<1>2. P # <<>> /\ D[i].blocks[j].min = P[1].lsn
  BY DEF Headed, Opens
<1>3. 1 \in DOMAIN P
  BY <1>1, <1>2
<1>4. i \in DOMAIN D /\ j \in DOMAIN D[i].blocks
  BY <1>1
<1>5. IsPlace(D, x)
  BY <1>3, <1>4 DEF IsPlace
<1>6. x \in Places(D)
  BY <1>5, PlaceIff
<1>7. LsnAt(D, x) = D[i].blocks[j].min
  BY <1>2 DEF LsnAt, PartAt
<1>8. x[1] = i /\ x[2] = j /\ x[3] = 1
  OBVIOUS
<1> HIDE DEF x, P
<1> QED
  BY <1>6, <1>7, <1>8 DEF StartsAt

\* The rotation that is found has the entry, and no later one begins with it or
\* before it.
RotWith(start, rot) ==
  /\ rot \in 1 .. Len(data) /\ data[rot].first <= start
  /\ \A i \in 1 .. Len(data) : i > rot => start < data[i].first

RotsAfter(start) ==
  {i \in DOMAIN data : start < data[i].first /\ (i > 1 => data[i - 1].first <= start)}
RotOf(start) ==
  IF RotsAfter(start) = {} THEN Len(data)
  ELSE (CHOOSE i \in RotsAfter(start) : \A j \in RotsAfter(start) : i <= j) - 1

LEMMA RotFound ==
  ASSUME data \in Seq(RotType), Ascending(data), Named(data), NEW start \in Nat,
         NEW z \in Mine(data, start)
  PROVE  RotWith(start, RotOf(start)) /\ z[1] = RotOf(start)
<1>1. z \in Places(data) /\ LsnAt(data, z) = start /\ z[1] \in 1 .. Len(data)
  BY PlaceTypes DEF Mine
<1>2. /\ DOMAIN data = 1 .. Len(data) /\ Len(data) \in Nat
      /\ \A i \in 1 .. Len(data) : data[i].first \in Nat
  BY RotTypes
<1>3. \A i \in 1 .. Len(data) : IF z[1] < i THEN start < data[i].first ELSE data[i].first <= start
  BY <1>1, <1>2 DEF Named
<1>4. data[1].first <= start
  BY <1>1, <1>2, <1>3
<1>5. CASE RotsAfter(start) = {}
  <2> DEFINE S == {i \in 1 .. Len(data) : start < data[i].first}
  <2>1. S = {}
    <3>1. SUFFICES ASSUME S # {} PROVE FALSE
      OBVIOUS
    <3>2. PICK i \in S : \A j \in S : i <= j
      <4>1. S \subseteq Nat
        OBVIOUS
      <4> HIDE DEF S
      <4> QED BY <3>1, <4>1, LeastNumber
    <3>3. i > 1
      BY <1>1, <1>2, <1>4
    <3>4. i - 1 \in 1 .. Len(data) /\ ~(i - 1 \in S)
      BY <3>2, <3>3
    <3>5. data[i - 1].first <= start
      BY <3>4, <1>2
    <3>6. i \in RotsAfter(start)
      BY <3>5, <1>2 DEF RotsAfter
    <3> QED BY <3>6, <1>5
  <2>2. RotOf(start) = Len(data)
    BY <1>5 DEF RotOf
  <2>3. ~(z[1] < Len(data)) /\ Len(data) \in 1 .. Len(data)
    BY <2>1, <1>1, <1>2, <1>3
  <2> QED BY <2>2, <2>3, <1>1, <1>2, <1>3 DEF RotWith
<1>6. CASE RotsAfter(start) # {}
  <2>1. \E i \in RotsAfter(start) : \A j \in RotsAfter(start) : i <= j
    <3>1. RotsAfter(start) \subseteq Nat
      BY <1>2 DEF RotsAfter
    <3> QED BY <3>1, <1>6, LeastNumber
  <2>2. PICK i \in RotsAfter(start) : RotOf(start) = i - 1
    BY <2>1, <1>6 DEF RotOf
  <2>3. i \in 1 .. Len(data) /\ start < data[i].first /\ (i > 1 => data[i - 1].first <= start)
    BY <1>2 DEF RotsAfter
  <2>4. i > 1 /\ i - 1 \in 1 .. Len(data) /\ data[i - 1].first <= start
    BY <2>3, <1>2, <1>4
  <2>5. z[1] < i /\ ~(z[1] < i - 1)
    BY SMTT(60), <2>3, <2>4, <1>1, <1>2, <1>3
  <2>6. z[1] = i - 1
    BY <2>3, <2>5, <1>1
  <2> QED BY <2>2, <2>4, <2>6, <1>2, <1>3 DEF RotWith
<1> QED
  BY <1>5, <1>6

\* The block that is found is no later than that of the entry, and those before it
\* hold older entries only.
Fits(rot, j, start) == data[rot].blocks[j].min <= start /\ start <= data[rot].blocks[j].max
FirstFit(rot, start) ==
  CHOOSE j \in DOMAIN data[rot].blocks :
    Fits(rot, j, start) /\ \A k \in 1 .. j - 1 : ~Fits(rot, k, start)

AllHeaded ==
  \A i \in DOMAIN data : \A j \in DOMAIN data[i].blocks :
    Headed(data[i].blocks[j]) /\ Opens(data[i].blocks[j])

LEMMA BlockFound ==
  ASSUME data \in Seq(RotType), Ordered(data), AllHeaded, NEW start \in Nat,
         NEW z \in Mine(data, start)
  PROVE  LET rot == z[1]
             j == FirstFit(z[1], start)
         IN  /\ rot \in 1 .. Len(data) /\ j \in DOMAIN data[rot].blocks /\ Fits(rot, j, start)
             /\ j <= z[2] /\ \A k \in 1 .. j - 1 : data[rot].blocks[k].max < start
<1> DEFINE rot == z[1]
           B == data[rot].blocks
           S == {j \in 1 .. Len(B) : Fits(rot, j, start)}
<1>1. /\ z \in Places(data) /\ LsnAt(data, z) = start
      /\ rot \in 1 .. Len(data) /\ z[2] \in 1 .. Len(B)
      /\ z[3] \in 1 .. Len(data[rot].blocks[z[2]].parts)
  BY PlaceTypes DEF Mine
<1>2. /\ B \in Seq(BlockType) /\ Len(B) \in Nat /\ DOMAIN B = 1 .. Len(B)
      /\ \A j \in 1 .. Len(B) : B[j].min \in Nat /\ B[j].max \in Nat
  <2>1. B \in Seq(BlockType)
    BY <1>1, RotTypes
  <2> HIDE DEF B
  <2> QED BY <2>1, BlockTypes
<1>3. \A j \in 1 .. Len(B) : Headed(B[j]) /\ Opens(B[j])
  BY SMTT(60), <1>1, <1>2 DEF AllHeaded
<1>4. ASSUME NEW j \in 1 .. Len(B), j <= z[2] PROVE B[j].min <= start
  <2>1. StartsAt(data, rot, j)
    BY <1>1, <1>3, FirstPartStarts
  <2>2. PICK x \in Places(data) : x[1] = rot /\ x[2] = j /\ x[3] = 1 /\ LsnAt(data, x) = B[j].min
    BY <2>1 DEF StartsAt
  <2>3. ~Before(z, x)
    BY SMTT(60), <2>2, <1>1, <1>4, PlaceTypes DEF Before
  <2>4. x = z \/ Before(x, z)
    BY <2>3, <1>1, BeforeTotal
  <2> QED BY SMTT(60), <2>2, <2>4, <1>1, <1>2 DEF Ordered
<1>5. B[z[2]].max >= start
  <2>1. EndsAt(data, rot, z[2])
    BY <1>1, <1>3, LastPartEnds
  <2>2. PICK x \in Places(data) : /\ x[1] = rot /\ x[2] = z[2] /\ x[3] = Len(B[z[2]].parts)
                                  /\ LsnAt(data, x) = B[z[2]].max
    BY <2>1 DEF EndsAt
  <2>3. ~Before(x, z)
    BY SMTT(60), <2>2, <1>1, PlaceTypes DEF Before
  <2>4. x = z \/ Before(z, x)
    BY <2>3, <1>1, BeforeTotal
  <2> QED BY SMTT(60), <2>2, <2>4, <1>1, <1>2 DEF Ordered
<1>6. z[2] \in S
  BY SMTT(60), <1>1, <1>2, <1>4, <1>5 DEF Fits
<1>7. \E j \in DOMAIN B : Fits(rot, j, start) /\ \A k \in 1 .. j - 1 : ~Fits(rot, k, start)
  <2>1. PICK j \in S : \A k \in S : j <= k
    <3>1. S \subseteq Nat /\ S # {}
      BY <1>6
    <3> HIDE DEF S
    <3> QED BY <3>1, LeastNumber
  <2>2. \A k \in 1 .. j - 1 : k \in 1 .. Len(B) /\ ~(j <= k)
    BY <1>2
  <2> QED BY <2>1, <2>2, <1>2
<1> DEFINE j == FirstFit(rot, start)
<1>8. j \in DOMAIN B /\ Fits(rot, j, start) /\ \A k \in 1 .. j - 1 : ~Fits(rot, k, start)
  BY <1>7 DEF FirstFit
<1> HIDE DEF j
<1>9. j <= z[2]
  <2>1. Fits(rot, z[2], start) /\ z[2] \in Nat /\ z[2] >= 1
    BY <1>1, <1>6
  <2> QED BY <2>1, <1>2, <1>8
<1>10. ASSUME NEW k \in 1 .. j - 1 PROVE B[k].max < start
  <2>1. k \in 1 .. Len(B) /\ k <= z[2]
    BY SMTT(60), <1>1, <1>2, <1>8, <1>9
  <2>2. B[k].min <= start /\ ~Fits(rot, k, start)
    BY <2>1, <1>4, <1>8
  <2> QED BY <2>1, <2>2, <1>2 DEF Fits
<1> QED
  BY <1>1, <1>8, <1>9, <1>10 DEF j

LEMMA ReadsAll ==
  ASSUME data \in Seq(RotType), Ordered(data), Ascending(data), Named(data), AllHeaded,
         NEW start \in Nat, NEW z \in Mine(data, start)
  PROVE  /\ Located(start) # <<>> /\ Readable(Located(start), start)
         /\ ReadPlaces(Located(start), start) = {x \in Places(data) : LsnAt(data, x) >= start}
<1> DEFINE rot == z[1]
           j == FirstFit(rot, start)
           at == <<rot, j>>
<1>1. RotWith(start, rot) /\ rot = RotOf(start)
  BY RotFound
<1>2. /\ rot \in 1 .. Len(data) /\ j \in DOMAIN data[rot].blocks /\ Fits(rot, j, start)
      /\ j <= z[2] /\ \A k \in 1 .. j - 1 : data[rot].blocks[k].max < start
  BY BlockFound
<1>3. Located(start) = at
  <2>1. Located(start) =
          IF RotOf(start) = 0
             \/ \A k \in DOMAIN data[RotOf(start)].blocks : ~Fits(RotOf(start), k, start)
          THEN <<>> ELSE <<RotOf(start), FirstFit(RotOf(start), start)>>
    BY DEF Located, RotOf, RotsAfter, Fits, FirstFit
  <2>2. /\ RotOf(start) # 0
        /\ ~ \A k \in DOMAIN data[RotOf(start)].blocks : ~Fits(RotOf(start), k, start)
    <3> HIDE DEF j, rot
    <3> QED BY <1>1, <1>2
  <2> QED BY <2>1, <2>2, <1>1
<1> HIDE DEF j
<1>4. at # <<>> /\ at[1] = rot /\ at[2] = j
  OBVIOUS
<1>5. /\ DOMAIN data = 1 .. Len(data) /\ Len(data) \in Nat /\ rot \in DOMAIN data
      /\ data[rot].blocks \in Seq(BlockType)
      /\ j \in 1 .. Len(data[rot].blocks)
  BY <1>2, RotTypes
<1>6. /\ z \in Places(data) /\ LsnAt(data, z) = start /\ z[2] \in Nat
  BY PlaceTypes DEF Mine
<1>7. Readable(at, start)
  <2>1. \A i \in at[1] .. Len(data) :
          \A k \in DOMAIN data[i].blocks : data[i].blocks[k].parts # <<>>
    BY <1>5 DEF AllHeaded, Headed
  <2>2. Last(data[rot].blocks[j].parts).lsn = data[rot].blocks[j].max
    BY <1>5 DEF AllHeaded, Headed
  <2>3. start <= data[rot].blocks[j].max /\ data[rot].blocks[j].max \in Nat
    BY <1>2, <1>5, BlockTypes DEF Fits
  <2> HIDE DEF at, rot
  <2> QED BY <2>1, <2>2, <2>3, <1>4 DEF Readable
<1>8. ASSUME NEW x \in Places(data)
      PROVE  (/\ x[1] > rot \/ (x[1] = rot /\ x[2] >= j)
              /\ x[1] = rot /\ x[2] = j => LsnAt(data, x) >= start)
             <=> LsnAt(data, x) >= start
  <2>1. /\ x[1] \in 1 .. Len(data) /\ x[2] \in 1 .. Len(data[x[1]].blocks)
        /\ x[3] \in 1 .. Len(data[x[1]].blocks[x[2]].parts) /\ LsnAt(data, x) \in Nat
    BY PlaceTypes, AtTypes
  <2>2. CASE x[1] > rot
    <3>1. Before(z, x)
      BY <2>2 DEF Before
    <3> QED BY <3>1, <2>2, <1>6 DEF Ordered
  <2>3. CASE x[1] = rot /\ x[2] > j
    <3>1. EndsAt(data, rot, j)
      BY <1>5, LastPartEnds DEF AllHeaded
    <3>2. PICK e \in Places(data) :
            e[1] = rot /\ e[2] = j /\ LsnAt(data, e) = data[rot].blocks[j].max
      BY <3>1 DEF EndsAt
    <3>3. Before(e, x)
      BY <3>2, <2>3, <2>1, <1>5 DEF Before
    <3>4. LsnAt(data, e) <= LsnAt(data, x) /\ LsnAt(data, e) \in Nat
      BY <3>3, AtTypes DEF Ordered
    <3>5. start <= data[rot].blocks[j].max
      BY <1>2 DEF Fits
    <3>6. LsnAt(data, x) >= start
      <4> HIDE DEF rot, j
      <4> QED BY SMTT(60), <3>2, <3>4, <3>5, <2>1
    <3>7. x[1] = rot /\ x[2] >= j
      <4> HIDE DEF rot, j
      <4> QED BY <2>3, <2>1, <1>5
    <3> HIDE DEF rot, j
    <3> QED BY <3>6, <3>7
  <2>4. CASE x[1] = rot /\ x[2] = j
    BY <2>4, <2>1, <1>5
  <2>5. CASE x[1] = rot /\ x[2] < j
    <3>1. x[2] \in 1 .. j - 1 /\ x[2] \in 1 .. Len(data[rot].blocks)
      BY <2>1, <2>5, <1>5
    <3>2. PICK e \in Places(data) : /\ e[1] = rot /\ e[2] = x[2]
                                    /\ e[3] = Len(data[rot].blocks[x[2]].parts)
                                    /\ LsnAt(data, e) = data[rot].blocks[x[2]].max
      <4>1. Headed(data[rot].blocks[x[2]])
        BY <3>1, <1>5 DEF AllHeaded
      <4>2. EndsAt(data, rot, x[2])
        BY <4>1, <3>1, <1>2, LastPartEnds
      <4> QED BY <4>2 DEF EndsAt
    <3>3. ~Before(e, x)
      <4>1. e[1] = x[1] /\ e[2] = x[2] /\ x[3] <= e[3]
        BY <3>2, <2>1, <2>5
      <4>2. x[1] \in Nat /\ x[2] \in Nat /\ x[3] \in Nat /\ e[3] \in Nat
        BY PlaceTypes
      <4> HIDE DEF rot
      <4> QED BY <4>1, <4>2 DEF Before
    <3>4. LsnAt(data, x) <= LsnAt(data, e)
      <4>1. x = e \/ Before(x, e)
        BY <3>3, BeforeTotal
      <4> QED BY <4>1, <2>1 DEF Ordered
    <3>5. LsnAt(data, e) < start /\ LsnAt(data, e) \in Nat
      <4>1. LsnAt(data, e) \in Nat
        BY AtTypes
      <4>2. data[rot].blocks[x[2]].max < start
        BY <3>1, <1>2
      <4> QED BY <4>1, <4>2, <3>2
    <3> QED BY <3>4, <3>5, <2>1, <2>5, <1>5
  <2>6. CASE x[1] < rot
    <3>1. LsnAt(data, x) < data[rot].first /\ data[rot].first <= start /\ data[rot].first \in Nat
      BY <2>6, <1>1, <1>2, <1>5, RotTypes DEF Named, RotWith
    <3> QED BY SMTT(60), <3>1, <2>1, <2>6, <1>5
  <2> QED BY <2>1, <2>2, <2>3, <2>4, <2>5, <2>6, <1>5
<1>9. ReadPlaces(at, start) = {x \in Places(data) : LsnAt(data, x) >= start}
  <2>1. \A x : <<x[1], x[2]>> = at <=> x[1] = rot /\ x[2] = j
    OBVIOUS
  <2> HIDE DEF at, rot
  <2> QED BY <2>1, <1>4, <1>8 DEF ReadPlaces, LsnAt
<1> HIDE DEF at
<1> QED
  BY <1>3, <1>4, <1>7, <1>9

\* The entries from start on are whole, and end where the log does.
LEMMA ReadsWhole ==
  ASSUME IInv, Openings, pc = "closed", Restored.ok, faults = {}, ~BlankManifest,
         NEW start \in Larger(Restored.min, needed) .. Restored.max, Restored.min > 0,
         \A l \in torn \cup Torn : l < start
  PROVE  /\ data \in Seq(RotType) /\ start \in Nat \ {0} /\ Restored.max \in Nat
         /\ Ordered(data) /\ Ascending(data) /\ Named(data) /\ AllHeaded /\ Goes(data)
         /\ \A l \in start .. Restored.max : Tiled(data, l, size[l], size[l])
         /\ \A x \in Places(data) : LsnAt(data, x) <= Restored.max
<1>1. TypeInv /\ Control /\ Numbers /\ Synced /\ Manifest /\ Log
  BY DEF IInv
<1>2. /\ Stream = data /\ Restored.max \in 0 .. MaxLsn
      /\ \A x \in Places(data) : LsnAt(data, x) <= Restored.max
      /\ Restored.max # 0 => \E x \in Places(data) : LsnAt(data, x) = Restored.max
  BY <1>1, Reopened
<1>3. Restored.min \in Nat /\ needed \in Nat
  BY <1>1, RestoredTypes DEF TypeInv, HistoryTypes
<1>4. /\ start \in Nat \ {0} /\ needed <= start /\ start <= Restored.max
      /\ Restored.max \in Nat /\ Restored.max <= MaxLsn
  BY <1>2, <1>3, ConstantTypes DEF Larger
<1>5. data \in Seq(RotType) /\ Ordered(data) /\ Ascending(data) /\ Named(data)
  BY <1>1, <1>2 DEF Log, TypeInv, DiskTypes
<1>6. AllHeaded
  BY <1>1 DEF Log, Headers, Openings, AllHeaded
<1>7. Goes(data)
  <2> SUFFICES ASSUME NEW x \in Places(data), KindAt(data, x) \in {"First", "Middle"}
               PROVE  FromAt(data, x) < ToAt(data, x)
    BY DEF Goes
  <2>1. IsPlace(data, x)
    BY PlaceIff
  <2>2. PartAt(data, x).units > 0
    BY <2>1 DEF IsPlace, Openings, Opens, KindAt, PartAt
  <2>3. PartAt(data, x).units \in Nat /\ PartAt(data, x).from \in Nat
    BY <1>5, PlaceTypes DEF PartType
  <2> QED BY <2>2, <2>3 DEF FromAt, ToAt
<1>8. ASSUME NEW l \in start .. Restored.max PROVE Tiled(data, l, size[l], size[l])
  <2>1. l \in Lsns \ {0} /\ l >= start /\ ~(l < start)
    BY <1>4, ConstantTypes DEF Lsns
  <2>2. \E x \in Places(data) : l <= LsnAt(data, x)
    BY <1>2, <1>4
  <2>3. l < needed \/ l \in torn \/ Tiled(data, l, size[l], size[l]) \/ CutOff(data, l)
    BY <2>1, <2>2, <1>1 DEF Log, Whole, WholeClosed
  <2>4. ~(l < needed) /\ l \notin torn
    BY <2>1, <1>3, <1>4
  <2>5. ~CutOff(data, l)
    <3>1. SUFFICES ASSUME CutOff(data, l) PROVE FALSE
      OBVIOUS
    <3>2. l \in Torn
      BY <3>1 DEF CutOff, Torn, Mine, LsnAt, KindAt
    <3> QED BY <3>2, <2>1
  <2> QED BY <2>3, <2>4, <2>5
<1> QED
  BY <1>2, <1>4, <1>5, <1>6, <1>7, <1>8

\* A closed log that can be opened is readable to its end from every entry that
\* the reader accepts and is still needed, unless a torn entry comes after it: the
\* names and the headers lead to the block of the entry, and from there on every
\* part is the one the iterator expects, over blocks, rotations and reopenings.
THEOREM ReadableToEnd == Spec => []ReadBack
<1>1. IInv /\ Openings => ReadBack
  <2> SUFFICES ASSUME IInv, Openings, pc = "closed", Restored.ok, faults = {}, ~BlankManifest,
                      Restored.min > 0, NEW start \in Larger(Restored.min, needed) .. Restored.max,
                      \A l \in torn \cup Torn : l < start
               PROVE  Read(start) = [ok |-> TRUE, next |-> Restored.max + 1, open |-> 0]
    BY DEF ReadBack
  <2> DEFINE top == Restored.max
             read == {x \in Places(data) : LsnAt(data, x) >= start}
             at == Located(start)
  <2>1. /\ data \in Seq(RotType) /\ start \in Nat /\ top \in Nat /\ start <= top
        /\ Ordered(data) /\ Ascending(data) /\ Named(data) /\ AllHeaded /\ Goes(data)
        /\ \A l \in start .. top : Tiled(data, l, size[l], size[l])
        /\ \A x \in Places(data) : LsnAt(data, x) <= top
    <3>1. /\ data \in Seq(RotType) /\ start \in Nat \ {0} /\ top \in Nat
          /\ Ordered(data) /\ Ascending(data) /\ Named(data) /\ AllHeaded /\ Goes(data)
          /\ \A l \in start .. top : Tiled(data, l, size[l], size[l])
          /\ \A x \in Places(data) : LsnAt(data, x) <= top
      BY ReadsWhole
    <3> HIDE DEF top
    <3>2. Larger(Restored.min, needed) \in Int
      BY RestoredTypes DEF Larger, IInv, TypeInv, HistoryTypes
    <3> QED BY <3>1, <3>2 DEF top
  <2>2. PICK z \in Mine(data, start) : FromAt(data, z) = 0
    BY <2>1 DEF Tiled, Begins
  <2>3. at # <<>> /\ Readable(at, start) /\ ReadPlaces(at, start) = read
    BY <2>1, ReadsAll
  <2>4. z \in read /\ read \in SUBSET Places(data)
    BY <2>1, <2>2 DEF Mine
  <2>5. \A x \in read : Reading(read, start)[x] = After(data, x)
    <3> HIDE DEF top
    <3> QED BY <2>1, ReadsInOrder
  <2> DEFINE e == LastOf(read)
  <2>6. e \in read /\ \A y \in read : y = e \/ Before(y, e)
    <3> HIDE DEF read
    <3> QED BY <2>1, <2>4, LastOfIs
  <2>7. e \in Places(data) /\ LsnAt(data, e) \in Nat /\ LsnAt(data, e) >= start
    BY <2>1, <2>6, AtTypes
  <2>8. ASSUME NEW y \in Places(data) PROVE ~Before(e, y)
    <3>1. SUFFICES ASSUME Before(e, y) PROVE FALSE
      OBVIOUS
    <3>2. LsnAt(data, e) <= LsnAt(data, y) /\ LsnAt(data, y) \in Nat
      BY <3>1, <2>1, <2>7, AtTypes DEF Ordered
    <3>3. y \in read
      BY <3>2, <2>1, <2>7
    <3>4. ~(y = e) /\ ~Before(y, e)
      BY <3>1, <2>1, <2>7, BeforeTotal
    <3> QED BY <3>3, <3>4, <2>6
  <2>9. LsnAt(data, e) = top
    <3>1. PICK y \in Mine(data, top) : FromAt(data, y) = 0
      <4>1. top \in start .. top
        BY <2>1
      <4> QED BY <4>1, <2>1 DEF Tiled, Begins
    <3>2. y \in Places(data) /\ LsnAt(data, y) = top /\ ~Before(e, y)
      BY <3>1, <2>8 DEF Mine
    <3>3. y = e \/ Before(y, e)
      BY <3>2, <2>1, <2>7, BeforeTotal
    <3>4. top <= LsnAt(data, e)
      BY <3>2, <3>3, <2>1, <2>7 DEF Ordered
    <3> HIDE DEF e, top
    <3> QED BY <3>4, <2>1, <2>7
  <2>10. Ends(data, e)
    <3>1. SUFFICES ASSUME ~Ends(data, e) PROVE FALSE
      OBVIOUS
    <3>2. PartAt(data, e).kind \in {"First", "Middle"}
      BY <3>1, <2>1, <2>7, AtTypes DEF Ends, KindAt
    <3>3. LsnAt(data, e) \in Torn
      <4> HIDE DEF e
      <4> QED BY <3>2, <2>7, <2>8 DEF Torn, LsnAt
    <3> QED BY <3>3, <2>1, <2>7
  <2>11. Read(start) = After(data, e)
    <3>1. Read(start) = Reading(ReadPlaces(at, start), start)[LastOf(ReadPlaces(at, start))]
      BY <2>3 DEF Read
    <3> QED BY <3>1, <2>3, <2>5, <2>6
  <2>12. After(data, e) = [ok |-> TRUE, next |-> top + 1, open |-> 0]
    BY <2>9, <2>10 DEF After, Iter
  <2> QED BY <2>11, <2>12
<1> QED
  BY <1>1, Invariant, HeadersOpen, PTL
================================================================================
