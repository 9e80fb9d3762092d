--------------------------- MODULE RotAppenderProofs ---------------------------
(***************************************************************************)
(* Proofs about RotAppender, for every payload size, every limit and any   *)
(* number of calls, switches that are cut off, crashes and reopenings.     *)
(***************************************************************************)
EXTENDS RotAppender, FiniteSetTheorems, WellFoundedInduction, TLAPS

-----------------------------------------------------------------------------
(* The inductive invariant.                                                *)

FileType == [content : Seq(Nat), synced : Nat]
Name(i) == <<i, 0>>
Names == {Name(i) : i \in Nat}

\* The variables have their types; there are finitely many files, with names of
\* the default provider.
TypeInv ==
  /\ files \in [DOMAIN files -> FileType]
  /\ DOMAIN files \subseteq Names /\ IsFiniteSet(DOMAIN files)
  /\ \A n \in DOMAIN files : files[n].synced <= Len(files[n].content)
  /\ pc \in {"closed", "idle", "sync", "remove", "create"}
  /\ no \in Nat /\ target = Name(no) /\ esize \in Nat
  /\ max_rot \in Nat /\ limits \in Seq(Nat)
  /\ sent \in Seq(Nat) /\ risky \in BOOLEAN
  /\ acked \subseteq whole /\ whole \subseteq 1 .. Len(sent)

\* Marks are numbers of calls, and those in one file ascend.
Ascending ==
  \A n \in DOMAIN files :
    /\ \A i \in DOMAIN files[n].content : files[n].content[i] \in 1 .. Len(sent)
    /\ \A i, j \in DOMAIN files[n].content :
         i < j => files[n].content[i] <= files[n].content[j]

\* The numbers separate the calls too.
Separate ==
  \A m, n \in DOMAIN files :
    m[1] < n[1] =>
      \A i \in DOMAIN files[m].content, j \in DOMAIN files[n].content :
        files[m].content[i] <= files[n].content[j]

\* The file being written is the last one, but for one that a switch created before
\* it was cut off: that one is empty.
LastWritten ==
  pc # "closed" =>
    \A n \in DOMAIN files : \/ n[1] <= no
                            \/ n[1] = no + 1 /\ files[n].content = <<>>

\* Such a file is there only after a switch was cut off.
Ahead ==
  (pc # "closed" /\ max_rot \in {1, 2} /\ Name(no + 1) \in DOMAIN files) => risky

\* The file being written is there, but while the only rotation is being replaced.
TargetListed ==
  (pc # "closed" /\ ~risky /\ (max_rot # 1 \/ pc # "create")) => target \in DOMAIN files

\* Only of the file being written there is something that is not synced.
OthersSynced ==
  \A n \in DOMAIN files :
    (n # target \/ pc \in {"closed", "remove", "create"})
      => files[n].synced = Len(files[n].content)

\* The units of a call on disk.
UnitsOf(fs, id) ==
  {u \in (DOMAIN fs) \X Nat : u[2] \in DOMAIN fs[u[1]].content /\ fs[u[1]].content[u[2]] = id}

\* A payload that was written in full is there in full; one reported as persisted
\* is synced.
WholeThere ==
  ~risky => \A id \in whole \ gone : /\ IsFiniteSet(UnitsOf(files, id))
                                     /\ Cardinality(UnitsOf(files, id)) = sent[id]
AckedSynced ==
  \A id \in acked \ gone : \A u \in UnitsOf(files, id) : u[2] <= files[u[1]].synced

\* There is room for one more rotation when one is about to be created.
Room(b) == Cardinality(DOMAIN files) + (IF pc = "create" THEN 1 ELSE 0) <= b
RoomLeft ==
  /\ pc # "closed" => max_rot \in Ids(limits)
  /\ 0 \notin Ids(limits) => \E b \in {1} \cup Ids(limits) : Room(b)

IInv ==
  /\ TypeInv /\ Ascending /\ Separate /\ LastWritten /\ Ahead /\ TargetListed
  /\ OthersSynced /\ WholeThere /\ AckedSynced /\ RoomLeft

-----------------------------------------------------------------------------
(* Sets of numbers.                                                        *)

\* A nonempty set of numbers has a least one.
LEMMA LeastNumber ==
  ASSUME NEW S, S \subseteq Nat, S # {}
  PROVE  \E x \in S : \A y \in S : x <= y
<1> DEFINE R == OpToRel(<, Nat)
<1>1. IsWellFoundedOn(R, Nat)
  BY NatLessThanWellFounded
<1>2. \A x, y \in Nat : <<x, y>> \in R <=> x < y
  BY DEF OpToRel
<1> HIDE DEF R
<1>3. PICK x \in S : \A y \in S : ~(<<y, x>> \in R)
  BY <1>1, WFMin
<1>4. ASSUME NEW y \in S PROVE x <= y
  <2>1. ~(y < x)
    BY <1>2, <1>3
  <2> QED BY <2>1
<1> QED
  BY <1>4

\* A finite nonempty set of numbers has a greatest one.
LEMMA GreatestNumber ==
  ASSUME NEW S, S \subseteq Nat, IsFiniteSet(S), S # {}
  PROVE  \E x \in S : \A y \in S : y <= x
<1> DEFINE Unbounded(T) == T # {} /\ \A x \in T : \E y \in T : ~(y <= x)
           Sizes_ == {k \in Nat : \E T \in SUBSET S : Unbounded(T) /\ Cardinality(T) = k}
<1>1. SUFFICES ASSUME Unbounded(S) PROVE FALSE
  OBVIOUS
<1>2. Cardinality(S) \in Sizes_
  BY <1>1, FS_CardinalityType
<1>3. PICK k \in Sizes_ : \A j \in Sizes_ : k <= j
  <2> Sizes_ # {} /\ Sizes_ \subseteq Nat
    BY <1>2
  <2> HIDE DEF Sizes_
  <2> QED BY LeastNumber
<1>4. PICK T \in SUBSET S : Unbounded(T) /\ Cardinality(T) = k
  BY <1>3
<1>5. PICK x \in T : TRUE
  BY <1>4
<1>6. IsFiniteSet(T)
  BY <1>4, FS_Subset
<1>7. Cardinality(T \ {x}) = k - 1 /\ k - 1 \in Nat
  <2>1. IsFiniteSet(T \ {x}) /\ Cardinality(T \ {x}) = k - 1
    BY <1>4, <1>5, <1>6, FS_RemoveElement
  <2> QED BY <2>1, FS_CardinalityType
<1>8. Unbounded(T \ {x})
  <2>1. PICK y \in T : ~(y <= x)
    BY <1>4, <1>5
  <2>2. y \in T \ {x}
    BY <2>1, <1>5
  <2>3. ASSUME NEW z \in T \ {x} PROVE \E w \in T \ {x} : ~(w <= z)
    <3>1. PICK w \in T : ~(w <= z)
      BY <1>4
    <3>2. w # x \/ ~(y <= z)
      BY <3>1, <2>1
    <3> QED BY <3>1, <3>2, <2>2
  <2> QED BY <2>2, <2>3
<1>9. k - 1 \in Sizes_
  BY <1>7, <1>8
<1> QED
  BY <1>3, <1>9

-----------------------------------------------------------------------------
(* The operators of Rotation.                                              *)

IsDir(fs) == fs \in [DOMAIN fs -> FileType]

\* The first and the last name exist and are what their definitions say.
LEMMA OldestIs ==
  ASSUME NEW fs, DOMAIN fs \subseteq Names, DOMAIN fs # {}
  PROVE  /\ Oldest(fs) \in DOMAIN fs
         /\ \A m \in DOMAIN fs : m # Oldest(fs) => Oldest(fs)[1] < m[1]
<1> DEFINE S == {n[1] : n \in DOMAIN fs}
<1>1. PICK x \in S : \A y \in S : x <= y
  <2> S \subseteq Nat /\ S # {}
    BY DEF Names, Name
  <2> HIDE DEF S
  <2> QED BY LeastNumber
<1>2. PICK n \in DOMAIN fs : n[1] = x
  BY <1>1
<1>3. \A m \in DOMAIN fs : m = n \/ Earlier(n, m)
  BY <1>1, <1>2 DEF Names, Name, Earlier
<1>4. /\ Oldest(fs) \in DOMAIN fs
      /\ \A m \in DOMAIN fs : m = Oldest(fs) \/ Earlier(Oldest(fs), m)
  BY <1>2, <1>3 DEF Oldest
<1> QED
  BY <1>4 DEF Earlier, Names, Name

LEMMA LatestIs ==
  ASSUME NEW fs, DOMAIN fs \subseteq Names, IsFiniteSet(DOMAIN fs), DOMAIN fs # {}
  PROVE  /\ Latest(fs) \in DOMAIN fs
         /\ \A m \in DOMAIN fs : m # Latest(fs) => m[1] < Latest(fs)[1]
<1> DEFINE S == {n[1] : n \in DOMAIN fs}
<1>1. IsFiniteSet(S)
  <2> DEFINE f == [n \in DOMAIN fs |-> n[1]]
  <2>1. f \in Surjection(DOMAIN fs, S)
    BY DEF Surjection
  <2> QED BY <2>1, FS_Surjection
<1>2. PICK x \in S : \A y \in S : y <= x
  <2> S \subseteq Nat /\ S # {}
    BY DEF Names, Name
  <2> HIDE DEF S
  <2> QED BY <1>1, GreatestNumber
<1>3. PICK n \in DOMAIN fs : n[1] = x
  BY <1>2
<1>4. \A m \in DOMAIN fs : m = n \/ Earlier(m, n)
  BY <1>2, <1>3 DEF Names, Name, Earlier
<1>5. /\ Latest(fs) \in DOMAIN fs
      /\ \A m \in DOMAIN fs : m = Latest(fs) \/ Earlier(m, Latest(fs))
  BY <1>3, <1>4 DEF Latest
<1> QED
  BY <1>5 DEF Earlier, Names, Name

\* Opening for appending adds an empty file, or nothing.
LEMMA OpenedIs ==
  ASSUME NEW fs, IsDir(fs), NEW n
  PROVE  /\ IsDir(Opened(fs, n))
         /\ DOMAIN Opened(fs, n) = DOMAIN fs \cup {n}
         /\ \A m \in DOMAIN fs : Opened(fs, n)[m] = fs[m]
         /\ n \notin DOMAIN fs => /\ Opened(fs, n)[n].content = <<>>
                                 /\ Opened(fs, n)[n].synced = 0
BY DEF IsDir, Opened, FileType

\* Removing takes one name away.
LEMMA RemovedIs ==
  ASSUME NEW fs, IsDir(fs), NEW n
  PROVE  /\ IsDir(Removed(fs, n))
         /\ DOMAIN Removed(fs, n) = DOMAIN fs \ {n}
         /\ \A m \in DOMAIN fs \ {n} : Removed(fs, n)[m] = fs[m]
BY DEF IsDir, Removed, FileType

\* Writing makes one file longer, and tells nothing where the name is gone.
LEMMA WrittenIs ==
  ASSUME NEW fs, IsDir(fs), NEW n, NEW units \in Seq(Nat)
  PROVE  /\ IsDir(Written(fs, n, units))
         /\ DOMAIN Written(fs, n, units) = DOMAIN fs
         /\ \A m \in DOMAIN fs : Written(fs, n, units)[m].synced = fs[m].synced
         /\ \A m \in DOMAIN fs \ {n} : Written(fs, n, units)[m] = fs[m]
         /\ n \in DOMAIN fs => Written(fs, n, units)[n].content = fs[n].content \o units
<1>1. CASE n \notin DOMAIN fs
  BY <1>1 DEF IsDir, Written
<1>2. CASE n \in DOMAIN fs
  <2>1. fs[n] \in FileType
    BY <1>2 DEF IsDir
  <2>2. fs[n].content \o units \in Seq(Nat)
    BY <2>1 DEF FileType
  <2>3. Written(fs, n, units) =
          [m \in DOMAIN fs |-> IF m = n THEN [fs[n] EXCEPT !.content = fs[n].content \o units]
                                        ELSE fs[m]]
    BY <1>2 DEF Written, IsDir
  <2> QED
    BY ZenonT(60), SMTT(60), <1>2, <2>1, <2>2, <2>3 DEF IsDir, FileType
<1> QED
  BY <1>1, <1>2

\* Syncing changes no content.
LEMMA SyncedIs ==
  ASSUME NEW fs, IsDir(fs), NEW n
  PROVE  /\ IsDir(Synced(fs, n))
         /\ DOMAIN Synced(fs, n) = DOMAIN fs
         /\ \A m \in DOMAIN fs : Synced(fs, n)[m].content = fs[m].content
         /\ \A m \in DOMAIN fs \ {n} : Synced(fs, n)[m] = fs[m]
         /\ n \in DOMAIN fs => Synced(fs, n)[n].synced = Len(fs[n].content)
<1>1. CASE n \notin DOMAIN fs
  BY <1>1 DEF IsDir, Synced
<1>2. CASE n \in DOMAIN fs
  <2>1. fs[n] \in FileType /\ Len(fs[n].content) \in Nat
    BY <1>2 DEF IsDir, FileType
  <2>2. Synced(fs, n) =
          [m \in DOMAIN fs |-> IF m = n THEN [fs[n] EXCEPT !.synced = Len(fs[n].content)]
                                        ELSE fs[m]]
    BY <1>2 DEF Synced, IsDir
  <2> QED
    BY ZenonT(60), SMTT(60), <1>2, <2>1, <2>2 DEF IsDir, FileType
<1> QED
  BY <1>1, <1>2

\* A crash cuts every file at or behind what is synced, and what is left is synced.
LEMMA SurvivingIs ==
  ASSUME NEW fs, IsDir(fs), \A n \in DOMAIN fs : fs[n].synced <= Len(fs[n].content),
         NEW gs \in Surviving(fs)
  PROVE  /\ IsDir(gs)
         /\ DOMAIN gs = DOMAIN fs
         /\ \A n \in DOMAIN fs :
              \E k \in Nat : /\ fs[n].synced <= k /\ k <= Len(fs[n].content)
                             /\ gs[n].content = SubSeq(fs[n].content, 1, k)
                             /\ Len(gs[n].content) = k
                             /\ gs[n].synced = k
<1> DEFINE kept(n, lost) == SubSeq(fs[n].content, 1, Len(fs[n].content) - lost[n])
<1>1. PICK lost : /\ lost \in [DOMAIN fs -> UNION {0 .. Unsynced(fs, n) : n \in DOMAIN fs}]
                  /\ \A n \in DOMAIN fs : lost[n] <= Unsynced(fs, n)
                  /\ gs = [n \in DOMAIN fs |-> [content |-> kept(n, lost),
                                                synced |-> Len(kept(n, lost))]]
  BY DEF Surviving
<1>2. ASSUME NEW n \in DOMAIN fs
      PROVE  \E k \in Nat : /\ fs[n].synced <= k /\ k <= Len(fs[n].content)
                            /\ kept(n, lost) = SubSeq(fs[n].content, 1, k)
                            /\ kept(n, lost) \in Seq(Nat)
                            /\ Len(kept(n, lost)) = k
  <2>1. fs[n].content \in Seq(Nat) /\ fs[n].synced \in Nat
    BY DEF IsDir, FileType
  <2>2. PICK m \in DOMAIN fs : lost[n] \in 0 .. Unsynced(fs, m)
    BY <1>1
  <2>3. lost[n] \in Nat /\ lost[n] <= Len(fs[n].content) - fs[n].synced
    <3>1. fs[m].content \in Seq(Nat) /\ fs[m].synced \in Nat
      BY DEF IsDir, FileType
    <3> QED BY <1>1, <2>2, <3>1, <2>1 DEF Unsynced
  <2>4. WITNESS Len(fs[n].content) - lost[n] \in Nat
  <2> QED BY SMTT(60), <2>1, <2>3, <2>4
<1> HIDE DEF kept
<1> QED
  BY <1>1, <1>2 DEF IsDir, FileType

-----------------------------------------------------------------------------
(* The units of a call.                                                    *)

LEMMA UnitsAre ==
  ASSUME NEW id \in Nat, NEW s \in Nat
  PROVE  /\ Units(id, s) \in Seq(Nat) /\ Len(Units(id, s)) = s
         /\ \A i \in DOMAIN Units(id, s) : Units(id, s)[i] = id
BY DEF Units

\* Writing s units of a call adds s units to those of this call, and none to others.
LEMMA UnitsWritten ==
  ASSUME NEW fs, IsDir(fs), NEW n \in DOMAIN fs, NEW id \in Nat, NEW s \in Nat,
         UnitsOf(fs, id) = {}, NEW gs, gs = Written(fs, n, Units(id, s))
  PROVE  /\ IsFiniteSet(UnitsOf(gs, id)) /\ Cardinality(UnitsOf(gs, id)) = s
         /\ \A other : other # id => UnitsOf(gs, other) = UnitsOf(fs, other)
<1>1. PICK old : old = fs[n].content
  OBVIOUS
<1>2. old \in Seq(Nat) /\ Len(old) \in Nat /\ DOMAIN old = 1 .. Len(old)
  BY <1>1 DEF IsDir, FileType
<1>3. /\ IsDir(gs) /\ DOMAIN gs = DOMAIN fs
      /\ \A m \in DOMAIN fs \ {n} : gs[m] = fs[m]
      /\ gs[n].content = old \o Units(id, s)
  <2>1. Units(id, s) \in Seq(Nat)
    BY UnitsAre
  <2> QED BY SMTT(60), <1>1, <2>1, WrittenIs
<1>4. /\ DOMAIN gs[n].content = 1 .. Len(old) + s
      /\ \A i \in 1 .. Len(old) : gs[n].content[i] = old[i]
      /\ \A i \in Len(old) + 1 .. Len(old) + s : gs[n].content[i] = id
  <2>1. PICK new : new = Units(id, s)
    OBVIOUS
  <2>2. new \in Seq(Nat) /\ Len(new) = s /\ \A i \in DOMAIN new : new[i] = id
    BY <2>1, UnitsAre
  <2>3. DOMAIN (old \o new) = 1 .. Len(old) + s
    BY <1>2, <2>2
  <2>4. \A i \in 1 .. Len(old) + s :
          (old \o new)[i] = IF i <= Len(old) THEN old[i] ELSE new[i - Len(old)]
    BY <1>2, <2>2
  <2>5. \A i \in Len(old) + 1 .. Len(old) + s : i - Len(old) \in DOMAIN new
    BY <1>2, <2>2
  <2>6. gs[n].content = old \o new
    BY <1>3, <2>1
  <2>7. \A i \in 1 .. Len(old) : i \in 1 .. Len(old) + s /\ i <= Len(old)
    BY <1>2
  <2>8. \A i \in Len(old) + 1 .. Len(old) + s : i \in 1 .. Len(old) + s /\ ~(i <= Len(old))
    BY <1>2
  <2>9. /\ \A i \in 1 .. Len(old) : (old \o new)[i] = old[i]
        /\ \A i \in Len(old) + 1 .. Len(old) + s : (old \o new)[i] = id
    BY <2>2, <2>4, <2>5, <2>7, <2>8
  <2> QED BY <2>3, <2>6, <2>9
<1>5. PICK I : I = Len(old) + 1 .. Len(old) + s
  OBVIOUS
<1>6. \A m \in DOMAIN fs, i \in Nat :
        (i \in DOMAIN gs[m].content /\ gs[m].content[i] = id) <=> (m = n /\ i \in I)
  <2> SUFFICES ASSUME NEW m \in DOMAIN fs, NEW i \in Nat
               PROVE  (i \in DOMAIN gs[m].content /\ gs[m].content[i] = id)
                        <=> (m = n /\ i \in I)
    OBVIOUS
  <2>1. ~(i \in DOMAIN fs[m].content /\ fs[m].content[i] = id)
    <3>1. <<m, i>> \notin UnitsOf(fs, id)
      OBVIOUS
    <3> QED BY <3>1 DEF UnitsOf
  <2>2. CASE m = n
    <3>1. i \in 1 .. Len(old) => gs[n].content[i] # id
      BY <1>1, <1>2, <1>4, <2>1, <2>2
    <3> QED BY <2>2, <3>1, <1>2, <1>4, <1>5
  <2>3. CASE m # n
    BY <2>1, <2>3, <1>3
  <2> QED BY <2>2, <2>3
<1>7. UnitsOf(gs, id) = {<<n, i>> : i \in I}
  <2>1. I \subseteq Nat
    BY <1>2, <1>5
  <2> QED BY <2>1, <1>3, <1>6 DEF UnitsOf
<1>8. IsFiniteSet(UnitsOf(gs, id)) /\ Cardinality(UnitsOf(gs, id)) = s
  <2>1. IsFiniteSet(I) /\ Cardinality(I) = s
    BY <1>2, <1>5, FS_Interval
  <2> DEFINE f == [i \in I |-> <<n, i>>]
  <2> DEFINE T == {<<n, i>> : i \in I}
  <2>2. f \in Bijection(I, T)
    <3>1. f \in [I -> T]
      OBVIOUS
    <3>2. \A i, j \in I : f[i] = f[j] => i = j
      OBVIOUS
    <3>3. \A u \in T : \E i \in I : f[i] = u
      OBVIOUS
    <3> QED BY <3>1, <3>2, <3>3 DEF IsInjective, Bijection, Injection, Surjection
  <2>3. ExistsBijection(I, UnitsOf(gs, id))
    BY <1>7, <2>2, Zenon DEF ExistsBijection
  <2> QED BY <2>1, <2>3, FS_Bijection
<1>9. ASSUME NEW other, other # id PROVE UnitsOf(gs, other) = UnitsOf(fs, other)
  <2>1. \A m \in DOMAIN fs, i \in Nat :
          (i \in DOMAIN gs[m].content /\ gs[m].content[i] = other)
            <=> (i \in DOMAIN fs[m].content /\ fs[m].content[i] = other)
    <3> SUFFICES ASSUME NEW m \in DOMAIN fs, NEW i \in Nat
                 PROVE  (i \in DOMAIN gs[m].content /\ gs[m].content[i] = other)
                          <=> (i \in DOMAIN fs[m].content /\ fs[m].content[i] = other)
      OBVIOUS
    <3>1. CASE m = n
      BY SMTT(60), <3>1, <1>1, <1>2, <1>4, <1>9
    <3>2. CASE m # n
      BY <3>2, <1>3
    <3> QED BY <3>1, <3>2
  <2> QED BY <2>1, <1>3 DEF UnitsOf
<1> QED
  BY <1>8, <1>9

\* The same contents have the same units.
LEMMA UnitsSame ==
  ASSUME NEW fs, NEW gs, DOMAIN gs = DOMAIN fs,
         \A n \in DOMAIN fs : gs[n].content = fs[n].content, NEW id
  PROVE  UnitsOf(gs, id) = UnitsOf(fs, id)
BY DEF UnitsOf

\* Neither an empty file nor the removal of one without such units changes them.
LEMMA UnitsOpened ==
  ASSUME NEW fs, IsDir(fs), NEW n, NEW id
  PROVE  UnitsOf(Opened(fs, n), id) = UnitsOf(fs, id)
<1>1. PICK gs : gs = Opened(fs, n)
  OBVIOUS
<1>2. DOMAIN gs = DOMAIN fs \cup {n} /\ \A m \in DOMAIN fs : gs[m] = fs[m]
  BY <1>1, OpenedIs
<1>3. n \notin DOMAIN fs => gs[n].content = <<>>
  BY <1>1, OpenedIs
<1>4. \A m \in DOMAIN gs, i \in Nat :
        (i \in DOMAIN gs[m].content /\ gs[m].content[i] = id)
          <=> (m \in DOMAIN fs /\ i \in DOMAIN fs[m].content /\ fs[m].content[i] = id)
  BY <1>2, <1>3
<1>5. UnitsOf(gs, id) = UnitsOf(fs, id)
  BY <1>2, <1>4 DEF UnitsOf
<1> QED
  BY <1>1, <1>5

LEMMA UnitsRemoved ==
  ASSUME NEW fs, IsDir(fs), NEW n \in DOMAIN fs, NEW id, id \notin Ids(fs[n].content)
  PROVE  UnitsOf(Removed(fs, n), id) = UnitsOf(fs, id)
<1>1. \A i \in DOMAIN fs[n].content : fs[n].content[i] # id
  BY DEF Ids
<1>2. PICK gs : gs = Removed(fs, n)
  OBVIOUS
<1>3. DOMAIN gs = DOMAIN fs \ {n} /\ \A m \in DOMAIN gs : gs[m] = fs[m]
  BY <1>2, RemovedIs
<1>4. UnitsOf(gs, id) = UnitsOf(fs, id)
  BY <1>1, <1>3 DEF UnitsOf
<1> QED
  BY <1>2, <1>4

-----------------------------------------------------------------------------
(* The inductive invariant holds.                                          *)

\* All that the limits' assumption says, for limits and sizes taken from the sets.
LEMMA Parameters ==
  /\ \A m \in MaxRots : m \in Nat
  /\ \A s \in Sizes : s \in Nat /\ s # 0
BY AppenderAssumption

LEMMA InitInv == Init => IInv
<1> SUFFICES ASSUME Init PROVE IInv
  OBVIOUS
<1>1. DOMAIN files = {} /\ IsFiniteSet(DOMAIN files) /\ Cardinality(DOMAIN files) = 0
  BY FS_EmptySet DEF Init, NoFiles
<1>2. TypeInv
  <2>1. files \in [DOMAIN files -> FileType]
    BY DEF Init, NoFiles
  <2>2. limits \in Seq(Nat) /\ sent \in Seq(Nat)
    BY DEF Init
  <2> QED BY <1>1, <2>1, <2>2 DEF Init, TypeInv, Name
<1>3. Ascending /\ Separate /\ LastWritten /\ Ahead /\ TargetListed /\ OthersSynced
  BY <1>1 DEF Init, Ascending, Separate, LastWritten, Ahead, TargetListed, OthersSynced
<1>4. WholeThere /\ AckedSynced
  BY DEF Init, WholeThere, AckedSynced
<1>5. RoomLeft
  <2>1. Ids(limits) = {}
    BY DEF Init, Ids
  <2> QED BY <1>1, <2>1 DEF Init, RoomLeft, Room
<1> QED
  BY <1>2, <1>3, <1>4, <1>5 DEF IInv

\* A write behind what the call before it wrote: the marks still ascend, other
\* calls' units are what they were.
WriteStep(x, s) ==
  /\ pc = "idle" /\ pc' \in {"idle", "sync"}
  /\ sent' = Append(sent, x)
  /\ files' = Written(files, target, Units(Len(sent) + 1, s))
  /\ no' = no /\ target' = target

LEMMA WriteKeeps ==
  ASSUME IInv, NEW x \in Nat, NEW s \in Nat, WriteStep(x, s)
  PROVE  /\ IsDir(files') /\ DOMAIN files' = DOMAIN files
         /\ \A n \in DOMAIN files : files'[n].synced <= Len(files'[n].content)
         /\ Ascending' /\ Separate' /\ LastWritten' /\ OthersSynced'
         /\ \A id \in 1 .. Len(sent) : UnitsOf(files', id) = UnitsOf(files, id)
         /\ \A n \in DOMAIN files : files'[n].synced = files[n].synced
         /\ target \in DOMAIN files =>
              LET id == Len(sent) + 1
              IN  IsFiniteSet(UnitsOf(files', id)) /\ Cardinality(UnitsOf(files', id)) = s
         /\ UnitsOf(files', Len(sent) + 1) # {} => target \in DOMAIN files
<1>1. /\ IsDir(files) /\ sent \in Seq(Nat) /\ Len(sent) \in Nat /\ no \in Nat
      /\ Len(sent') = Len(sent) + 1
      /\ \A n \in DOMAIN files : files[n].synced <= Len(files[n].content)
      /\ \A n \in DOMAIN files : \E i \in Nat : n = <<i, 0>>
      /\ target = <<no, 0>> /\ no' = no /\ target' = target
      /\ pc = "idle" /\ pc' # "closed" /\ pc' \notin {"closed", "remove", "create"}
  BY DEF IInv, TypeInv, IsDir, Names, Name, WriteStep
<1>2. /\ IsDir(files') /\ DOMAIN files' = DOMAIN files
      /\ \A n \in DOMAIN files : files'[n].synced = files[n].synced
      /\ \A n \in DOMAIN files \ {target} : files'[n] = files[n]
  <2>1. Len(sent) \in Nat /\ IsDir(files)
    BY <1>1
  <2>2. Len(sent) + 1 \in Nat
    BY <2>1
  <2>3. Units(Len(sent) + 1, s) \in Seq(Nat)
    BY <2>2, UnitsAre
  <2> QED BY <2>1, <2>3, WrittenIs DEF WriteStep
<1>3. \A n \in DOMAIN files :
        /\ files[n].content \in Seq(Nat) /\ files'[n].content \in Seq(Nat)
        /\ files[n].synced \in Nat
  BY <1>1, <1>2 DEF IsDir, FileType
<1>4. ASSUME NEW n \in DOMAIN files
      PROVE  /\ Len(files[n].content) <= Len(files'[n].content)
             /\ \A i \in DOMAIN files[n].content :
                  i \in DOMAIN files'[n].content /\ files'[n].content[i] = files[n].content[i]
             /\ \A i \in DOMAIN files'[n].content :
                  \/ i \in DOMAIN files[n].content /\ files'[n].content[i] = files[n].content[i]
                  \/ /\ n = target /\ i > Len(files[n].content)
                     /\ files'[n].content[i] = Len(sent')
  <2>1. CASE n # target
    BY <2>1, <1>2, <1>3
  <2>2. CASE n = target
    <3>1. PICK new, old : new = Units(Len(sent) + 1, s) /\ old = files[n].content
      OBVIOUS
    <3>2. new \in Seq(Nat) /\ old \in Seq(Nat) /\ \A i \in DOMAIN new : new[i] = Len(sent')
      <4>1. Len(sent) \in Nat /\ Len(sent') = Len(sent) + 1
        BY <1>1
      <4>2. Len(sent) + 1 \in Nat
        BY <4>1
      <4>3. new \in Seq(Nat) /\ \A i \in DOMAIN new : new[i] = Len(sent) + 1
        BY <3>1, <4>2, UnitsAre
      <4>4. old \in Seq(Nat)
        BY <1>3, <3>1
      <4> QED BY <4>1, <4>3, <4>4
    <3>3. files'[n].content = old \o new
      <4>1. files' = Written(files, n, new)
        BY <2>2, <3>1 DEF WriteStep
      <4>2. IsDir(files) /\ n \in DOMAIN files /\ new \in Seq(Nat)
        BY <1>1, <3>2
      <4>3. Written(files, n, new)[n].content = files[n].content \o new
        BY SMTT(60), <4>2, WrittenIs
      <4> QED BY <3>1, <4>1, <4>3
    <3>4. /\ Len(old) <= Len(old \o new)
          /\ \A i \in DOMAIN old : i \in DOMAIN (old \o new) /\ (old \o new)[i] = old[i]
          /\ \A i \in DOMAIN (old \o new) :
               \/ i \in DOMAIN old
               \/ i > Len(old) /\ (old \o new)[i] = Len(sent')
      <4>1. \A i \in DOMAIN (old \o new) :
              \/ i \in DOMAIN old
              \/ i > Len(old) /\ i - Len(old) \in DOMAIN new
                 /\ (old \o new)[i] = new[i - Len(old)]
        BY <3>2
      <4>2. /\ Len(old) <= Len(old \o new)
            /\ \A i \in DOMAIN old : i \in DOMAIN (old \o new) /\ (old \o new)[i] = old[i]
        BY <3>2
      <4> QED BY <3>2, <4>1, <4>2
    <3> QED BY ZenonT(60), SMTT(60), <2>2, <3>1, <3>3, <3>4
  <2> QED BY <2>1, <2>2
<1>5. ASSUME NEW n \in DOMAIN files PROVE files'[n].synced <= Len(files'[n].content)
  <2>1. Len(files[n].content) \in Nat /\ Len(files'[n].content) \in Nat
    BY <1>3
  <2> QED BY SMTT(60), <1>1, <1>2, <1>3, <1>4, <2>1
<1>6. Ascending'
  <2> SUFFICES ASSUME NEW n \in DOMAIN files
               PROVE  /\ \A i \in DOMAIN files'[n].content :
                           files'[n].content[i] \in 1 .. Len(sent')
                      /\ \A i, j \in DOMAIN files'[n].content :
                           i < j => files'[n].content[i] <= files'[n].content[j]
    BY <1>2 DEF Ascending
  <2>1. /\ \A i \in DOMAIN files[n].content : files[n].content[i] \in 1 .. Len(sent)
        /\ \A i, j \in DOMAIN files[n].content :
             i < j => files[n].content[i] <= files[n].content[j]
    BY DEF IInv, Ascending
  <2>2. DOMAIN files[n].content = 1 .. Len(files[n].content)
        /\ DOMAIN files'[n].content \subseteq Nat
    BY <1>3
  <2>3. \A i \in DOMAIN files'[n].content : files'[n].content[i] \in 1 .. Len(sent')
    BY SMTT(60), <1>1, <1>4, <2>1
  <2>4. ASSUME NEW i \in DOMAIN files'[n].content, NEW j \in DOMAIN files'[n].content, i < j
        PROVE  files'[n].content[i] <= files'[n].content[j]
    <3>1. Len(files[n].content) \in Nat /\ i \in Nat /\ j \in Nat
      BY <1>3, <2>2
    <3>2. CASE j \in DOMAIN files[n].content
      <4>1. i \in DOMAIN files[n].content
        BY SMTT(60), <1>4, <2>2, <2>4, <3>1, <3>2
      <4> QED BY <1>4, <2>1, <2>4, <3>2, <4>1
    <3>3. CASE j \notin DOMAIN files[n].content
      <4>1. files'[n].content[j] = Len(sent')
        BY <1>4, <3>3
      <4> QED BY <1>1, <2>3, <4>1
    <3> QED BY <3>2, <3>3
  <2> QED BY <2>3, <2>4
<1>7. Separate'
  <2> SUFFICES ASSUME NEW m \in DOMAIN files, NEW n \in DOMAIN files, m[1] < n[1],
                      NEW i \in DOMAIN files'[m].content, NEW j \in DOMAIN files'[n].content
               PROVE  files'[m].content[i] <= files'[n].content[j]
    BY <1>2 DEF Separate
  <2>1. CASE m = target
    <3>1. n[1] = no + 1 /\ files[n].content = <<>>
      BY <1>1, <2>1 DEF IInv, LastWritten
    <3> QED BY <1>1, <1>2, <2>1, <3>1
  <2>2. CASE m # target
    <3>1. i \in DOMAIN files[m].content /\ files'[m].content[i] = files[m].content[i]
      BY <2>2, <1>4
    <3>2. files[m].content[i] \in 1 .. Len(sent)
      BY <3>1 DEF IInv, Ascending
    <3>3. \/ j \in DOMAIN files[n].content /\ files'[n].content[j] = files[n].content[j]
          \/ files'[n].content[j] = Len(sent')
      BY <1>4
    <3> QED BY SMTT(60), <1>1, <3>1, <3>2, <3>3 DEF IInv, Separate
  <2> QED BY <2>1, <2>2
<1>8. LastWritten'
  <2> SUFFICES ASSUME NEW n \in DOMAIN files, n[1] > no
               PROVE  n[1] = no + 1 /\ files'[n].content = <<>>
    BY <1>1, <1>2 DEF LastWritten
  <2>1. n # target
    BY <1>1
  <2> QED BY <1>1, <1>2, <2>1 DEF IInv, LastWritten
<1>9. OthersSynced'
  BY <1>1, <1>2 DEF IInv, OthersSynced
<1>10. UnitsOf(files, Len(sent) + 1) = {}
  BY <1>1 DEF IInv, Ascending, UnitsOf
<1>11. CASE target \in DOMAIN files
  <2>1. Len(sent) + 1 \in Nat /\ \A id \in 1 .. Len(sent) : id # Len(sent) + 1
    BY <1>1
  <2>2. files' = Written(files, target, Units(Len(sent) + 1, s))
    BY DEF WriteStep
  <2>4. IsDir(files)
    BY <1>1
  <2>3. /\ IsFiniteSet(UnitsOf(files', Len(sent) + 1))
        /\ Cardinality(UnitsOf(files', Len(sent) + 1)) = s
        /\ \A other : other # Len(sent) + 1 => UnitsOf(files', other) = UnitsOf(files, other)
    BY <1>10, <1>11, <2>1, <2>2, <2>4, UnitsWritten
  <2> QED BY <1>2, <1>5, <1>6, <1>7, <1>8, <1>9, <1>11, <2>1, <2>3
<1>12. CASE target \notin DOMAIN files
  <2>1. files' = files
    BY <1>12 DEF Written, WriteStep
  <2> QED BY <1>1, <1>2, <1>5, <1>6, <1>7, <1>8, <1>9, <1>10, <1>12, <2>1
<1> QED
  BY <1>11, <1>12

\* What the invariant says of types, in a form that provers use readily.
LEMMA Basics ==
  ASSUME IInv
  PROVE  /\ IsDir(files) /\ IsFiniteSet(DOMAIN files)
         /\ \A n \in DOMAIN files : \E i \in Nat : n = <<i, 0>>
         /\ \A n \in DOMAIN files : /\ files[n].synced \in Nat
                                    /\ files[n].content \in Seq(Nat)
                                    /\ Len(files[n].content) \in Nat
                                    /\ files[n].synced <= Len(files[n].content)
         /\ no \in Nat /\ target = <<no, 0>> /\ esize \in Nat /\ max_rot \in Nat
         /\ limits \in Seq(Nat) /\ sent \in Seq(Nat) /\ Len(sent) \in Nat /\ risky \in BOOLEAN
         /\ acked \subseteq whole /\ whole \subseteq 1 .. Len(sent)
         /\ pc \in {"closed", "idle", "sync", "remove", "create"}
BY DEF IInv, TypeInv, IsDir, Names, Name, FileType

LEMMA AppendPayloadInv ==
  ASSUME IInv, NEW s \in Sizes, NEW rotatable \in BOOLEAN, AppendPayload(s, rotatable)
  PROVE  IInv'
<1>1. s \in Nat
  BY Parameters
<1>2. /\ pc = "idle" /\ sent' = Append(sent, s)
      /\ files' = Written(files, target, Units(Len(sent'), s))
      /\ whole' = whole \cup {Len(sent')} /\ esize' = esize + s
      /\ pc' \in {"idle", "sync"}
      /\ no' = no /\ target' = target /\ max_rot' = max_rot /\ limits' = limits
      /\ acked' = acked /\ gone' = gone /\ risky' = risky
  BY DEF AppendPayload
<1>3. sent' \in Seq(Nat) /\ Len(sent') = Len(sent) + 1
      /\ sent'[Len(sent) + 1] = s /\ \A i \in 1 .. Len(sent) : sent'[i] = sent[i]
  BY <1>1, <1>2, Basics
<1>4. WriteStep(s, s)
  BY <1>2, <1>3 DEF WriteStep
<1>5. /\ IsDir(files') /\ DOMAIN files' = DOMAIN files
      /\ \A n \in DOMAIN files : files'[n].synced <= Len(files'[n].content)
      /\ Ascending' /\ Separate' /\ LastWritten' /\ OthersSynced'
      /\ \A id \in 1 .. Len(sent) : UnitsOf(files', id) = UnitsOf(files, id)
      /\ \A n \in DOMAIN files : files'[n].synced = files[n].synced
      /\ target \in DOMAIN files =>
           /\ IsFiniteSet(UnitsOf(files', Len(sent) + 1))
           /\ Cardinality(UnitsOf(files', Len(sent) + 1)) = s
  BY <1>1, <1>4, WriteKeeps
<1>6. TypeInv'
  <2>1. acked' \subseteq whole' /\ whole' \subseteq 1 .. Len(sent')
    BY <1>2, <1>3, Basics
  <2>2. esize' \in Nat
    BY <1>1, <1>2, Basics
  <2> QED BY <1>2, <1>3, <1>5, <2>1, <2>2, Basics DEF TypeInv, IsDir, Names, Name
<1>7. Ahead' /\ TargetListed'
  BY <1>2, <1>5 DEF IInv, Ahead, TargetListed
<1>8. WholeThere'
  <2> SUFFICES ASSUME ~risky, NEW id \in whole' \ gone
               PROVE  /\ IsFiniteSet(UnitsOf(files', id))
                      /\ Cardinality(UnitsOf(files', id)) = sent'[id]
    BY <1>2 DEF WholeThere
  <2>1. CASE id \in whole
    <3>1. id \in 1 .. Len(sent)
      BY <2>1, Basics
    <3> QED BY <1>3, <1>5, <2>1, <3>1 DEF IInv, WholeThere
  <2>2. CASE id \notin whole
    <3>1. id = Len(sent) + 1
      BY <2>2, <1>2, <1>3
    <3>2. target \in DOMAIN files
      BY <1>2 DEF IInv, TargetListed
    <3> QED BY <1>3, <1>5, <3>1, <3>2
  <2> QED BY <2>1, <2>2
<1>9. AckedSynced'
  <2>1. acked \subseteq 1 .. Len(sent)
    BY Basics
  <2>2. \A id \in acked : UnitsOf(files', id) = UnitsOf(files, id)
    BY <1>5, <2>1
  <2>3. \A id \in acked : \A u \in UnitsOf(files, id) : u[1] \in DOMAIN files
    BY DEF UnitsOf
  <2> QED BY <1>2, <1>5, <2>2, <2>3 DEF IInv, AckedSynced
<1>10. RoomLeft'
  BY <1>2, <1>5 DEF IInv, RoomLeft, Room
<1> QED
  BY <1>5, <1>6, <1>7, <1>8, <1>9, <1>10 DEF IInv

LEMMA AppendCutInv ==
  ASSUME IInv, NEW s \in Sizes, AppendCut(s)
  PROVE  IInv'
<1>1. s \in Nat
  BY Parameters
<1>2. PICK k \in 0 .. s - 1 : files' = Written(files, target, Units(Len(sent'), k))
  BY DEF AppendCut
<1>3. /\ pc = "idle" /\ sent' = Append(sent, s)
      /\ whole' = whole /\ esize' = esize /\ pc' = pc
      /\ no' = no /\ target' = target /\ max_rot' = max_rot /\ limits' = limits
      /\ acked' = acked /\ gone' = gone /\ risky' = risky
  BY DEF AppendCut, call
<1>4. sent' \in Seq(Nat) /\ Len(sent') = Len(sent) + 1
      /\ \A i \in 1 .. Len(sent) : sent'[i] = sent[i]
  BY <1>1, <1>3, Basics
<1>5. k \in Nat /\ WriteStep(s, k)
  BY <1>1, <1>2, <1>3, <1>4 DEF WriteStep
<1>6. /\ IsDir(files') /\ DOMAIN files' = DOMAIN files
      /\ \A n \in DOMAIN files : files'[n].synced <= Len(files'[n].content)
      /\ Ascending' /\ Separate' /\ LastWritten' /\ OthersSynced'
      /\ \A id \in 1 .. Len(sent) : UnitsOf(files', id) = UnitsOf(files, id)
      /\ \A n \in DOMAIN files : files'[n].synced = files[n].synced
  BY <1>1, <1>5, WriteKeeps
<1>7. whole \subseteq 1 .. Len(sent) /\ acked \subseteq 1 .. Len(sent)
  BY Basics
<1>8. TypeInv'
  <2>1. acked' \subseteq whole' /\ whole' \subseteq 1 .. Len(sent')
    BY <1>3, <1>4, Basics
  <2> QED BY <1>3, <1>4, <1>6, <2>1, Basics DEF TypeInv, IsDir, Names, Name
<1>9. Ahead' /\ TargetListed'
  BY <1>3, <1>6 DEF IInv, Ahead, TargetListed
<1>10. WholeThere'
  BY <1>3, <1>4, <1>6, <1>7 DEF IInv, WholeThere
<1>11. AckedSynced'
  <2>1. \A id \in acked : UnitsOf(files', id) = UnitsOf(files, id)
    BY <1>6, <1>7
  <2>2. \A id \in acked : \A u \in UnitsOf(files, id) : u[1] \in DOMAIN files
    BY DEF UnitsOf
  <2> QED BY <1>3, <1>6, <2>1, <2>2 DEF IInv, AckedSynced
<1>12. RoomLeft'
  BY <1>3, <1>6 DEF IInv, RoomLeft, Room
<1> QED
  BY <1>6, <1>8, <1>9, <1>10, <1>11, <1>12 DEF IInv

\* What only depends on the contents.
LEMMA ContentsKeep ==
  ASSUME IInv, DOMAIN files' = DOMAIN files,
         \A n \in DOMAIN files : files'[n].content = files[n].content,
         sent' = sent, no' = no, pc # "closed" \/ pc' = "closed"
  PROVE  /\ Ascending' /\ Separate' /\ LastWritten'
         /\ \A id : UnitsOf(files', id) = UnitsOf(files, id)
<1>1. Ascending' /\ Separate' /\ LastWritten'
  BY DEF IInv, Ascending, Separate, LastWritten
<1>2. \A id : UnitsOf(files', id) = UnitsOf(files, id)
  BY UnitsSame
<1> QED
  BY <1>1, <1>2

\* The writer is flushed and synced, or there is no name to look it up by.
LEMMA SyncKeeps ==
  ASSUME IInv, files' = Synced(files, target), sent' = sent, no' = no, pc # "closed"
  PROVE  /\ IsDir(files') /\ DOMAIN files' = DOMAIN files
         /\ \A n \in DOMAIN files : files'[n].synced <= Len(files'[n].content)
         /\ \A n \in DOMAIN files : files[n].synced <= files'[n].synced
         /\ \A n \in DOMAIN files : files'[n].synced = Len(files'[n].content)
         /\ Ascending' /\ Separate' /\ LastWritten'
         /\ \A id : UnitsOf(files', id) = UnitsOf(files, id)
<1>1. /\ IsDir(files') /\ DOMAIN files' = DOMAIN files
      /\ \A n \in DOMAIN files : files'[n].content = files[n].content
      /\ \A n \in DOMAIN files \ {target} : files'[n] = files[n]
      /\ target \in DOMAIN files => files'[target].synced = Len(files[target].content)
  BY SMTT(60), ZenonT(60), Basics, SyncedIs
<1>2. \A n \in DOMAIN files : files'[n].synced = Len(files'[n].content)
  BY <1>1 DEF IInv, OthersSynced
<1>3. \A n \in DOMAIN files : /\ files[n].synced <= files'[n].synced
                              /\ files'[n].synced <= Len(files'[n].content)
  BY <1>1, <1>2, Basics
<1> QED
  BY <1>1, <1>2, <1>3, ContentsKeep

\* A payload whose units are all in synced files is synced.
LEMMA AllSynced ==
  ASSUME NEW fs, IsDir(fs), \A n \in DOMAIN fs : fs[n].synced = Len(fs[n].content),
         NEW id, NEW u \in UnitsOf(fs, id)
  PROVE  u[2] <= fs[u[1]].synced
<1>1. u[1] \in DOMAIN fs /\ u[2] \in DOMAIN fs[u[1]].content
  BY DEF UnitsOf
<1>2. fs[u[1]].content \in Seq(Nat)
  BY <1>1 DEF IsDir, FileType
<1> QED
  BY <1>1, <1>2

LEMMA SyncFullInv == ASSUME IInv, SyncFull PROVE IInv'
<1>1. /\ pc = "sync" /\ pc' = "remove" /\ files' = Synced(files, target)
      /\ no' = no /\ target' = target /\ esize' = esize /\ max_rot' = max_rot
      /\ sent' = sent /\ limits' = limits /\ whole' = whole /\ acked' = acked
      /\ gone' = gone /\ risky' = risky
  BY DEF SyncFull, history
<1>2. /\ IsDir(files') /\ DOMAIN files' = DOMAIN files
      /\ \A n \in DOMAIN files : files'[n].synced <= Len(files'[n].content)
      /\ \A n \in DOMAIN files : files'[n].synced = Len(files'[n].content)
      /\ Ascending' /\ Separate' /\ LastWritten'
      /\ \A id : UnitsOf(files', id) = UnitsOf(files, id)
  BY <1>1, SyncKeeps
<1>3. TypeInv'
  BY <1>1, <1>2, Basics DEF TypeInv, IsDir, Names, Name
<1>4. Ahead' /\ TargetListed' /\ OthersSynced' /\ RoomLeft'
  BY <1>1, <1>2 DEF IInv, Ahead, TargetListed, OthersSynced, RoomLeft, Room
<1>5. WholeThere'
  BY <1>1, <1>2 DEF IInv, WholeThere
<1>6. AckedSynced'
  BY <1>1, <1>2, AllSynced DEF AckedSynced
<1> QED
  BY <1>2, <1>3, <1>4, <1>5, <1>6 DEF IInv

LEMMA FlushInv == ASSUME IInv, Flush PROVE IInv'
<1>1. /\ pc = "idle" /\ pc' = pc /\ files' = Synced(files, target)
      /\ no' = no /\ target' = target /\ esize' = esize /\ max_rot' = max_rot
      /\ sent' = sent /\ limits' = limits /\ whole' = whole /\ acked' = whole
      /\ gone' = gone /\ risky' = risky
  BY DEF Flush, call
<1>2. /\ IsDir(files') /\ DOMAIN files' = DOMAIN files
      /\ \A n \in DOMAIN files : files'[n].synced <= Len(files'[n].content)
      /\ \A n \in DOMAIN files : files'[n].synced = Len(files'[n].content)
      /\ Ascending' /\ Separate' /\ LastWritten'
      /\ \A id : UnitsOf(files', id) = UnitsOf(files, id)
  BY <1>1, SyncKeeps
<1>3. TypeInv'
  BY <1>1, <1>2, Basics DEF TypeInv, IsDir, Names, Name
<1>4. Ahead' /\ TargetListed' /\ OthersSynced' /\ RoomLeft'
  BY <1>1, <1>2 DEF IInv, Ahead, TargetListed, OthersSynced, RoomLeft, Room
<1>5. WholeThere'
  BY <1>1, <1>2 DEF IInv, WholeThere
<1>6. AckedSynced'
  BY <1>1, <1>2, AllSynced DEF AckedSynced
<1> QED
  BY <1>2, <1>3, <1>4, <1>5, <1>6 DEF IInv

\* The oldest rotation goes, and with it the calls that have a part in it.
LEMMA RemoveKeeps ==
  ASSUME IInv, Full, RemoveOldest, sent' = sent, no' = no, pc # "closed"
  PROVE  /\ IsDir(files') /\ IsFiniteSet(DOMAIN files')
         /\ Oldest(files) \in DOMAIN files /\ DOMAIN files' = DOMAIN files \ {Oldest(files)}
         /\ Cardinality(DOMAIN files') = Cardinality(DOMAIN files) - 1
         /\ \A n \in DOMAIN files' : files'[n] = files[n]
         /\ Ascending' /\ Separate' /\ LastWritten'
         /\ gone \subseteq gone'
         /\ \A id : id \notin gone' => UnitsOf(files', id) = UnitsOf(files, id)
         /\ (~risky /\ max_rot # 1) => Oldest(files) # target
<1>1. /\ files' = Removed(files, Oldest(files))
      /\ gone' = gone \cup Ids(files[Oldest(files)].content)
      /\ max_rot # 0 /\ Cardinality(DOMAIN files) >= max_rot
  BY DEF RemoveOldest, Full, AtLimit
<1>2. Cardinality(DOMAIN files) \in Nat /\ DOMAIN files # {}
  <2>1. Cardinality(DOMAIN files) \in Nat
    BY Basics, FS_CardinalityType
  <2>2. Cardinality(DOMAIN files) # 0
    BY <1>1, <2>1, Basics
  <2> QED BY <2>1, <2>2, FS_EmptySet
<1>3. /\ Oldest(files) \in DOMAIN files
      /\ \A m \in DOMAIN files : m # Oldest(files) => Oldest(files)[1] < m[1]
  <2>1. DOMAIN files \subseteq Names
    BY Basics DEF Names, Name
  <2> QED BY <1>2, <2>1, OldestIs
<1>4. /\ IsDir(files') /\ DOMAIN files' = DOMAIN files \ {Oldest(files)}
      /\ \A n \in DOMAIN files' : files'[n] = files[n]
  BY <1>1, Basics, RemovedIs
<1>5. /\ IsFiniteSet(DOMAIN files')
      /\ Cardinality(DOMAIN files') = Cardinality(DOMAIN files) - 1
  BY ZenonT(60), SMTT(60), <1>3, <1>4, Basics, FS_RemoveElement
<1>6. Ascending' /\ Separate' /\ LastWritten'
  <2>1. DOMAIN files' \subseteq DOMAIN files
    BY <1>4
  <2> QED BY <1>4, <2>1 DEF IInv, Ascending, Separate, LastWritten
<1>7. ASSUME NEW id, id \notin gone' PROVE UnitsOf(files', id) = UnitsOf(files, id)
  <2>1. id \notin Ids(files[Oldest(files)].content)
    BY <1>1, <1>7
  <2> QED BY <1>1, <1>3, <2>1, Basics, UnitsRemoved
<1>8. ASSUME ~risky, max_rot # 1, Oldest(files) = target PROVE FALSE
  <2>1. DOMAIN files \subseteq {target, <<no + 1, 0>>}
    <3> SUFFICES ASSUME NEW m \in DOMAIN files, m # target PROVE m = <<no + 1, 0>>
      OBVIOUS
    <3>1. no < m[1]
      BY <1>3, <1>8, Basics
    <3>2. m[1] = no + 1
      BY <3>1, Basics DEF IInv, LastWritten
    <3> QED BY <3>2, Basics
  <2>2. CASE <<no + 1, 0>> \in DOMAIN files
    <3>1. max_rot # 2
      BY <1>8, <2>2, Basics DEF IInv, Ahead, Name
    <3>2. IsFiniteSet({target, <<no + 1, 0>>}) /\ Cardinality({target, <<no + 1, 0>>}) <= 2
      <4>1. {target, <<no + 1, 0>>} = {target} \cup {<<no + 1, 0>>}
        OBVIOUS
      <4>2. IsFiniteSet({target}) /\ Cardinality({target}) = 1
        BY FS_Singleton
      <4>3. /\ IsFiniteSet({target} \cup {<<no + 1, 0>>})
            /\ Cardinality({target} \cup {<<no + 1, 0>>}) \in {1, 2}
        BY <4>2, FS_AddElement
      <4> QED BY <4>1, <4>3
    <3>3. Cardinality(DOMAIN files) <= 2
      BY <1>2, <2>1, <3>2, FS_Subset, FS_CardinalityType
    <3> QED BY <1>1, <1>2, <1>8, <3>1, <3>3, Basics
  <2>3. CASE <<no + 1, 0>> \notin DOMAIN files
    <3>1. DOMAIN files = {target}
      BY <1>2, <2>1, <2>3
    <3>2. Cardinality(DOMAIN files) = 1
      BY <3>1, FS_Singleton
    <3> QED BY <1>1, <1>8, <3>2, Basics
  <2> QED BY <2>2, <2>3
<1> QED
  BY <1>1, <1>3, <1>4, <1>5, <1>6, <1>7, <1>8

\* The next rotation is opened, or was there already, and empty.
LEMMA CreateKeeps ==
  ASSUME IInv, pc = "create", files' = Opened(files, <<no + 1, 0>>), sent' = sent
  PROVE  /\ IsDir(files') /\ IsFiniteSet(DOMAIN files')
         /\ DOMAIN files' = DOMAIN files \cup {<<no + 1, 0>>}
         /\ \A n \in DOMAIN files : files'[n] = files[n]
         /\ files'[<<no + 1, 0>>].content = <<>> /\ files'[<<no + 1, 0>>].synced = 0
         /\ \A n \in DOMAIN files' : files'[n].synced = Len(files'[n].content)
         /\ Ascending' /\ Separate'
         /\ \A id : UnitsOf(files', id) = UnitsOf(files, id)
         /\ \A b \in Nat : Room(b) => Cardinality(DOMAIN files') <= b
<1> DEFINE next == <<no + 1, 0>>
<1>1. /\ IsDir(files') /\ DOMAIN files' = DOMAIN files \cup {next}
      /\ \A n \in DOMAIN files : files'[n] = files[n]
      /\ next \notin DOMAIN files => files'[next].content = <<>> /\ files'[next].synced = 0
  BY ZenonT(60), SMTT(60), Basics, OpenedIs
<1>2. next \in DOMAIN files => files[next].content = <<>> /\ files[next].synced = 0
  <2> SUFFICES ASSUME next \in DOMAIN files
               PROVE  files[next].content = <<>> /\ files[next].synced = 0
    OBVIOUS
  <2>1. next[1] = no + 1 /\ ~(no + 1 <= no)
    BY Basics
  <2>2. files[next].content = <<>>
    BY <2>1 DEF IInv, LastWritten
  <2>3. files[next].synced <= Len(files[next].content) /\ files[next].synced \in Nat
    BY Basics
  <2> QED BY <2>2, <2>3
<1>3. files'[next].content = <<>> /\ files'[next].synced = 0
  BY <1>1, <1>2
<1>4. IsFiniteSet(DOMAIN files')
      /\ Cardinality(DOMAIN files') <= Cardinality(DOMAIN files) + 1
  <2>1. Cardinality(DOMAIN files) \in Nat
    BY Basics, FS_CardinalityType
  <2>2. IsFiniteSet(DOMAIN files)
    BY Basics
  <2>3. /\ IsFiniteSet(DOMAIN files \cup {next})
        /\ Cardinality(DOMAIN files \cup {next}) =
             IF next \in DOMAIN files THEN Cardinality(DOMAIN files)
             ELSE Cardinality(DOMAIN files) + 1
    BY <2>2, FS_AddElement
  <2> QED BY <1>1, <2>1, <2>3
<1> HIDE DEF next
<1>5. \A n \in DOMAIN files' : files'[n].synced = Len(files'[n].content)
  BY <1>1, <1>3 DEF IInv, OthersSynced
<1>6. DOMAIN files'[next].content = {}
  BY <1>3
<1>7. Ascending'
  BY <1>1, <1>6 DEF IInv, Ascending
<1>8. Separate'
  BY <1>1, <1>6 DEF IInv, Separate
<1>9. \A id : UnitsOf(files', id) = UnitsOf(files, id)
  BY Basics, UnitsOpened
<1>10. \A b \in Nat : Room(b) => Cardinality(DOMAIN files') <= b
  <2>1. Cardinality(DOMAIN files) \in Nat /\ Cardinality(DOMAIN files') \in Nat
    BY <1>4, Basics, FS_CardinalityType
  <2> QED BY <1>4, <2>1 DEF Room
<1> QED
  BY <1>1, <1>3, <1>4, <1>5, <1>7, <1>8, <1>9, <1>10 DEF next

\* Limits are numbers.
LEMMA LimitsAreNumbers ==
  ASSUME IInv PROVE Ids(limits) \subseteq Nat
BY Basics DEF Ids

LEMMA MakeRoomInv == ASSUME IInv, MakeRoom PROVE IInv'
<1>1. /\ pc = "remove" /\ pc' = "create"
      /\ no' = no /\ target' = target /\ esize' = esize /\ max_rot' = max_rot
      /\ sent' = sent /\ limits' = limits /\ whole' = whole /\ acked' = acked
      /\ risky' = risky
      /\ IF Full THEN RemoveOldest ELSE files' = files /\ gone' = gone
  BY DEF MakeRoom
<1>2. CASE Full
  <2>1. /\ IsDir(files') /\ IsFiniteSet(DOMAIN files')
        /\ Oldest(files) \in DOMAIN files /\ DOMAIN files' = DOMAIN files \ {Oldest(files)}
        /\ Cardinality(DOMAIN files') = Cardinality(DOMAIN files) - 1
        /\ \A n \in DOMAIN files' : files'[n] = files[n]
        /\ Ascending' /\ Separate' /\ LastWritten'
        /\ gone \subseteq gone'
        /\ \A id : id \notin gone' => UnitsOf(files', id) = UnitsOf(files, id)
        /\ (~risky /\ max_rot # 1) => Oldest(files) # target
    BY <1>1, <1>2, RemoveKeeps
  <2>2. TypeInv'
    BY <1>1, <2>1, Basics DEF TypeInv, IsDir, Names, Name
  <2>3. Ahead' /\ TargetListed' /\ OthersSynced'
    BY <1>1, <2>1 DEF IInv, Ahead, TargetListed, OthersSynced
  <2>4. WholeThere'
    BY <1>1, <2>1 DEF IInv, WholeThere
  <2>5. AckedSynced'
    <3>1. \A id : \A u \in UnitsOf(files', id) : u[1] \in DOMAIN files'
      BY DEF UnitsOf
    <3> QED BY <1>1, <2>1, <3>1 DEF IInv, AckedSynced
  <2>6. RoomLeft'
    <3>1. Cardinality(DOMAIN files) \in Nat
      BY Basics, FS_CardinalityType
    <3> QED BY <1>1, <2>1, <3>1, LimitsAreNumbers DEF IInv, RoomLeft, Room
  <2> QED BY <2>1, <2>2, <2>3, <2>4, <2>5, <2>6 DEF IInv
<1>3. CASE ~Full
  <2>1. files' = files /\ gone' = gone
    BY <1>1, <1>3
  <2>2. TypeInv' /\ Ascending' /\ Separate' /\ LastWritten'
    BY <1>1, <2>1 DEF IInv, TypeInv, Ascending, Separate, LastWritten
  <2>3. Ahead' /\ TargetListed' /\ OthersSynced'
    BY <1>1, <2>1 DEF IInv, Ahead, TargetListed, OthersSynced
  <2>4. WholeThere' /\ AckedSynced'
    BY <1>1, <2>1 DEF IInv, WholeThere, AckedSynced
  <2>5. RoomLeft'
    <3>1. max_rot \in Ids(limits)
      BY <1>1 DEF IInv, RoomLeft
    <3>2. max_rot # 0 => Room(max_rot)'
      <4>1. Cardinality(DOMAIN files) \in Nat
        BY Basics, FS_CardinalityType
      <4> QED BY <1>1, <1>3, <2>1, <4>1, Basics DEF Full, AtLimit, Room
    <3> QED BY <1>1, <3>1, <3>2 DEF RoomLeft
  <2> QED BY <2>2, <2>3, <2>4, <2>5 DEF IInv
<1> QED
  BY <1>2, <1>3

LEMMA CreateInv == ASSUME IInv, Create PROVE IInv'
<1>1. /\ pc = "create" /\ pc' = "idle" /\ files' = Opened(files, <<no + 1, 0>>)
      /\ no' = no + 1 /\ target' = <<no + 1, 0>> /\ esize' = 0 /\ max_rot' = max_rot
      /\ sent' = sent /\ limits' = limits /\ whole' = whole /\ acked' = whole
      /\ gone' = gone /\ risky' = risky
  BY DEF Create
<1>2. /\ IsDir(files') /\ IsFiniteSet(DOMAIN files')
      /\ DOMAIN files' = DOMAIN files \cup {<<no + 1, 0>>}
      /\ \A n \in DOMAIN files : files'[n] = files[n]
      /\ files'[<<no + 1, 0>>].content = <<>>
      /\ \A n \in DOMAIN files' : files'[n].synced = Len(files'[n].content)
      /\ Ascending' /\ Separate'
      /\ \A id : UnitsOf(files', id) = UnitsOf(files, id)
      /\ \A b \in Nat : Room(b) => Cardinality(DOMAIN files') <= b
  BY <1>1, CreateKeeps
<1>3. \A n \in DOMAIN files' : \E i \in Nat : n = <<i, 0>>
  BY <1>2, Basics
<1>4. TypeInv'
  <2>1. \A n \in DOMAIN files' : files'[n].synced <= Len(files'[n].content)
    <3>1. \A n \in DOMAIN files' : files'[n].synced \in Nat
      BY <1>2 DEF IsDir, FileType
    <3> QED BY <1>2, <3>1
  <2>2. no' \in Nat /\ target' = <<no', 0>> /\ esize' \in Nat /\ acked' \subseteq whole'
    BY <1>1, Basics
  <2> QED BY <1>1, <1>2, <1>3, <2>1, <2>2, Basics DEF TypeInv, IsDir, Names, Name
<1>5. \A n \in DOMAIN files : n[1] <= no + 1
  <2>1. \A n \in DOMAIN files : n[1] <= no \/ n[1] = no + 1
    BY <1>1 DEF IInv, LastWritten
  <2>2. no \in Nat /\ \A n \in DOMAIN files : n[1] \in Nat
    BY Basics
  <2> QED BY <2>1, <2>2
<1>6. LastWritten' /\ Ahead' /\ TargetListed' /\ OthersSynced'
  <2>1. \A n \in DOMAIN files' : n[1] <= no'
    BY <1>1, <1>2, <1>5, Basics
  <2>2. Name(no' + 1) \notin DOMAIN files'
    <3>1. ~(no' + 1 <= no') /\ Name(no' + 1)[1] = no' + 1
      BY <1>1, Basics DEF Name
    <3> QED BY <2>1, <3>1
  <2> QED BY <1>1, <1>2, <2>1, <2>2 DEF LastWritten, Ahead, TargetListed, OthersSynced
<1>7. WholeThere'
  BY <1>1, <1>2 DEF IInv, WholeThere
<1>8. AckedSynced'
  BY <1>1, <1>2, AllSynced DEF AckedSynced
<1>9. RoomLeft'
  <2>1. Cardinality(DOMAIN files') \in Nat
    BY <1>2, FS_CardinalityType
  <2>2. \A b \in Nat : Room(b) => Room(b)'
    BY <1>1, <1>2, <2>1 DEF Room
  <2>3. {1} \cup Ids(limits) \subseteq Nat
    BY LimitsAreNumbers
  <2> QED BY <1>1, <2>2, <2>3 DEF IInv, RoomLeft
<1> QED
  BY <1>2, <1>4, <1>6, <1>7, <1>8, <1>9 DEF IInv

LEMMA SwitchCutInv == ASSUME IInv, SwitchCut PROVE IInv'
<1>1. /\ pc \in {"sync", "remove", "create"} /\ pc' = "idle"
      /\ no' = no /\ target' = target /\ esize' = esize /\ max_rot' = max_rot
      /\ sent' = sent /\ limits' = limits /\ whole' = whole /\ acked' = acked
      /\ risky' = (risky \/ max_rot \in {1, 2})
  BY DEF SwitchCut
<1>2. risky' \in BOOLEAN /\ (~risky' => ~risky /\ max_rot # 1)
  BY <1>1, Basics
<1>3. CASE files' = files /\ gone' = gone
  <2>1. TypeInv' /\ Ascending' /\ Separate' /\ LastWritten'
    BY <1>1, <1>2, <1>3 DEF IInv, TypeInv, Ascending, Separate, LastWritten
  <2>2. Ahead' /\ TargetListed' /\ OthersSynced'
    BY <1>1, <1>2, <1>3 DEF IInv, Ahead, TargetListed, OthersSynced
  <2>3. WholeThere' /\ AckedSynced'
    BY <1>1, <1>2, <1>3 DEF IInv, WholeThere, AckedSynced
  <2>4. RoomLeft'
    <3>1. Cardinality(DOMAIN files) \in Nat /\ {1} \cup Ids(limits) \subseteq Nat
      BY Basics, FS_CardinalityType, LimitsAreNumbers
    <3>2. \A b \in Nat : Room(b) => Room(b)'
      BY <1>1, <1>3, <3>1 DEF Room
    <3> QED BY <1>1, <3>1, <3>2 DEF IInv, RoomLeft
  <2> QED BY <2>1, <2>2, <2>3, <2>4 DEF IInv
<1>4. CASE pc = "sync" /\ files' = Synced(files, target) /\ gone' = gone
  <2>1. /\ IsDir(files') /\ DOMAIN files' = DOMAIN files
        /\ \A n \in DOMAIN files : files'[n].synced <= Len(files'[n].content)
        /\ \A n \in DOMAIN files : files'[n].synced = Len(files'[n].content)
        /\ Ascending' /\ Separate' /\ LastWritten'
        /\ \A id : UnitsOf(files', id) = UnitsOf(files, id)
    BY <1>1, <1>4, SyncKeeps
  <2>2. TypeInv'
    BY <1>1, <1>2, <2>1, Basics DEF TypeInv, IsDir, Names, Name
  <2>3. Ahead' /\ TargetListed' /\ OthersSynced' /\ RoomLeft'
    BY <1>1, <1>2, <1>4, <2>1 DEF IInv, Ahead, TargetListed, OthersSynced, RoomLeft, Room
  <2>4. WholeThere'
    BY <1>1, <1>2, <1>4, <2>1 DEF IInv, WholeThere
  <2>5. AckedSynced'
    BY <2>1, AllSynced DEF AckedSynced
  <2> QED BY <2>1, <2>2, <2>3, <2>4, <2>5 DEF IInv
<1>5. CASE pc = "remove" /\ Full /\ RemoveOldest
  <2>1. /\ IsDir(files') /\ IsFiniteSet(DOMAIN files')
        /\ Oldest(files) \in DOMAIN files /\ DOMAIN files' = DOMAIN files \ {Oldest(files)}
        /\ Cardinality(DOMAIN files') = Cardinality(DOMAIN files) - 1
        /\ \A n \in DOMAIN files' : files'[n] = files[n]
        /\ Ascending' /\ Separate' /\ LastWritten'
        /\ gone \subseteq gone'
        /\ \A id : id \notin gone' => UnitsOf(files', id) = UnitsOf(files, id)
        /\ (~risky /\ max_rot # 1) => Oldest(files) # target
    BY <1>1, <1>5, RemoveKeeps
  <2>2. TypeInv'
    BY <1>1, <1>2, <2>1, Basics DEF TypeInv, IsDir, Names, Name
  <2>3. Ahead' /\ TargetListed' /\ OthersSynced'
    BY <1>1, <1>2, <1>5, <2>1 DEF IInv, Ahead, TargetListed, OthersSynced
  <2>4. WholeThere'
    BY <1>1, <1>2, <2>1 DEF IInv, WholeThere
  <2>5. AckedSynced'
    <3>1. \A id : \A u \in UnitsOf(files', id) : u[1] \in DOMAIN files'
      BY DEF UnitsOf
    <3> QED BY <1>1, <2>1, <3>1 DEF IInv, AckedSynced
  <2>6. RoomLeft'
    <3>1. Cardinality(DOMAIN files) \in Nat /\ {1} \cup Ids(limits) \subseteq Nat
      BY Basics, FS_CardinalityType, LimitsAreNumbers
    <3>2. \A b \in Nat : Room(b) => Room(b)'
      BY <1>1, <1>5, <2>1, <3>1 DEF Room
    <3> QED BY <1>1, <3>1, <3>2 DEF IInv, RoomLeft
  <2> QED BY <2>1, <2>2, <2>3, <2>4, <2>5, <2>6 DEF IInv
<1>6. CASE pc = "create" /\ files' = Opened(files, <<no + 1, 0>>) /\ gone' = gone
  <2>1. /\ IsDir(files') /\ IsFiniteSet(DOMAIN files')
        /\ DOMAIN files' = DOMAIN files \cup {<<no + 1, 0>>}
        /\ \A n \in DOMAIN files : files'[n] = files[n]
        /\ files'[<<no + 1, 0>>].content = <<>>
        /\ \A n \in DOMAIN files' : files'[n].synced = Len(files'[n].content)
        /\ Ascending' /\ Separate'
        /\ \A id : UnitsOf(files', id) = UnitsOf(files, id)
        /\ \A b \in Nat : Room(b) => Cardinality(DOMAIN files') <= b
    BY <1>1, <1>6, CreateKeeps
  <2>2. TypeInv'
    <3>1. \A n \in DOMAIN files' : files'[n].synced \in Nat
      BY <2>1 DEF IsDir, FileType
    <3>2. \A n \in DOMAIN files' : files'[n].synced <= Len(files'[n].content)
      BY <2>1, <3>1
    <3>3. \A n \in DOMAIN files' : \E i \in Nat : n = <<i, 0>>
      BY <2>1, Basics
    <3> QED BY <1>1, <1>2, <2>1, <3>2, <3>3, Basics DEF TypeInv, IsDir, Names, Name
  <2>3. LastWritten'
    BY SMTT(60), <1>1, <2>1, Basics DEF IInv, LastWritten
  <2>4. Ahead' /\ TargetListed' /\ OthersSynced'
    BY <1>1, <1>2, <1>6, <2>1 DEF IInv, Ahead, TargetListed, OthersSynced
  <2>5. WholeThere'
    BY <1>1, <1>2, <1>6, <2>1 DEF IInv, WholeThere
  <2>6. AckedSynced'
    BY <2>1, AllSynced DEF AckedSynced
  <2>7. RoomLeft'
    <3>1. Cardinality(DOMAIN files') \in Nat /\ {1} \cup Ids(limits) \subseteq Nat
      BY <2>1, FS_CardinalityType, LimitsAreNumbers
    <3>2. \A b \in Nat : Room(b) => Room(b)'
      <4>1. \A b \in Nat : Room(b)' <=> Cardinality(DOMAIN files') <= b
        BY <1>1, <3>1 DEF Room
      <4> QED BY <2>1, <4>1
    <3> QED BY <1>1, <3>1, <3>2 DEF IInv, RoomLeft
  <2> QED BY <2>1, <2>2, <2>3, <2>4, <2>5, <2>6, <2>7 DEF IInv
<1> QED
  BY <1>3, <1>4, <1>5, <1>6 DEF SwitchCut

LEMMA OpenInv == ASSUME IInv, NEW m \in MaxRots, Open(m) PROVE IInv'
<1> DEFINE name == <<LatestNo(files), 0>>
<1>1. /\ pc = "closed" /\ pc' = "idle" /\ no' = name[1] /\ target' = name
      /\ files' = Opened(files, name) /\ esize' = Len(files'[name].content)
      /\ max_rot' = m /\ limits' = Append(limits, m)
      /\ sent' = sent /\ whole' = whole /\ acked' = acked /\ gone' = gone /\ risky' = risky
  BY DEF Open
<1>2. /\ LatestNo(files) \in Nat
      /\ \A n \in DOMAIN files : n[1] <= LatestNo(files)
      /\ DOMAIN files # {} => name \in DOMAIN files
  <2>1. CASE files = NoFiles
    BY <2>1 DEF NoFiles, LatestNo
  <2>2. CASE files # NoFiles
    <3>1. DOMAIN files # {}
      <4>1. files \in [DOMAIN files -> FileType]
        BY Basics DEF IsDir
      <4> QED BY <2>2, <4>1 DEF NoFiles
    <3>2. /\ Latest(files) \in DOMAIN files
          /\ \A n \in DOMAIN files : n # Latest(files) => n[1] < Latest(files)[1]
      <4>1. DOMAIN files \subseteq Names /\ IsFiniteSet(DOMAIN files)
        BY Basics DEF Names, Name
      <4> QED BY <3>1, <4>1, LatestIs
    <3>3. Latest(files)[1] \in Nat /\ Latest(files) = <<Latest(files)[1], 0>>
          /\ \A n \in DOMAIN files : n[1] \in Nat
      BY <3>2, Basics
    <3> QED BY <2>2, <3>2, <3>3 DEF LatestNo
  <2> QED BY <2>1, <2>2
<1>3. /\ IsDir(files') /\ DOMAIN files' = DOMAIN files \cup {name}
      /\ \A n \in DOMAIN files : files'[n] = files[n]
      /\ name \notin DOMAIN files => files'[name].content = <<>> /\ files'[name].synced = 0
  BY ZenonT(60), SMTT(60), <1>1, Basics, OpenedIs
<1>4. no' = LatestNo(files) /\ name = Name(no')
  BY <1>1 DEF Name
<1>5. \A id : UnitsOf(files', id) = UnitsOf(files, id)
  BY <1>1, Basics, UnitsOpened
<1>6. m \in Nat /\ limits' \in Seq(Nat) /\ Ids(limits') = Ids(limits) \cup {m}
  <2>1. m \in Nat
    BY Parameters
  <2>2. limits' \in Seq(Nat) /\ Len(limits') = Len(limits) + 1 /\ Len(limits) \in Nat
        /\ limits'[Len(limits) + 1] = m
        /\ \A i \in 1 .. Len(limits) : limits'[i] = limits[i]
    BY <1>1, <2>1, Basics
  <2>3. DOMAIN limits = 1 .. Len(limits) /\ DOMAIN limits' = 1 .. Len(limits) + 1
    BY <2>2, Basics
  <2>4. ASSUME NEW x \in Ids(limits') PROVE x \in Ids(limits) \cup {m}
    <3>1. PICK i \in 1 .. Len(limits) + 1 : x = limits'[i]
      BY <2>3, <2>4 DEF Ids
    <3>2. i \in 1 .. Len(limits) \/ i = Len(limits) + 1
      BY <2>2
    <3> QED BY <2>2, <2>3, <3>1, <3>2 DEF Ids
  <2>5. ASSUME NEW x \in Ids(limits) PROVE x \in Ids(limits')
    <3>1. PICK i \in 1 .. Len(limits) : x = limits[i]
      BY <2>3, <2>5 DEF Ids
    <3>2. i \in 1 .. Len(limits) + 1 /\ x = limits'[i]
      BY <2>2, <3>1
    <3> QED BY <2>3, <3>2 DEF Ids
  <2>6. m \in Ids(limits')
    <3>1. Len(limits) + 1 \in 1 .. Len(limits) + 1
      BY <2>2
    <3> QED BY <2>2, <2>3, <3>1 DEF Ids
  <2> QED BY <2>1, <2>2, <2>4, <2>5, <2>6
<1>7. IsFiniteSet(DOMAIN files')
  BY ZenonT(60), SMTT(60), <1>3, Basics, FS_AddElement
<1> HIDE DEF name
<1>8. \A n \in DOMAIN files' : files'[n].synced = Len(files'[n].content)
  BY <1>1, <1>3 DEF IInv, OthersSynced
<1>9. \A n \in DOMAIN files' : files'[n].synced \in Nat /\ files'[n].content \in Seq(Nat)
  BY <1>3 DEF IsDir, FileType
<1>10. TypeInv'
  <2>1. \A n \in DOMAIN files' : n \in Names
    BY <1>2, <1>3, <1>4, Basics DEF Names, Name
  <2>2. \A n \in DOMAIN files' : files'[n].synced <= Len(files'[n].content)
    BY <1>8, <1>9
  <2>3. esize' \in Nat
    BY <1>1, <1>3, <1>8, <1>9
  <2>4. no' \in Nat /\ target' = Name(no') /\ max_rot' \in Nat
    BY <1>1, <1>2, <1>4, <1>6
  <2> QED BY <1>1, <1>3, <1>6, <1>7, <2>1, <2>2, <2>3, <2>4, Basics DEF TypeInv, IsDir
<1>11. name \notin DOMAIN files => DOMAIN files'[name].content = {}
  BY <1>3
<1>12. Ascending' /\ Separate'
  <2>1. Ascending'
    BY <1>1, <1>3, <1>11 DEF IInv, Ascending
  <2>2. Separate'
    BY <1>1, <1>3, <1>11 DEF IInv, Separate
  <2> QED BY <2>1, <2>2
<1>13. LastWritten' /\ Ahead' /\ TargetListed' /\ OthersSynced'
  <2>1. \A n \in DOMAIN files' : n[1] <= no'
    BY <1>2, <1>3, <1>4 DEF Name
  <2>2. Name(no' + 1) \notin DOMAIN files'
    <3>1. ~(no' + 1 <= no') /\ Name(no' + 1)[1] = no' + 1
      BY <1>2, <1>4 DEF Name
    <3> QED BY <2>1, <3>1
  <2> QED BY <1>1, <1>3, <1>8, <2>1, <2>2
          DEF LastWritten, Ahead, TargetListed, OthersSynced
<1>14. WholeThere'
  BY <1>1, <1>5 DEF IInv, WholeThere
<1>15. AckedSynced'
  BY <1>3, <1>8, AllSynced DEF AckedSynced
<1>16. RoomLeft'
  <2>1. Cardinality(DOMAIN files) \in Nat /\ {1} \cup Ids(limits) \subseteq Nat
    BY Basics, FS_CardinalityType, LimitsAreNumbers
  <2>2. CASE DOMAIN files = {}
    <3>1. Cardinality(DOMAIN files') = 1
      <4>1. DOMAIN files' = {name}
        BY <1>3, <2>2
      <4> QED BY <4>1, FS_Singleton
    <3>2. Room(1)'
      BY <1>1, <3>1 DEF Room
    <3> QED BY <1>1, <1>6, <3>2 DEF RoomLeft
  <2>3. CASE DOMAIN files # {}
    <3>1. DOMAIN files' = DOMAIN files
      BY <1>2, <1>3, <2>3 DEF name
    <3>2. \A b \in Nat : Room(b) => Room(b)'
      BY <1>1, <2>1, <3>1 DEF Room
    <3> QED BY <1>1, <1>6, <2>1, <3>2 DEF IInv, RoomLeft
  <2> QED BY <2>2, <2>3
<1> QED
  BY <1>10, <1>12, <1>13, <1>14, <1>15, <1>16 DEF IInv

LEMMA CrashInv == ASSUME IInv, Crash PROVE IInv'
<1>1. /\ pc # "closed" /\ pc' = "closed" /\ files' \in Surviving(files)
      /\ no' = 0 /\ target' = <<0, 0>> /\ esize' = 0 /\ max_rot' = 0
      /\ whole' = acked /\ sent' = sent /\ limits' = limits /\ acked' = acked
      /\ gone' = gone /\ risky' = risky
  BY DEF Crash
<1>2. /\ IsDir(files') /\ DOMAIN files' = DOMAIN files
      /\ \A n \in DOMAIN files :
           \E k \in Nat : /\ files[n].synced <= k /\ k <= Len(files[n].content)
                          /\ files'[n].content = SubSeq(files[n].content, 1, k)
                          /\ Len(files'[n].content) = k
                          /\ files'[n].synced = k
  <2>1. IsDir(files) /\ \A n \in DOMAIN files : files[n].synced <= Len(files[n].content)
    BY Basics
  <2>2. files' \in Surviving(files)
    BY <1>1
  <2> QED BY <2>1, <2>2, SurvivingIs
<1>3. ASSUME NEW n \in DOMAIN files
      PROVE  /\ files'[n].synced = Len(files'[n].content) /\ files'[n].synced \in Nat
             /\ \A i \in DOMAIN files'[n].content :
                  i \in DOMAIN files[n].content /\ files'[n].content[i] = files[n].content[i]
             /\ \A i \in DOMAIN files[n].content :
                  i <= files[n].synced => i \in DOMAIN files'[n].content
  <2>1. PICK k \in Nat : /\ files[n].synced <= k /\ k <= Len(files[n].content)
                         /\ files'[n].content = SubSeq(files[n].content, 1, k)
                         /\ Len(files'[n].content) = k
                         /\ files'[n].synced = k
    BY <1>2
  <2>2. PICK c : c = files[n].content
    OBVIOUS
  <2>3. c \in Seq(Nat) /\ k <= Len(c) /\ files[n].synced \in Nat
    BY <2>1, <2>2, Basics
  <2>4. /\ DOMAIN SubSeq(c, 1, k) = 1 .. k /\ DOMAIN c = 1 .. Len(c)
        /\ \A i \in 1 .. k : SubSeq(c, 1, k)[i] = c[i]
    BY <2>3
  <2>5. 1 .. k \subseteq 1 .. Len(c) /\ \A i \in 1 .. Len(c) : i <= files[n].synced => i \in 1 .. k
    BY <2>1, <2>3
  <2> QED BY <2>1, <2>2, <2>4, <2>5
<1>4. TypeInv'
  <2>1. \A n \in DOMAIN files' : files'[n].synced <= Len(files'[n].content)
    BY <1>2, <1>3
  <2>2. acked \subseteq 1 .. Len(sent)
    BY Basics
  <2> QED BY <1>1, <1>2, <2>1, <2>2, Basics DEF TypeInv, IsDir, Names, Name
<1>5. Ascending' /\ Separate'
  <2>1. Ascending'
    BY ZenonT(60), SMTT(60), <1>1, <1>2, <1>3 DEF IInv, Ascending
  <2>2. Separate'
    <3> SUFFICES ASSUME NEW m \in DOMAIN files, NEW n \in DOMAIN files, m[1] < n[1],
                        NEW i \in DOMAIN files'[m].content,
                        NEW j \in DOMAIN files'[n].content
                 PROVE  files'[m].content[i] <= files'[n].content[j]
      BY <1>2 DEF Separate
    <3>1. i \in DOMAIN files[m].content /\ files'[m].content[i] = files[m].content[i]
      BY <1>3
    <3>2. j \in DOMAIN files[n].content /\ files'[n].content[j] = files[n].content[j]
      BY <1>3
    <3> QED BY <3>1, <3>2 DEF IInv, Separate
  <2> QED BY <2>1, <2>2
<1>6. LastWritten' /\ Ahead' /\ TargetListed'
  BY <1>1 DEF LastWritten, Ahead, TargetListed
<1>7. OthersSynced'
  BY <1>2, <1>3 DEF OthersSynced
<1>8. ASSUME NEW id \in acked \ gone PROVE UnitsOf(files', id) = UnitsOf(files, id)
  <2>1. \A n \in DOMAIN files, i \in Nat :
          (i \in DOMAIN files[n].content /\ files[n].content[i] = id) => i <= files[n].synced
    <3> SUFFICES ASSUME NEW n \in DOMAIN files, NEW i \in Nat, i \in DOMAIN files[n].content,
                        files[n].content[i] = id
                 PROVE  i <= files[n].synced
      OBVIOUS
    <3>1. <<n, i>> \in UnitsOf(files, id)
      BY DEF UnitsOf
    <3> QED BY <3>1 DEF IInv, AckedSynced
  <2>2. \A n \in DOMAIN files, i \in Nat :
          (i \in DOMAIN files'[n].content /\ files'[n].content[i] = id)
            <=> (i \in DOMAIN files[n].content /\ files[n].content[i] = id)
    BY <1>3, <2>1
  <2> QED BY <1>2, <2>2 DEF UnitsOf
<1>9. WholeThere'
  <2>1. acked \subseteq whole
    BY Basics
  <2> QED BY <1>1, <1>8, <2>1 DEF IInv, WholeThere
<1>10. AckedSynced'
  BY <1>2, <1>3, AllSynced DEF AckedSynced
<1>11. RoomLeft'
  <2>1. Cardinality(DOMAIN files) \in Nat /\ {1} \cup Ids(limits) \subseteq Nat
    BY Basics, FS_CardinalityType, LimitsAreNumbers
  <2>2. \A b \in Nat : Room(b) => Room(b)'
    BY <1>1, <1>2, <2>1 DEF Room
  <2> QED BY <1>1, <2>1, <2>2 DEF IInv, RoomLeft
<1> QED
  BY <1>4, <1>5, <1>6, <1>7, <1>9, <1>10, <1>11 DEF IInv

-----------------------------------------------------------------------------
(* The theorems.                                                           *)

LEMMA NextInv == ASSUME IInv, [Next]_vars PROVE IInv'
<1>1. CASE Crash
  BY <1>1, CrashInv
<1>2. CASE SyncFull
  BY <1>2, SyncFullInv
<1>3. CASE MakeRoom
  BY <1>3, MakeRoomInv
<1>4. CASE Create
  BY <1>4, CreateInv
<1>5. CASE SwitchCut
  BY <1>5, SwitchCutInv
<1>6. CASE Flush
  BY <1>6, FlushInv
<1>7. ASSUME NEW m \in MaxRots, Open(m) PROVE IInv'
  BY <1>7, OpenInv
<1>8. ASSUME NEW s \in Sizes, AppendCut(s) PROVE IInv'
  BY <1>8, AppendCutInv
<1>9. ASSUME NEW s \in Sizes, NEW rotatable \in BOOLEAN, AppendPayload(s, rotatable)
      PROVE  IInv'
  BY <1>9, AppendPayloadInv
<1>10. CASE UNCHANGED vars
  <2>1. /\ files' = files /\ pc' = pc /\ no' = no /\ target' = target /\ esize' = esize
        /\ max_rot' = max_rot /\ sent' = sent /\ limits' = limits /\ whole' = whole
        /\ acked' = acked /\ gone' = gone /\ risky' = risky
    BY <1>10 DEF vars, call, history
  <2>2. TypeInv'
    BY <2>1 DEF IInv, TypeInv
  <2>3. Ascending' /\ Separate'
    BY <2>1 DEF IInv, Ascending, Separate
  <2>4. LastWritten' /\ Ahead' /\ TargetListed' /\ OthersSynced'
    BY <2>1 DEF IInv, LastWritten, Ahead, TargetListed, OthersSynced
  <2>5. WholeThere' /\ AckedSynced'
    BY ZenonT(60), SMTT(60), <2>1 DEF IInv, WholeThere, AckedSynced, UnitsOf
  <2>6. RoomLeft'
    BY <2>1 DEF IInv, RoomLeft, Room
  <2> QED BY <2>2, <2>3, <2>4, <2>5, <2>6 DEF IInv
<1> QED
  BY <1>1, <1>2, <1>3, <1>4, <1>5, <1>6, <1>7, <1>8, <1>9, <1>10 DEF Next

\* Whatever is appended, cut off, lost in a crash or opened again with another
\* limit, the rotations and what the appender believes of them fit together.
THEOREM InvHolds == Spec => []IInv
<1>1. Init => IInv
  BY InitInv
<1>2. IInv /\ [Next]_vars => IInv'
  BY NextInv
<1> QED
  BY <1>1, <1>2, PTL DEF Spec

\* Read in the order of their names, the rotations hold what was appended in the
\* order of the calls, for any limits, sizes and numbers of crashes and switches
\* that are cut off.
THEOREM OrderHolds == Spec => []InOrder
<1>1. IInv => InOrder
  <2> SUFFICES ASSUME IInv, NEW m \in DOMAIN files, NEW n \in DOMAIN files,
                      NEW i \in DOMAIN files[m].content, NEW j \in DOMAIN files[n].content,
                      Earlier(m, n) \/ (m = n /\ i < j)
               PROVE  files[m].content[i] <= files[n].content[j]
    BY DEF InOrder
  <2>1. CASE Earlier(m, n)
    <3>1. m[1] < n[1]
      BY <2>1, Basics DEF Earlier
    <3> QED BY <3>1 DEF IInv, Separate
  <2>2. CASE m = n /\ i < j
    BY <2>2 DEF IInv, Ascending
  <2> QED BY <2>1, <2>2
<1> QED
  BY <1>1, InvHolds, PTL

\* The file the appender writes to keeps its name, so that what it writes can be
\* read, unless a switch was cut off where only one or two rotations are kept.
THEOREM WriterHolds == Spec => []WriterListed
<1>1. IInv => WriterListed
  BY DEF IInv, TargetListed, WriterListed
<1> QED
  BY <1>1, InvHolds, PTL

\* What a flush or a switch reported as persisted is synced on disk, every unit of
\* it once, until the limit removes its rotation.
THEOREM PersistedHolds == Spec => []AckedKept
<1>1. ASSUME IInv, ~risky, NEW id \in acked \ gone
      PROVE  Cardinality(SyncedUnits(id)) = sent[id]
  <2>1. id \in whole \ gone
    BY <1>1, Basics
  <2>2. Cardinality(UnitsOf(files, id)) = sent[id]
    BY <1>1, <2>1 DEF IInv, WholeThere
  <2>3. ASSUME NEW u \in UnitsOf(files, id) PROVE u \in SyncedUnits(id)
    <3>1. /\ u[1] \in DOMAIN files /\ u[2] \in Nat /\ u = <<u[1], u[2]>>
          /\ u[2] \in DOMAIN files[u[1]].content /\ files[u[1]].content[u[2]] = id
      BY <2>3 DEF UnitsOf
    <3>2. u[2] <= files[u[1]].synced
      BY <1>1, <2>3 DEF IInv, AckedSynced
    <3>3. u[2] \in 1 .. files[u[1]].synced
      BY SMTT(60), <1>1, <3>1, <3>2, Basics
    <3>4. u \in {<<u[1], i>> : i \in {j \in 1 .. files[u[1]].synced :
                                       files[u[1]].content[j] = id}}
      BY <3>1, <3>3
    <3> QED BY <3>1, <3>4 DEF SyncedUnits
  <2>4. ASSUME NEW u \in SyncedUnits(id) PROVE u \in UnitsOf(files, id)
    <3>1. PICK n \in DOMAIN files :
            u \in {<<n, i>> : i \in {j \in 1 .. files[n].synced : files[n].content[j] = id}}
      BY <2>4 DEF SyncedUnits
    <3>2. PICK i \in 1 .. files[n].synced : u = <<n, i>> /\ files[n].content[i] = id
      BY <3>1
    <3>3. i \in Nat /\ i \in DOMAIN files[n].content
      <4>1. /\ files[n].content \in Seq(Nat) /\ files[n].synced \in Nat
            /\ files[n].synced <= Len(files[n].content)
        BY <1>1, Basics
      <4> QED BY <4>1
    <3> QED BY <3>2, <3>3 DEF UnitsOf
  <2>5. SyncedUnits(id) = UnitsOf(files, id)
    BY <2>3, <2>4
  <2> QED BY <2>2, <2>5
<1>2. IInv => AckedKept
  BY <1>1 DEF AckedKept
<1> QED
  BY <1>2, InvHolds, PTL

\* There are never more rotations than the largest limit the files were opened
\* with, although they are counted before one is added.
THEOREM LimitHolds == Spec => []LimitKept
<1>1. ASSUME IInv, 0 \notin Ids(limits)
      PROVE  Cardinality(DOMAIN files) <= Max({1} \cup Ids(limits))
  <2> DEFINE S == {1} \cup Ids(limits)
  <2>1. S \subseteq Nat /\ S # {}
    BY <1>1, LimitsAreNumbers
  <2>2. IsFiniteSet(Ids(limits))
    <3>1. limits \in Seq(Nat) /\ DOMAIN limits = 1 .. Len(limits) /\ Len(limits) \in Nat
      BY <1>1, Basics
    <3>2. IsFiniteSet(DOMAIN limits)
      BY <3>1, FS_Interval
    <3>3. limits \in Surjection(DOMAIN limits, Ids(limits))
      BY <3>1 DEF Surjection, Ids
    <3> QED BY <3>2, <3>3, FS_Surjection
  <2>3. IsFiniteSet(S)
    BY <2>2, FS_Singleton, FS_Union
  <2>4. PICK b \in S : Room(b)
    BY <1>1 DEF IInv, RoomLeft
  <2> HIDE DEF S
  <2>5. PICK x \in S : \A y \in S : y <= x
    BY <2>1, <2>3, GreatestNumber
  <2>6. Max(S) \in S /\ \A y \in S : Max(S) >= y
    <3>1. \A y \in S : x >= y
      BY <2>1, <2>5
    <3> QED BY <3>1 DEF Max
  <2>7. Cardinality(DOMAIN files) <= b
    <3>1. Cardinality(DOMAIN files) \in Nat
      BY <1>1, Basics, FS_CardinalityType
    <3>2. b \in Nat
      BY <2>1
    <3> QED BY <2>4, <3>1, <3>2 DEF Room
  <2>8. Cardinality(DOMAIN files) <= Max(S)
    <3>1. Cardinality(DOMAIN files) \in Nat
      BY <1>1, Basics, FS_CardinalityType
    <3>2. b \in Nat /\ Max(S) \in Nat /\ b <= Max(S)
      BY <2>1, <2>6
    <3> QED BY <2>7, <3>1, <3>2
  <2> QED BY <2>8 DEF S
<1>2. IInv => LimitKept
  BY <1>1 DEF LimitKept
<1> QED
  BY <1>2, InvHolds, PTL
===============================================================================
