------------------------------- MODULE Rotation -------------------------------
(***************************************************************************)
(* The files of an appender and the names of its rotations                 *)
(* (src/appender/async.rs; src/appender/sync.rs says the same without      *)
(* awaits).  A name is a number and a suffix: the default provider gives   *)
(* every rotation the suffix 0, the one of the write ahead log the next    *)
(* LSN.  Files are a function from names to what was written and how much  *)
(* of it is synced.                                                        *)
(***************************************************************************)
EXTENDS Naturals, Sequences, FiniteSetsExt

NoFiles == [n \in {} |-> <<>>]

\* Names are padded with zeros, so that their order is that of the numbers.
Earlier(m, n) == m[1] < n[1] \/ (m[1] = n[1] /\ m[2] < n[2])

\* list_rot_names is sorted: its first and its last name.
Oldest(files) == CHOOSE n \in DOMAIN files : \A m \in DOMAIN files : m = n \/ Earlier(n, m)
Latest(files) == CHOOSE n \in DOMAIN files : \A m \in DOMAIN files : m = n \/ Earlier(m, n)

\* restore_from_storage: a rotator goes on with the last rotation, or begins at 0.
LatestNo(files) == IF files = NoFiles THEN 0 ELSE Latest(files)[1]

\* Opening for appending creates what is not there.  A writer keeps its file
\* when another call removes the name: what it writes then is lost.
Opened(files, n) ==
  [m \in DOMAIN files \cup {n} |->
     IF m \in DOMAIN files THEN files[m] ELSE [content |-> <<>>, synced |-> 0]]
Removed(files, n) == [m \in DOMAIN files \ {n} |-> files[m]]
Written(files, n, units) ==
  IF n \in DOMAIN files THEN [files EXCEPT ![n].content = @ \o units] ELSE files
Synced(files, n) ==
  IF n \in DOMAIN files THEN [files EXCEPT ![n].synced = Len(files[n].content)] ELSE files

\* new_rot removes the oldest when there are as many as the limit allows.
AtLimit(files, max_rot) == max_rot # 0 /\ Cardinality(DOMAIN files) >= max_rot

\* What a crash leaves: of each file what is synced and any part of the rest.
Unsynced(files, n) == Len(files[n].content) - files[n].synced
Surviving(files) ==
  LET kept(n, lost) == SubSeq(files[n].content, 1, Len(files[n].content) - lost[n])
  IN  {[n \in DOMAIN files |-> [content |-> kept(n, lost), synced |-> Len(kept(n, lost))]] :
         lost \in {l \in [DOMAIN files -> UNION {0 .. Unsynced(files, n) : n \in DOMAIN files}] :
                     \A n \in DOMAIN files : l[n] <= Unsynced(files, n)}}
===============================================================================
