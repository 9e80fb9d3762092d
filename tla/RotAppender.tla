------------------------------ MODULE RotAppender ------------------------------
(***************************************************************************)
(* An appender to rotated files with the default names                     *)
(* (src/appender/async.rs).  One caller appends and flushes; a call is     *)
(* given up at any await, by an error or because its future is dropped,    *)
(* and what was begun then may or may not still be done; the process may   *)
(* crash at any step, and the files are opened again, also with another    *)
(* limit.                                                                  *)
(*                                                                         *)
(* A payload is a number of units, each of them marked with the number of  *)
(* the call that appends it.                                               *)
(***************************************************************************)
EXTENDS Rotation

CONSTANTS
  MaxRots,      \* limits the appender may be opened with: max_rot
  RotSize,      \* rot_size_max, in units
  Sizes,        \* sizes of the payloads
  MaxAppends,   \* bound: calls of append
  MaxOpens      \* bound: times the files are opened

ASSUME AppenderAssumption ==
  /\ MaxRots \subseteq Nat /\ Sizes \subseteq Nat \ {0}
  /\ RotSize \in Nat /\ MaxAppends \in Nat /\ MaxOpens \in Nat

VARIABLES
  files,        \* the directory
  pc,           \* where the call is: "closed" without an appender, "idle" without a call
  no,           \* cur_rot_no
  target,       \* the name the writer was opened with
  esize, max_rot,
  \* History.
  sent,         \* the sizes of the payloads, by call
  limits,       \* the limits the files were opened with, by opening
  whole,        \* calls whose payload was written in full since the files were opened, or acked
  acked,        \* those of them a flush or a switch reported as persisted
  gone,         \* calls with a part in a rotation that was removed as the oldest
  risky         \* a switch was cut off where only one or two rotations are kept

call == <<pc, no, target, esize, max_rot>>
history == <<sent, limits, whole, acked, gone, risky>>
vars == <<files, call, history>>

Init ==
  /\ files = NoFiles
  /\ pc = "closed" /\ no = 0 /\ target = <<0, 0>> /\ esize = 0 /\ max_rot = 0
  /\ sent = <<>> /\ limits = <<>> /\ whole = {} /\ acked = {} /\ gone = {} /\ risky = FALSE

Units(id, s) == [i \in 1 .. s |-> id]
Ids(units) == {units[i] : i \in DOMAIN units}
-----------------------------------------------------------------------------
(* Opening and crashing                                                    *)

\* Variant: the first name of the list is taken for the latest.
Open_Oldest(m) ==
  /\ pc = "closed" /\ Len(limits) < MaxOpens
  /\ LET name == IF files = NoFiles THEN <<0, 0>> ELSE Oldest(files)
     IN  /\ no' = name[1] /\ target' = name
         /\ files' = Opened(files, name)
         /\ esize' = Len(files'[name].content)
  /\ pc' = "idle" /\ max_rot' = m /\ limits' = Append(limits, m)
  /\ UNCHANGED <<sent, whole, acked, gone, risky>>

\* DefaultRotator::new restores the number, init_appending opens the latest
\* rotation, or the first, for which esize is the size of the file.
Open(m) ==
  /\ pc = "closed" /\ Len(limits) < MaxOpens
  /\ LET name == <<LatestNo(files), 0>>
     IN  /\ no' = name[1] /\ target' = name
         /\ files' = Opened(files, name)
         /\ esize' = Len(files'[name].content)
  /\ pc' = "idle" /\ max_rot' = m /\ limits' = Append(limits, m)
  /\ UNCHANGED <<sent, whole, acked, gone, risky>>

\* The process dies, or the appender is dropped between calls.
Crash ==
  /\ pc # "closed"
  /\ files' \in Surviving(files)
  /\ pc' = "closed" /\ no' = 0 /\ target' = <<0, 0>> /\ esize' = 0 /\ max_rot' = 0
  /\ whole' = acked
  /\ UNCHANGED <<sent, limits, acked, gone, risky>>
-----------------------------------------------------------------------------
(* append                                                                  *)

NeedsNewRot(size) == size >= RotSize

\* write_all; then the size is known to have grown, and decides.
AppendPayload(s, rotatable) ==
  /\ pc = "idle" /\ Len(sent) < MaxAppends
  /\ sent' = Append(sent, s)
  /\ files' = Written(files, target, Units(Len(sent'), s))
  /\ whole' = whole \cup {Len(sent')}
  /\ esize' = esize + s
  /\ pc' = IF rotatable /\ NeedsNewRot(esize') THEN "sync" ELSE "idle"
  /\ UNCHANGED <<no, target, max_rot, limits, acked, gone, risky>>

\* write_all is given up: a part is written, of which esize does not tell.
AppendCut(s) ==
  /\ pc = "idle" /\ Len(sent) < MaxAppends
  /\ sent' = Append(sent, s)
  /\ \E n \in 0 .. s - 1 : files' = Written(files, target, Units(Len(sent'), n))
  /\ UNCHANGED <<call, limits, whole, acked, gone, risky>>

\* Variant: the writer is replaced without flush and sync_all.
SyncFull_Skipped ==
  /\ pc = "sync" /\ pc' = "remove"
  /\ UNCHANGED <<files, no, target, esize, max_rot, history>>

SyncFull ==
  /\ pc = "sync" /\ pc' = "remove"
  /\ files' = Synced(files, target)
  /\ UNCHANGED <<no, target, esize, max_rot, history>>

\* Variant: the comparison with the limit is off by one.
Full_OneMore == max_rot # 0 /\ Cardinality(DOMAIN files) > max_rot

\* new_rot lists the rotations, and removes the oldest.
Full == AtLimit(files, max_rot)

RemoveOldest ==
  /\ files' = Removed(files, Oldest(files))
  /\ gone' = gone \cup Ids(files[Oldest(files)].content)

MakeRoom ==
  /\ pc = "remove" /\ pc' = "create"
  /\ IF Full THEN RemoveOldest ELSE UNCHANGED <<files, gone>>
  /\ UNCHANGED <<no, target, esize, max_rot, sent, limits, whole, acked, risky>>

\* It opens the next one; only then the number and the writer change.
Create ==
  /\ pc = "create" /\ pc' = "idle"
  /\ files' = Opened(files, <<no + 1, 0>>)
  /\ no' = no + 1 /\ target' = <<no + 1, 0>> /\ esize' = 0
  /\ acked' = whole
  /\ UNCHANGED <<max_rot, sent, limits, whole, gone, risky>>

\* Variant: cur_rot_no is counted up before the next one is opened.
SwitchCut_Counts ==
  /\ pc \in {"sync", "remove", "create"} /\ pc' = "idle"
  /\ \/ UNCHANGED <<files, gone, no>>
     \/ pc = "sync" /\ files' = Synced(files, target) /\ UNCHANGED <<gone, no>>
     \/ pc = "remove" /\ Full /\ RemoveOldest /\ UNCHANGED no
     \/ pc = "create" /\ files' = Opened(files, <<no + 1, 0>>) /\ no' = no + 1 /\ UNCHANGED gone
  /\ risky' = (risky \/ max_rot \in {1, 2})
  /\ UNCHANGED <<target, esize, max_rot, sent, limits, whole, acked>>

\* The switch is given up at an await.  What was asked of the system last may be
\* done all the same; the appender goes on with the old writer, number and size.
SwitchCut ==
  /\ pc \in {"sync", "remove", "create"} /\ pc' = "idle"
  /\ \/ UNCHANGED <<files, gone>>
     \/ pc = "sync" /\ files' = Synced(files, target) /\ UNCHANGED gone
     \/ pc = "remove" /\ Full /\ RemoveOldest
     \/ pc = "create" /\ files' = Opened(files, <<no + 1, 0>>) /\ UNCHANGED gone
  /\ risky' = (risky \/ max_rot \in {1, 2})
  /\ UNCHANGED <<no, target, esize, max_rot, sent, limits, whole, acked>>
-----------------------------------------------------------------------------
(* flush                                                                   *)

Flush ==
  /\ pc = "idle"
  /\ files' = Synced(files, target)
  /\ acked' = whole
  /\ UNCHANGED <<call, sent, limits, whole, gone, risky>>

Next ==
  \/ Crash \/ SyncFull \/ MakeRoom \/ Create \/ SwitchCut \/ Flush
  \/ \E m \in MaxRots : Open(m)
  \/ \E s \in Sizes : AppendCut(s) \/ \E rotatable \in BOOLEAN : AppendPayload(s, rotatable)

Spec == Init /\ [][Next]_vars
-----------------------------------------------------------------------------
(* Properties                                                              *)

\* Read in the order of their names, the rotations hold what was appended in the
\* order of the calls, through switches that were cut off, crashes and
\* reopenings: no number is used for a second rotation behind a later one.
InOrder ==
  \A m, n \in DOMAIN files :
    \A i \in DOMAIN files[m].content, j \in DOMAIN files[n].content :
      (Earlier(m, n) \/ (m = n /\ i < j)) => files[m].content[i] <= files[n].content[j]

\* What flush, or an append that switched, reported as persisted is synced on
\* disk in full, unless the limit removed its rotation.  (Where one or two
\* rotations are kept, a switch cut off behind the removal leaves the appender
\* writing to a file without a name.)
SyncedUnits(id) ==
  UNION {{<<n, i>> : i \in {j \in 1 .. files[n].synced : files[n].content[j] = id}} :
           n \in DOMAIN files}
AckedKept ==
  ~risky => \A id \in acked \ gone : Cardinality(SyncedUnits(id)) = sent[id]

\* The rotation being written is not the one the limit removes, if it leaves
\* room for two others, however often a switch is cut off and taken up again.
WriterListed ==
  (pc # "closed" /\ ~risky /\ max_rot # 1) => target \in DOMAIN files

\* There are never more rotations than the largest limit the files were opened
\* with, although the number of the files is looked at before one is added.
LimitKept ==
  0 \notin Ids(limits) => Cardinality(DOMAIN files) <= Max({1} \cup Ids(limits))
===============================================================================
