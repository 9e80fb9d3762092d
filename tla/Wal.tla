---------------------------------- MODULE Wal ----------------------------------
(***************************************************************************)
(* The write ahead log (src/wal.rs, src/wal/sync.rs).  Callers             *)
(* append entries to a ring and advance the first needed LSN; a flushing   *)
(* thread packs the entries into blocks, writes the blocks to data         *)
(* rotations and the first needed LSN to a manifest, switches rotations    *)
(* and removes those that hold nothing needed.  The process may crash at   *)
(* any step, an I/O call may fail, and the log is opened again from what   *)
(* the disk holds.                                                         *)
(*                                                                         *)
(* Sizes are in units: a block holds BlockUnits of them after its header,  *)
(* the header of an entry takes one.  Encodings and checksums are left     *)
(* out: a block is its header and the parts of entries in it, the rest is  *)
(* zero.  A write reaches the disk in whole blocks; files that were        *)
(* created or removed stay so.                                             *)
(***************************************************************************)
EXTENDS Integers, Sequences, SequencesExt

CONSTANTS
  BlockUnits,     \* config.block_size
  BufBlocks,      \* config.bulk_flush_size, in blocks
  RotBlocks,      \* config.max_data_rot_size, in blocks
  ManiEntries,    \* MAX_MANI_ROT_SIZE, in manifest entries
  RingSize,       \* 2^config.ringbuf_size_order
  Sizes,          \* sizes of the payloads appended
  Advancers,      \* threads that call advance_lsn
  MaxLsn,         \* bound: LSNs given out
  MaxOpens        \* bound: times the log is opened

ASSUME WalAssumption ==
  /\ {BlockUnits, BufBlocks, RotBlocks, ManiEntries, RingSize} \subseteq Nat \ {0}
  /\ Sizes \subseteq Nat
  /\ MaxLsn \in Nat /\ MaxOpens \in Nat

VARIABLES
  \* On disk: rotations, oldest first, each with how much of it is synced.
  data,           \* data rotations: the LSN in the name, the blocks
  mani,           \* manifest rotations: the entries
  \* ControlBlock, shared by the callers and the flushing thread.
  running, min_lsn, max_lsn,
  ring,           \* entries appended and not yet popped
  next_lsn,       \* the LSN of the next entry: lsn_base plus the tail of the ring
  adv,            \* what an advancer is about to store in min_lsn, 0 if nothing
  \* The flushing thread.
  pc,
  then,           \* where it goes on when it is done with what it does
  buf, used,      \* data_buf: its blocks, and the units used of the last one
  cur,            \* the entry being packed, NoEntry if none
  min,            \* the copy of min_lsn it works with
  rotatable,      \* the argument of flush_data_blocks
  last_min_lsn, next_no_use_lsn, last_filled_lsn, max_flushed_lsn,
  \* History.
  opens,          \* times the log was opened
  size,           \* the size of the entry appended with each LSN
  acked,          \* the largest LSN a flush has reported as persisted
  needed,         \* the first LSN that no advance_lsn has given up
  torn,           \* LSNs that were on disk in part when the log was opened
  faults          \* what made LSNs begin again: see Open and Write

disk == <<data, mani>>
shared == <<running, min_lsn, max_lsn, ring, next_lsn, adv>>
packing == <<buf, used, cur, last_filled_lsn, max_flushed_lsn>>
lsns == <<min, last_min_lsn, next_no_use_lsn>>
history == <<opens, size, acked, needed, torn, faults>>
vars == <<disk, shared, pc, then, packing, lsns, rotatable, history>>

Lsns == 0 .. MaxLsn + 1
Infinity == MaxLsn + 2        \* u64::MAX in next_no_use_lsn

Labels == {"closed", "open_data", "start", "top", "pop", "quiet", "lsn", "flush", "write",
           "sync", "rot_sync", "rot_new", "remove", "mani", "mani_sync", "mani_rot", "flushed"}

Larger(a, b) == IF a > b THEN a ELSE b
NewRot(first) == [first |-> first, blocks |-> <<>>, synced |-> 0]
NewBlock(lsn) == [min |-> lsn, max |-> 0, wmin |-> 0, parts |-> <<>>]
NoEntry == [lsn |-> 0, left |-> 0, split |-> FALSE]
NewMani == [entries |-> <<>>, synced |-> 0]

\* Nothing in memory: before the log is opened, and after it is closed.
NoWriter ==
  /\ running' = FALSE /\ min_lsn' = 0 /\ max_lsn' = 0 /\ next_lsn' = 0
  /\ ring' = <<>> /\ adv' = [a \in Advancers |-> 0]
  /\ pc' = "closed" /\ then' = <<>>
  /\ buf' = <<>> /\ used' = 0 /\ cur' = NoEntry /\ min' = 0 /\ rotatable' = FALSE
  /\ last_min_lsn' = 0 /\ next_no_use_lsn' = 0
  /\ last_filled_lsn' = 0 /\ max_flushed_lsn' = 0

Init ==
  /\ data = <<>> /\ mani = <<>>
  /\ running = FALSE /\ min_lsn = 0 /\ max_lsn = 0 /\ next_lsn = 0
  /\ ring = <<>> /\ adv = [a \in Advancers |-> 0]
  /\ pc = "closed" /\ then = <<>>
  /\ buf = <<>> /\ used = 0 /\ cur = NoEntry /\ min = 0 /\ rotatable = FALSE
  /\ last_min_lsn = 0 /\ next_no_use_lsn = 0
  /\ last_filled_lsn = 0 /\ max_flushed_lsn = 0
  /\ opens = 0 /\ size = [l \in Lsns |-> 0] /\ acked = 0 /\ needed = 0
  /\ torn = {} /\ faults = {}

Goto(l) == pc' = l /\ UNCHANGED then
Call(l, return) == pc' = l /\ then' = return \o then
Return == pc' = Head(then) /\ then' = Tail(then)
-----------------------------------------------------------------------------
(* What the disk says                                                      *)

\* The places of the parts, <<rotation, block, part>>, and their order.
Places(rots) ==
  UNION {UNION {{<<i, j, k>> : k \in DOMAIN rots[i].blocks[j].parts} :
                  j \in DOMAIN rots[i].blocks} : i \in DOMAIN rots}
PartAt(rots, x) == rots[x[1]].blocks[x[2]].parts[x[3]]
Before(x, y) ==
  x[1] < y[1] \/ (x[1] = y[1] /\ (x[2] < y[2] \/ (x[2] = y[2] /\ x[3] < y[3])))

\* restore_lsn: the first needed LSN and the largest LSN, from the last entry of
\* the last manifest and the last block of the last data rotation.
Restored ==
  LET found(lo, hi) == [ok |-> TRUE, min |-> IF lo = 0 /\ hi > 0 THEN 1 ELSE lo, max |-> hi]
      failed == [ok |-> FALSE, min |-> 0, max |-> 0]
  IN  CASE mani = <<>> -> found(0, 0)
        [] mani # <<>> /\ data = <<>> -> failed          \* Missing data rotations
        [] mani # <<>> /\ data # <<>> ->
             LET entries == Last(mani).entries
                 blocks == Last(data).blocks
             IN  CASE entries = <<>> -> found(0, 0)
                   [] entries # <<>> /\ blocks = <<>> -> failed  \* The data file is too small
                   [] entries # <<>> /\ blocks # <<>> ->
                        found(Larger(Last(entries), Last(blocks).wmin), Last(blocks).max)

\* What the next open leaves behind: the last entry, if its last part is missing;
\* and all LSNs, if the manifest was just switched and is still empty.
Torn ==
  {PartAt(data, x).lsn : x \in {y \in Places(data) :
                                 /\ PartAt(data, y).kind \in {"First", "Middle"}
                                 /\ \A z \in Places(data) : ~Before(y, z)}}
BlankManifest == Len(mani) > 1 /\ Last(mani).entries = <<>>

\* get_log_iter: the block it begins with, in the rotation whose name says that
\* start is in it the first one whose header does.
Located(start) ==
  LET after == {i \in DOMAIN data : start < data[i].first
                                    /\ (i > 1 => data[i - 1].first <= start)}
      rot == IF after = {} THEN Len(data) ELSE (CHOOSE i \in after : \A j \in after : i <= j) - 1
      fits(j) == data[rot].blocks[j].min <= start /\ start <= data[rot].blocks[j].max
  IN  IF rot = 0 \/ (\A j \in DOMAIN data[rot].blocks : ~fits(j)) THEN <<>>
      ELSE <<rot, CHOOSE j \in DOMAIN data[rot].blocks :
                    fits(j) /\ \A k \in 1 .. j - 1 : ~fits(k)>>

\* LogIterator: complete entries come out in order, and each next one must be
\* the one expected; a part must go on with what was begun.
ReadPart(st, p) ==
  CASE p.kind = "Full" ->
         [st EXCEPT !.ok = @ /\ p.lsn = st.next, !.next = @ + 1]
    [] p.kind = "First" ->
         [st EXCEPT !.ok = @ /\ st.open = 0, !.open = p.lsn]
    [] p.kind = "Middle" ->
         [st EXCEPT !.ok = @ /\ st.open = p.lsn]
    [] p.kind = "Last" ->
         [st EXCEPT !.ok = @ /\ st.open = p.lsn /\ p.lsn = st.next, !.next = @ + 1, !.open = 0]

\* What is read from a block on: of that one only the parts of start and later
\* entries.
ReadPlaces(at, start) ==
  {x \in Places(data) : /\ x[1] > at[1] \/ (x[1] = at[1] /\ x[2] >= at[2])
                        /\ <<x[1], x[2]>> = at => PartAt(data, x).lsn >= start}

\* A block without parts cannot be read, nor one that is skipped to its end.
Readable(at, start) ==
  /\ \A i \in at[1] .. Len(data) : \A j \in DOMAIN data[i].blocks :
       (i > at[1] \/ j >= at[2]) => data[i].blocks[j].parts # <<>>
  /\ Last(data[at[1]].blocks[at[2]].parts).lsn >= start

\* The iterator after each part.
LastOf(places) == CHOOSE x \in places : \A y \in places : ~Before(x, y)
Reading(read, start) ==
  LET st[x \in read] ==
        LET earlier == {y \in read : Before(y, x)}
        IN  ReadPart(IF earlier = {} THEN [ok |-> TRUE, next |-> start, open |-> 0]
                     ELSE st[LastOf(earlier)], PartAt(data, x))
  IN  st

Read(start) ==
  LET at == Located(start)
      read == ReadPlaces(at, start)
  IN  IF at = <<>> \/ ~Readable(at, start) THEN [ok |-> FALSE, next |-> start, open |-> 0]
      ELSE Reading(read, start)[LastOf(read)]
-----------------------------------------------------------------------------
(* Opening, stopping, crashing                                             *)

\* WalWriter::new: the LSNs are restored, the rotations opened for appending.
Open ==
  /\ pc = "closed" /\ opens < MaxOpens /\ Restored.ok
  /\ min_lsn' = Restored.min /\ max_lsn' = Restored.max /\ next_lsn' = Restored.max + 1
  /\ mani' = IF mani = <<>> THEN <<NewMani>> ELSE mani
  /\ opens' = opens + 1
  /\ torn' = torn \cup Torn
  /\ faults' = faults \cup (IF BlankManifest THEN {"blank_manifest"} ELSE {})
  /\ Goto("open_data")
  /\ UNCHANGED <<data, running, ring, adv, packing, lsns, rotatable, size, acked, needed>>

OpenData ==
  /\ pc = "open_data"
  /\ data' = IF data = <<>> THEN <<NewRot(1)>> ELSE data
  /\ running' = TRUE
  /\ Goto("start")
  /\ UNCHANGED <<mani, min_lsn, max_lsn, ring, next_lsn, adv, packing, lsns, rotatable, history>>

\* The flushing thread sets itself up.
Start ==
  /\ pc = "start"
  /\ min' = min_lsn /\ last_min_lsn' = min_lsn
  /\ max_flushed_lsn' = max_lsn /\ last_filled_lsn' = 0
  /\ Call("remove", IF min_lsn = 0 THEN <<"mani", "top">> ELSE <<"top">>)
  /\ UNCHANGED <<disk, shared, buf, used, cur, next_no_use_lsn, rotatable, history>>

Stop ==
  /\ running /\ \A a \in Advancers : adv[a] = 0
  /\ running' = FALSE
  /\ UNCHANGED <<disk, min_lsn, max_lsn, ring, next_lsn, adv, pc, then, packing, lsns,
                 rotatable, history>>

\* The process dies, or an I/O call fails and the flushing thread gives up: of
\* what was not synced, any number of blocks and entries may have been written.
Halt ==
  /\ pc # "closed"
  /\ IF data = <<>> THEN UNCHANGED data
     ELSE \E n \in Last(data).synced .. Len(Last(data).blocks) :
            data' = [data EXCEPT ![Len(data)].blocks = SubSeq(@, 1, n), ![Len(data)].synced = n]
  /\ \E n \in Last(mani).synced .. Len(Last(mani).entries) :
       mani' = [mani EXCEPT ![Len(mani)].entries = SubSeq(@, 1, n), ![Len(mani)].synced = n]
  /\ NoWriter
  /\ UNCHANGED history
-----------------------------------------------------------------------------
(* The callers                                                             *)

AppendEntry(s) ==
  /\ running /\ Len(ring) < RingSize /\ next_lsn <= MaxLsn
  /\ ring' = Append(ring, next_lsn)
  /\ size' = [size EXCEPT ![next_lsn] = s]
  /\ next_lsn' = next_lsn + 1
  /\ UNCHANGED <<disk, running, min_lsn, max_lsn, adv, pc, then, packing, lsns, rotatable,
                 opens, acked, needed, torn, faults>>

\* advance_lsn(l) reads max_lsn and min_lsn, and stores min_lsn later.
AdvLoad(a, l) ==
  /\ running /\ adv[a] = 0
  /\ l <= max_lsn /\ l > min_lsn
  /\ adv' = [adv EXCEPT ![a] = l + 1]
  /\ needed' = Larger(needed, l + 1)
  /\ UNCHANGED <<disk, running, min_lsn, max_lsn, ring, next_lsn, pc, then, packing, lsns,
                 rotatable, opens, size, acked, torn, faults>>

AdvStore(a) ==
  /\ adv[a] # 0
  /\ min_lsn' = adv[a] /\ adv' = [adv EXCEPT ![a] = 0]
  /\ UNCHANGED <<disk, running, max_lsn, ring, next_lsn, pc, then, packing, lsns,
                 rotatable, history>>
-----------------------------------------------------------------------------
(* The flushing thread: packing entries into blocks                        *)

NeedsNewRot == Len(Last(data).blocks) >= RotBlocks
AtBoundary == buf = <<>> \/ used = BlockUnits
Room == BlockUnits - used

\* Variant: the placeholder of max_lsn is not overwritten.
Fixed_NoMax(blocks, filled) ==
  IF blocks = <<>> THEN blocks ELSE [blocks EXCEPT ![Len(blocks)].wmin = min_lsn]

\* fix_block_headers: the largest LSN in the last block, and min_lsn.
Fixed(blocks, filled) ==
  IF blocks = <<>> THEN blocks
  ELSE [blocks EXCEPT ![Len(blocks)].max = filled, ![Len(blocks)].wmin = min_lsn]

Top ==
  /\ pc = "top"
  /\ IF running
     THEN /\ Goto("pop")
          /\ UNCHANGED <<shared, packing, lsns, rotatable>>
     ELSE NoWriter
  /\ UNCHANGED <<disk, history>>

Pop ==
  /\ pc = "pop" /\ cur = NoEntry
  /\ IF ring = <<>>
     THEN Goto("quiet") /\ UNCHANGED <<ring, cur>>
     ELSE /\ cur' = [lsn |-> Head(ring), left |-> size[Head(ring)], split |-> FALSE]
          /\ ring' = Tail(ring)
          /\ UNCHANGED <<pc, then>>
  /\ UNCHANGED <<disk, running, min_lsn, max_lsn, next_lsn, adv, buf, used, last_filled_lsn,
                 max_flushed_lsn, lsns, rotatable, history>>

\* Variant: the header of the block before stays as it was encoded.
OpenBlock_NoFix ==
  /\ pc = "pop" /\ cur # NoEntry /\ AtBoundary
  /\ buf' = Append(buf, NewBlock(cur.lsn)) /\ used' = 0
  /\ UNCHANGED <<disk, shared, pc, then, cur, last_filled_lsn, max_flushed_lsn, lsns,
                 rotatable, history>>

\* The block before is complete, so its header is.
OpenBlock ==
  /\ pc = "pop" /\ cur # NoEntry /\ AtBoundary
  /\ buf' = Append(Fixed(buf, last_filled_lsn), NewBlock(cur.lsn)) /\ used' = 0
  /\ last_min_lsn' = IF buf = <<>> THEN last_min_lsn ELSE min_lsn
  /\ UNCHANGED <<disk, shared, pc, then, cur, last_filled_lsn, max_flushed_lsn, min,
                 next_no_use_lsn, rotatable, history>>

Packing == pc = "pop" /\ cur # NoEntry /\ ~AtBoundary

\* After each turn of the loop: a full buffer is flushed, and so is a full block
\* when the rotation is due.
FlushIfDue(blocks, units, filled, split) ==
  /\ used' = units /\ last_filled_lsn' = filled
  /\ IF units = BlockUnits /\ (Len(blocks) = BufBlocks \/ NeedsNewRot)
     THEN /\ buf' = Fixed(blocks, filled) /\ last_min_lsn' = min_lsn
          /\ rotatable' = ~split
          /\ Call("flush", <<"pop">>)
     ELSE buf' = blocks /\ UNCHANGED <<pc, then, last_min_lsn, rotatable>>
  /\ UNCHANGED <<disk, shared, min, next_no_use_lsn, history>>

\* A part is the units of the payload behind those already split off.
WithPart(kind) ==
  LET part == [lsn |-> cur.lsn, kind |-> kind, from |-> size[cur.lsn] - cur.left,
               units |-> IF kind \in {"Full", "Last"} THEN cur.left ELSE Room - 1]
  IN  [buf EXCEPT ![Len(buf)].parts = Append(@, part)]

\* What is left of the entry fits.
PutRest ==
  /\ Packing /\ 1 + cur.left <= Room
  /\ FlushIfDue(WithPart(IF cur.split THEN "Last" ELSE "Full"),
                used + 1 + cur.left, cur.lsn, FALSE)
  /\ cur' = NoEntry
  /\ max_flushed_lsn' = cur.lsn

\* It is split; it is not begun where the rotation is due.
PutPart ==
  /\ Packing /\ 1 + cur.left > Room /\ 1 < Room /\ (cur.split \/ ~NeedsNewRot)
  /\ FlushIfDue(WithPart(IF cur.split THEN "Middle" ELSE "First"), BlockUnits, cur.lsn, TRUE)
  /\ cur' = [cur EXCEPT !.left = @ - (Room - 1), !.split = TRUE]
  /\ UNCHANGED max_flushed_lsn

FillZero ==
  /\ Packing /\ 1 + cur.left > Room /\ ~(1 < Room /\ (cur.split \/ ~NeedsNewRot))
  /\ FlushIfDue(buf, BlockUnits, last_filled_lsn, cur.split)
  /\ UNCHANGED <<cur, max_flushed_lsn>>

\* Variant: the flush of an idle log does not report what it persists.
TimeFlush_NotReported ==
  /\ pc = "quiet" /\ buf # <<>>
  /\ buf' = Fixed(buf, last_filled_lsn) /\ used' = BlockUnits
  /\ last_min_lsn' = min_lsn /\ rotatable' = FALSE
  /\ Call("flush", <<"lsn">>)
  /\ UNCHANGED <<disk, shared, cur, last_filled_lsn, max_flushed_lsn, min, next_no_use_lsn,
                 history>>

\* Nothing is left to pop.  After some idle turns of the loop what is in the
\* buffer is flushed.
TimeFlush ==
  /\ pc = "quiet" /\ buf # <<>>
  /\ buf' = Fixed(buf, last_filled_lsn) /\ used' = BlockUnits
  /\ last_min_lsn' = min_lsn /\ rotatable' = TRUE
  /\ Call("flush", <<"lsn">>)
  /\ UNCHANGED <<disk, shared, cur, last_filled_lsn, max_flushed_lsn, min, next_no_use_lsn,
                 history>>

NoTimeFlush ==
  /\ pc = "quiet"
  /\ Goto("lsn")
  /\ UNCHANGED <<disk, shared, packing, lsns, rotatable, history>>

\* min_lsn is persisted at once when a rotation can go, or after some idle turns.
Lsn ==
  /\ pc = "lsn"
  /\ min' = min_lsn
  /\ \/ min_lsn <= last_min_lsn /\ Goto("top")
     \/ /\ min_lsn > last_min_lsn
        /\ \E again \in {<<"top">>, <<"mani", "top">>} :
             IF min_lsn >= next_no_use_lsn THEN Call("mani", <<"remove">> \o again)
             ELSE pc' = Head(again) /\ then' = Tail(again) \o then
  /\ UNCHANGED <<disk, shared, packing, last_min_lsn, next_no_use_lsn, rotatable, history>>
-----------------------------------------------------------------------------
(* The flushing thread: flush_data_blocks, rotations, manifest             *)

Frame == UNCHANGED <<shared, cur, last_filled_lsn, max_flushed_lsn, rotatable, opens, size,
                     needed, torn>>

\* The manifest is written first when the next block may begin a new rotation.
Flush ==
  /\ pc = "flush"
  /\ min' = min_lsn
  /\ IF NeedsNewRot /\ min_lsn > last_min_lsn THEN Call("mani", <<"write">>) ELSE Goto("write")
  /\ UNCHANGED <<disk, buf, used, last_min_lsn, next_no_use_lsn, acked, faults>> /\ Frame

Write ==
  /\ pc = "write"
  /\ data' = [data EXCEPT ![Len(data)].blocks = @ \o buf]
  /\ faults' = faults \cup (IF \E i \in DOMAIN buf : buf[i].parts = <<>>
                            THEN {"empty_block"} ELSE {})
  /\ Goto(IF rotatable /\ Len(Last(data).blocks) + Len(buf) >= RotBlocks
          THEN "rot_sync" ELSE "sync")
  /\ UNCHANGED <<mani, buf, used, lsns, acked>> /\ Frame

SyncData ==
  /\ data' = [data EXCEPT ![Len(data)].synced = Len(Last(data).blocks)]
  /\ UNCHANGED <<mani, buf, used, lsns, acked, faults>> /\ Frame

\* Variant: a flush that does not switch the rotation skips sync_all.
Sync_Skipped ==
  /\ pc = "sync"
  /\ Goto("flushed")
  /\ UNCHANGED <<disk, buf, used, lsns, acked, faults>> /\ Frame

Sync == pc = "sync" /\ SyncData /\ Goto("flushed")

RotSync == pc = "rot_sync" /\ SyncData /\ Goto("rot_new")

\* Variant: the new rotation is named with the last LSN written.
RotNew_LastLsn ==
  /\ pc = "rot_new"
  /\ data' = Append(data, NewRot(last_filled_lsn))
  /\ Call("remove", <<"flushed">>)
  /\ UNCHANGED <<mani, buf, used, lsns, acked, faults>> /\ Frame

\* The new rotation is named with the LSN after the last one written.
RotNew ==
  /\ pc = "rot_new"
  /\ data' = Append(data, NewRot(last_filled_lsn + 1))
  /\ Call("remove", <<"flushed">>)
  /\ UNCHANGED <<mani, buf, used, lsns, acked, faults>> /\ Frame

\* remove_no_use_rots: a rotation goes when the next begins no later than min.
RemoveRot ==
  /\ pc = "remove"
  /\ IF Len(data) > 1 /\ data[2].first <= min
     THEN data' = Tail(data) /\ UNCHANGED <<next_no_use_lsn, pc, then>>
     ELSE /\ next_no_use_lsn' = IF Len(data) > 1 THEN data[2].first ELSE Infinity
          /\ Return /\ UNCHANGED data
  /\ UNCHANGED <<mani, buf, used, min, last_min_lsn, acked, faults>> /\ Frame

Flushed ==
  /\ pc = "flushed"
  /\ buf' = <<>> /\ used' = 0
  /\ max_lsn' = IF rotatable THEN max_flushed_lsn ELSE max_lsn
  /\ acked' = Larger(acked, max_lsn')
  /\ Return
  /\ UNCHANGED <<disk, running, min_lsn, ring, next_lsn, adv, cur, last_filled_lsn,
                 max_flushed_lsn, lsns, rotatable, opens, size, needed, torn, faults>>

\* flush_mani_entry.
Mani ==
  /\ pc = "mani"
  /\ mani' = [mani EXCEPT ![Len(mani)].entries = Append(@, min)]
  /\ Goto("mani_sync")
  /\ UNCHANGED <<data, buf, used, lsns, acked, faults>> /\ Frame

ManiSync ==
  /\ pc = "mani_sync"
  /\ mani' = [mani EXCEPT ![Len(mani)].synced = Len(Last(mani).entries)]
  /\ IF Len(Last(mani).entries) >= ManiEntries
     THEN Goto("mani_rot") /\ UNCHANGED last_min_lsn
     ELSE Return /\ last_min_lsn' = min
  /\ UNCHANGED <<data, buf, used, min, next_no_use_lsn, acked, faults>> /\ Frame

\* A full manifest makes room for an empty one: the older of two goes first.
ManiRot ==
  /\ pc = "mani_rot"
  /\ IF Len(mani) >= 2
     THEN mani' = Tail(mani) /\ UNCHANGED <<pc, then, last_min_lsn>>
     ELSE mani' = Append(mani, NewMani) /\ Return /\ last_min_lsn' = min
  /\ UNCHANGED <<data, buf, used, min, next_no_use_lsn, acked, faults>> /\ Frame
-----------------------------------------------------------------------------
Flusher ==
  \/ OpenData \/ Start \/ Top \/ Pop \/ OpenBlock \/ PutRest \/ PutPart \/ FillZero
  \/ NoTimeFlush \/ Lsn \/ Flush \/ Write \/ Sync \/ RotSync \/ RotNew \/ RemoveRot \/ Flushed
  \/ Mani \/ ManiSync \/ ManiRot

Next ==
  \/ Open \/ Stop \/ Halt \/ Flusher \/ TimeFlush
  \/ \E s \in Sizes : AppendEntry(s)
  \/ \E a \in Advancers : AdvStore(a) \/ \E l \in 1 .. MaxLsn : AdvLoad(a, l)

Spec == Init /\ [][Next]_vars

\* The flushing thread runs; it does not find the log busy for ever.
FairSpec == Spec /\ WF_vars(Flusher) /\ SF_vars(TimeFlush)
-----------------------------------------------------------------------------
(* Properties                                                              *)

\* The types of the variables.
TypeOK ==
  /\ running \in BOOLEAN /\ {min_lsn, max_lsn, next_lsn} \subseteq Lsns
  /\ adv \in [Advancers -> Lsns] /\ ring \in BoundedSeq(1 .. MaxLsn, RingSize)
  /\ pc \in Labels /\ Range(then) \subseteq Labels
  /\ Len(buf) <= BufBlocks /\ used \in 0 .. BlockUnits
  /\ cur.lsn \in 0 .. MaxLsn /\ cur.left \in Nat /\ cur.split \in BOOLEAN
  /\ {min, last_min_lsn, last_filled_lsn, max_flushed_lsn} \subseteq Lsns
  /\ next_no_use_lsn \in Lsns \cup {Infinity}
  /\ Len(mani) <= 2 /\ \A i \in DOMAIN mani : Len(mani[i].entries) <= ManiEntries + 1
  /\ \A i \in DOMAIN data : data[i].synced <= Len(data[i].blocks)

\* The parts of an entry at these places are all its parts: in order, each goes on
\* where the one before ended, and what they are called says which they are.
Complete(l, places) ==
  LET mine == {x \in places : PartAt(data, x).lsn = l}
      kind(x) == PartAt(data, x).kind
      from(x) == PartAt(data, x).from
      to(x) == PartAt(data, x).from + PartAt(data, x).units
  IN  /\ \E x \in mine : from(x) = 0
      /\ \A x \in mine :
           /\ kind(x) \in {"Full", "First"} <=> from(x) = 0
           /\ kind(x) \in {"Full", "Last"} <=> to(x) = size[l]
           /\ \/ to(x) = size[l]
              \/ \E y \in mine : Before(x, y) /\ from(y) = to(x)
           /\ \A y \in mine : Before(x, y) => to(x) # size[l] /\ to(x) <= from(y)

SyncedPlaces == {x \in Places(data) : x[2] <= data[x[1]].synced}

\* What a flush reported as persisted, and no advance_lsn gave up, is on disk in
\* full and synced, whatever was cut off by crashes and removed with rotations.
\* (LSNs begin again when the log is opened with an empty manifest or behind an
\* empty block; LSNs torn by an earlier crash are never completed.)
Durable ==
  faults = {} =>
    \A l \in Larger(needed, 1) .. acked : l \in torn \/ Complete(l, SyncedPlaces)

\* The name of a data rotation separates it from those before: reading and
\* removing find their way by the names alone.
RotationNames ==
  faults = {} =>
    \A i \in DOMAIN data :
      /\ \A j \in 1 .. i - 1 : data[j].first <= data[i].first
      /\ \A x \in Places(data) :
           IF x[1] < i THEN PartAt(data, x).lsn < data[i].first
           ELSE x[1] = i => data[i].first <= PartAt(data, x).lsn

\* When the log can be opened again, new entries get LSNs beyond all that were
\* reported as persisted.
NoReuse ==
  (pc = "closed" /\ Restored.ok /\ ~BlankManifest
     /\ faults = {}) => Restored.max >= acked

\* A closed log that can be opened is readable to its end from every LSN the
\* reader accepts and that is still needed, unless a torn entry comes after it.
ReadBack ==
  (pc = "closed" /\ Restored.ok /\ faults = {} /\ ~BlankManifest /\ Restored.min > 0) =>
    \A start \in Larger(Restored.min, needed) .. Restored.max :
      (\A l \in torn \cup Torn : l < start)
        => Read(start) = [ok |-> TRUE, next |-> Restored.max + 1, open |-> 0]

\* An appended entry is reported as persisted in the end, unless the log stops.
AppendedPersists ==
  \A l \in 1 .. MaxLsn : (running /\ next_lsn > l) ~> (max_lsn >= l \/ ~running)

\* The comment in flush_data_blocks: after a crash that left a new rotation
\* empty, the log is opened with what the manifest says.
SwitchReopens ==
  (pc = "closed" /\ data # <<>> /\ Last(data).first > 1 /\ Last(data).blocks = <<>>)
    => Restored.ok

\* The doc of the module: the first needed LSN may be lost in a crash, and then
\* entries no longer needed are read; so the one the reader offers can be read.
MinLsnReadable ==
  (pc = "closed" /\ Restored.ok /\ Restored.min \in 1 .. Restored.max)
    => Located(Restored.min) # <<>>

\* The doc of append: an entry up to get_max_lsn has been persisted.
MaxLsnPersisted ==
  (running /\ faults = {}) =>
    \A l \in Larger(min_lsn, 1) .. max_lsn : Complete(l, SyncedPlaces)
=============================================================================
