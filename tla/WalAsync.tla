-------------------------------- MODULE WalAsync --------------------------------
(***************************************************************************)
(* The life of a write ahead log in async code (src/wal/async.rs): an      *)
(* instance is made with a configuration, opened for writing, stopped and  *)
(* opened again, for writing or for reading.  stop does not wait: the      *)
(* flushing task it leaves goes on until it looks at running again, with a *)
(* writer, rotators and counters of its own, on the files that the next    *)
(* task or reader opens.  Listing the names, reading the end of a          *)
(* rotation, opening, writing, syncing and removing one are steps, and     *)
(* tasks interleave between them; a task may fail at any of them, and the  *)
(* process may crash.                                                      *)
(*                                                                         *)
(* How entries are packed into blocks is the subject of Wal; here every    *)
(* entry fills a block.                                                    *)
(***************************************************************************)
EXTENDS WalConfig, Rotation, SequencesExt

CONSTANTS
  RotBlocks,      \* config.max_data_rot_size, in blocks
  ManiEntries,    \* MAX_MANI_ROT_SIZE, in manifest entries
  RingSize,       \* 2^config.ringbuf_size_order
  MaxLsn,         \* bound: LSNs given out
  MaxAskedLsn,    \* bound: LSNs given out before or after a caller asks for a configuration
  MaxOpens        \* bound: writers and readers opened

ASSUME SizesAssumption ==
  /\ RotBlocks \in Nat \ {0} /\ ManiEntries \in Nat \ {0} /\ RingSize \in Nat \ {0}
  /\ MaxLsn \in Nat /\ MaxAskedLsn \in 0 .. MaxLsn /\ MaxOpens \in Nat

VARIABLES
  data, mani,     \* the rotations of both kinds: see Rotation
  holder,         \* what the caller has: nothing, an instance, a call to open, a writer or a reader
  gen,            \* the number of the writer or reader opened last, 0 if none
  reader,         \* the stream of a reader: where it is
  cb,             \* ControlBlock, by writer
  adv,            \* what a call of advance_lsn is about to store in min_lsn, 0 if nothing
  task,           \* the flushing task, by writer
  \* History.
  acked,          \* the largest LSN a writer in use has reported as persisted
  needed,         \* the first LSN that no advance_lsn has given up
  clash,          \* a task had entries in hand when the log was opened again
  blank           \* LSNs began again behind earlier ones, because the last manifest was empty

disk == <<data, mani>>
caller == <<holder, gen, adv, reader, configuration>>
history == <<acked, needed, clash, blank>>
vars == <<disk, caller, cb, task, history>>

Writers == 1 .. MaxOpens
Infinity == MaxLsn + 2
NoName == <<0, Infinity>>

Idle == [running |-> FALSE, min |-> 0, max |-> 0, next |-> 0, ring |-> <<>>]
Ended == [pc |-> "ended", then |-> <<>>, names |-> <<>>, buf |-> <<>>, min |-> 0,
          last_min |-> 0, no_use |-> 0, filled |-> 0, flushed |-> 0, block_size |-> 0, buf_size |-> 0,
          data |-> <<0, 0>>, data_size |-> 0, mani |-> <<0, 0>>, mani_size |-> 0]
NoStream == [pc |-> "none", start |-> 0, names |-> <<>>, rot |-> NoName, at |-> 0, next |-> 0,
             kept |-> <<>>]

Init ==
  /\ data = NoFiles /\ mani = NoFiles /\ ConfigInit
  /\ holder = "nothing" /\ gen = 0 /\ adv = 0 /\ reader = NoStream
  /\ cb = [w \in Writers |-> Idle] /\ task = [w \in Writers |-> Ended]
  /\ acked = 0 /\ needed = 0 /\ clash = FALSE /\ blank = FALSE

At(w, l) == task[w].pc = l
Goto(w, l) == task' = [task EXCEPT ![w].pc = l]
\* A task record that goes on at l, and at return when it is done with that.
Call(t, l, return) == [t EXCEPT !.pc = l, !.then = return \o @]
Return(t) == [t EXCEPT !.pc = Head(t.then), !.then = Tail(t.then)]
Becomes(w, t) == task' = [task EXCEPT ![w] = t]

\* A data rotation is named with the LSN after the last one written.
GenRotName(rot_no, flush_lsn) == <<rot_no, flush_lsn + 1>>

Names(files) == SetToSortSeq(DOMAIN files, Earlier)
BlocksOf(n) == data[n].content
-----------------------------------------------------------------------------
(* The caller                                                              *)

\* Bound: no more LSNs than these were given out.
GivenAtMost(n) ==
  /\ \A w \in Writers : cb[w].next <= n + 1
  /\ \A rot \in DOMAIN data : \A i \in DOMAIN BlocksOf(rot) : BlocksOf(rot)[i].lsn <= n

NewInstance ==
  /\ holder = "nothing"
  /\ \/ \E arg \in Args \cup {NoConfig} :
          (arg # NoConfig => GivenAtMost(MaxAskedLsn)) /\ LoadConfig(arg)
     \/ SaveConfig
  /\ holder' = IF config' = NoConfig THEN "nothing" ELSE "instance"
  /\ UNCHANGED <<disk, gen, reader, adv, cb, task, history>>

DropInstance ==
  /\ holder = "instance" /\ holder' = "nothing" /\ DropConfig
  /\ UNCHANGED <<disk, gen, reader, adv, cb, task, history>>

\* The task of an earlier writer has entries that it has not reported yet.
InHand(w) == task[w].pc # "ended" /\ (cb[w].ring # <<>> \/ task[w].buf # <<>>)

Opens(as) ==
  /\ holder = "instance" /\ gen < MaxOpens
  /\ holder' = as /\ gen' = gen + 1
  /\ task' = [task EXCEPT ![gen'].pc = "names", ![gen'].block_size = config.block,
                       ![gen'].buf_size = config.bulk]
  /\ UNCHANGED <<disk, adv, reader, configuration, cb, acked, needed, blank>>

OpenWriter ==
  /\ Opens("opening")
  /\ clash' = (clash \/ \E w \in 1 .. gen : InHand(w))

OpenReader ==
  /\ Opens("opening reader")
  /\ UNCHANGED clash

AppendEntry ==
  /\ holder = "writer" /\ cb[gen].running
  /\ Len(cb[gen].ring) < RingSize
  /\ cb[gen].next <= IF config = Default THEN MaxLsn ELSE MaxAskedLsn
  /\ cb' = [cb EXCEPT ![gen].ring = Append(@, cb[gen].next), ![gen].next = @ + 1]
  /\ UNCHANGED <<disk, caller, task, history>>

\* advance_lsn(l) reads max_lsn and min_lsn, and stores min_lsn later.
AdvLoad(l) ==
  /\ holder = "writer" /\ cb[gen].running /\ adv = 0
  /\ l <= cb[gen].max /\ l > cb[gen].min
  /\ adv' = l + 1
  /\ needed' = Max({needed, l + 1})
  /\ UNCHANGED <<disk, holder, gen, reader, configuration, cb, task, acked, clash, blank>>

AdvStore ==
  /\ adv # 0 /\ adv' = 0
  /\ cb' = [cb EXCEPT ![gen].min = adv]
  /\ UNCHANGED <<disk, holder, gen, reader, configuration, task, history>>

\* The instance comes back at once.
Stop ==
  /\ holder = "writer" /\ adv = 0
  /\ holder' = "instance"
  /\ cb' = [cb EXCEPT ![gen].running = FALSE]
  /\ UNCHANGED <<disk, gen, reader, adv, configuration, task, history>>

Crash ==
  /\ gen > 0 \/ saving # NoConfig
  /\ data' \in Surviving(data) /\ mani' \in Surviving(mani)
  /\ LoseConfig
  /\ holder' = "nothing" /\ adv' = 0 /\ reader' = NoStream
  /\ cb' = [w \in Writers |-> Idle] /\ task' = [w \in Writers |-> Ended]
  /\ UNCHANGED <<gen, history>>
-----------------------------------------------------------------------------
(* Opening: the rest of WalWriter::new, and WalReader::new                 *)

Shared == UNCHANGED <<caller, cb, history>>

\* A task ends with an error; if it is still being opened, so does the call.
Fails(w) ==
  /\ Becomes(w, Ended)
  /\ cb' = [cb EXCEPT ![w].running = FALSE, ![w].ring = <<>>]
  /\ IF holder \in {"opening", "opening reader"} /\ w = gen
     THEN holder' = "nothing" /\ DropConfig
     ELSE UNCHANGED <<holder, configuration>>
  /\ UNCHANGED <<disk, gen, reader, adv, history>>

Fail(w) ==
  /\ task[w].pc \notin {"ended", "start", "top", "pop", "lsn", "flush", "flushed"}
  /\ Fails(w)

\* The rotators remember the names of the latest rotations, if there are any.
RestoreMani(w) ==
  /\ At(w, "names")
  /\ Becomes(w, [task[w] EXCEPT !.pc = "data_names",
                                !.mani = IF mani = NoFiles THEN NoName ELSE Latest(mani)])
  /\ UNCHANGED disk /\ Shared

RestoreData(w) ==
  /\ At(w, "data_names")
  /\ Becomes(w, [task[w] EXCEPT !.pc = "mani_lsn",
                                !.data = IF data = NoFiles THEN NoName ELSE Latest(data)])
  /\ UNCHANGED disk /\ Shared

\* The LSNs between which the log goes on.  For a reader that is all.
Restored(w, lo, hi) ==
  /\ cb' = [cb EXCEPT ![w] = [Idle EXCEPT !.min = lo, !.max = hi, !.next = hi + 1]]
  /\ IF holder = "opening"
     THEN /\ Goto(w, "open_mani") /\ UNCHANGED holder
          /\ blank' = (blank \/ (hi = 0 /\ data \notin {NoFiles, Opened(NoFiles, GenRotName(0, 0))}))
     ELSE /\ Becomes(w, Ended) /\ holder' = "reader"
          /\ UNCHANGED blank
  /\ UNCHANGED <<disk, gen, adv, reader, configuration, acked, needed, clash>>

\* restore_lsn lists the names again, and reads the last entry of the last
\* manifest.
RestoreMin(w) ==
  /\ At(w, "mani_lsn")
  /\ IF mani = NoFiles THEN Restored(w, 0, 0)
     ELSE LET entries == mani[Latest(mani)].content
          IN  /\ Becomes(w, [task[w] EXCEPT !.min = IF entries = <<>> THEN 0 ELSE Last(entries),
                                            !.pc = IF entries = <<>> THEN "no_lsn" ELSE "data_lsn"])
              /\ UNCHANGED disk /\ Shared

\* Then the last block of the last data rotation, unless the manifest is empty.
RestoreMax(w) ==
  /\ At(w, "data_lsn") \/ At(w, "no_lsn")
  /\ IF data = NoFiles THEN Fails(w)                           \* Missing data rotations
     ELSE IF At(w, "no_lsn") THEN Restored(w, 0, 0)
     ELSE IF data[Latest(data)].content = <<>> THEN Fails(w)   \* The data file is too small
     ELSE LET block == Last(data[Latest(data)].content)
              lo == Max({task[w].min, block.whole_min})
          IN  Restored(w, IF lo = 0 /\ block.lsn > 0 THEN 1 ELSE lo, block.lsn)

\* init_appending asks for the size of a rotation that is remembered; the first
\* data rotation is named as if LSN 0 were the last one written.
Missing(files, name) == name # NoName /\ name \notin DOMAIN files

OpenMani(w) ==
  /\ At(w, "open_mani")
  /\ IF Missing(mani, task[w].mani) THEN Fails(w)
     ELSE LET name == IF task[w].mani = NoName THEN <<0, 0>> ELSE task[w].mani
          IN  /\ mani' = Opened(mani, name)
              /\ Becomes(w, [task[w] EXCEPT !.pc = "open_data", !.mani = name,
                                            !.mani_size = Len(mani'[name].content)])
              /\ UNCHANGED data /\ Shared

OpenData(w) ==
  /\ At(w, "open_data")
  /\ IF Missing(data, task[w].data) THEN Fails(w)
     ELSE LET name == IF task[w].data = NoName THEN GenRotName(0, 0) ELSE task[w].data
          IN  /\ data' = Opened(data, name)
              /\ Becomes(w, [task[w] EXCEPT !.pc = "start", !.data = name,
                                            !.data_size = Len(data'[name].content)])
              /\ cb' = [cb EXCEPT ![w].running = TRUE]
              /\ holder' = "writer"
              /\ UNCHANGED <<mani, gen, reader, adv, configuration, history>>
-----------------------------------------------------------------------------
(* The flushing task                                                       *)

NeedsNewRot(w) == task[w].data_size >= RotBlocks

Start(w) ==
  /\ At(w, "start")
  /\ LET t == [task[w] EXCEPT !.min = cb[w].min, !.last_min = cb[w].min, !.flushed = cb[w].max]
     IN  Becomes(w, Call(t, "list", IF t.min = 0 THEN <<"mani", "top">> ELSE <<"top">>))
  /\ UNCHANGED disk /\ Shared

Top(w) ==
  /\ At(w, "top")
  /\ IF cb[w].running THEN Goto(w, "pop") /\ UNCHANGED cb
     ELSE Becomes(w, Ended) /\ cb' = [cb EXCEPT ![w].ring = <<>>]
  /\ UNCHANGED <<disk, caller, history>>

\* fix_block_headers completes the last block of the buffer.
Fixed(w, buf) ==
  IF buf = <<>> THEN buf ELSE [buf EXCEPT ![Len(buf)].whole_min = cb[w].min]

\* An entry gets a block; a full buffer is flushed, and so is any when the
\* rotation is due.
Pop(w) ==
  /\ At(w, "pop") /\ cb[w].ring # <<>>
  /\ cb' = [cb EXCEPT ![w].ring = Tail(@)]
  /\ LET lsn == Head(cb[w].ring)
         block == [lsn |-> lsn, whole_min |-> 0, size |-> task[w].block_size]
         buf == Append(Fixed(w, task[w].buf), block)
         t == [task[w] EXCEPT !.filled = lsn, !.flushed = lsn]
     IN  IF Len(buf) * task[w].block_size = task[w].buf_size \/ NeedsNewRot(w)
         THEN Becomes(w, Call([t EXCEPT !.buf = Fixed(w, buf), !.last_min = cb[w].min],
                              "flush", <<"pop">>))
         ELSE Becomes(w, [t EXCEPT !.buf = buf,
                                   !.last_min = IF Len(buf) = 1 THEN @ ELSE cb[w].min])
  /\ UNCHANGED <<disk, caller, history>>

\* Nothing is left to pop; after some turns of the loop the buffer is flushed.
Quiet(w) ==
  /\ At(w, "pop") /\ cb[w].ring = <<>>
  /\ \/ Goto(w, "lsn")
     \/ /\ task[w].buf # <<>>
        /\ Becomes(w, Call([task[w] EXCEPT !.buf = Fixed(w, @), !.last_min = cb[w].min],
                           "flush", <<"lsn">>))
  /\ UNCHANGED disk /\ Shared

\* min_lsn is persisted at once when a rotation can go, or after some turns.
Lsn(w) ==
  /\ At(w, "lsn")
  /\ LET t == [task[w] EXCEPT !.min = cb[w].min]
     IN  \/ t.min <= t.last_min /\ Becomes(w, [t EXCEPT !.pc = "top"])
         \/ /\ t.min > t.last_min
            /\ \E again \in {<<"top">>, <<"mani", "top">>} :
                 Becomes(w, IF t.min >= t.no_use THEN Call(t, "mani", <<"list">> \o again)
                            ELSE Return(Call(t, "lsn", again)))
  /\ UNCHANGED disk /\ Shared

\* flush_data_blocks: the manifest comes first when the rotation may be switched.
Flush(w) ==
  /\ At(w, "flush")
  /\ LET t == [task[w] EXCEPT !.min = cb[w].min]
     IN  Becomes(w, IF NeedsNewRot(w) /\ t.min > t.last_min
                    THEN Call(t, "mani", <<"write">>) ELSE [t EXCEPT !.pc = "write"])
  /\ UNCHANGED disk /\ Shared

Write(w) ==
  /\ At(w, "write")
  /\ data' = Written(data, task[w].data, task[w].buf)
  /\ LET size == task[w].data_size + Len(task[w].buf)
     IN  Becomes(w, [task[w] EXCEPT !.data_size = size,
                                    !.pc = IF size >= RotBlocks THEN "rot_sync" ELSE "sync"])
  /\ UNCHANGED mani /\ Shared

Sync(w) ==
  /\ At(w, "sync") \/ At(w, "rot_sync")
  /\ data' = Synced(data, task[w].data)
  /\ Goto(w, IF At(w, "sync") THEN "flushed" ELSE "rot_new")
  /\ UNCHANGED mani /\ Shared

RotNew(w) ==
  /\ At(w, "rot_new")
  /\ LET name == GenRotName(task[w].data[1] + 1, task[w].filled)
     IN  /\ data' = Opened(data, name)
         /\ Becomes(w, Call([task[w] EXCEPT !.data = name, !.data_size = 0], "list", <<"flushed">>))
  /\ UNCHANGED mani /\ Shared

\* remove_no_use_rots lists the names once; one goes when the next begins no
\* later than min.
List(w) ==
  /\ At(w, "list")
  /\ Becomes(w, [task[w] EXCEPT !.names = Names(data), !.pc = "remove"])
  /\ UNCHANGED disk /\ Shared

Removable(w) == Len(task[w].names) > 1 /\ task[w].names[2][2] <= task[w].min

RemoveRot(w) ==
  /\ At(w, "remove") /\ Removable(w)
  /\ IF task[w].names[1] \notin DOMAIN data THEN Fails(w)
     ELSE /\ data' = Removed(data, task[w].names[1])
          /\ Becomes(w, [task[w] EXCEPT !.names = Tail(@)])
          /\ reader' = IF task[w].names[1] = reader.rot
                       THEN [reader EXCEPT !.kept = BlocksOf(reader.rot)] ELSE reader
          /\ UNCHANGED <<mani, holder, gen, adv, configuration, cb, history>>

RemoveDone(w) ==
  /\ At(w, "remove") /\ ~Removable(w)
  /\ LET names == task[w].names
         no_use == IF Len(names) > 1 THEN names[2][2] ELSE Infinity
     IN  Becomes(w, Return([task[w] EXCEPT !.no_use = no_use, !.names = <<>>]))
  /\ UNCHANGED disk /\ Shared

\* Variant: what is persisted is reported with a stale buffer, which is written again.
Flushed_KeepsBuf(w) ==
  /\ At(w, "flushed")
  /\ cb' = [cb EXCEPT ![w].max = task[w].flushed]
  /\ acked' = IF w = gen /\ holder = "writer" THEN Max({acked, task[w].flushed}) ELSE acked
  /\ Becomes(w, Return(task[w]))
  /\ UNCHANGED <<disk, caller, needed, clash, blank>>

Flushed(w) ==
  /\ At(w, "flushed")
  /\ cb' = [cb EXCEPT ![w].max = task[w].flushed]
  /\ acked' = IF w = gen /\ holder = "writer" THEN Max({acked, task[w].flushed}) ELSE acked
  /\ Becomes(w, Return([task[w] EXCEPT !.buf = <<>>]))
  /\ UNCHANGED <<disk, caller, needed, clash, blank>>

\* flush_mani_entry: an entry is appended, and a full manifest switched; the
\* older of two goes first.
Mani(w) ==
  /\ At(w, "mani")
  /\ mani' = Written(mani, task[w].mani, <<task[w].min>>)
  /\ LET size == task[w].mani_size + 1
     IN  Becomes(w, [task[w] EXCEPT !.mani_size = size,
                                    !.pc = IF size >= ManiEntries THEN "mani_full" ELSE "mani_sync"])
  /\ UNCHANGED data /\ Shared

ManiFull(w) ==
  /\ At(w, "mani_full")
  /\ mani' = Synced(mani, task[w].mani)
  /\ Goto(w, "mani_list")
  /\ UNCHANGED data /\ Shared

ManiList(w) ==
  /\ At(w, "mani_list")
  /\ Becomes(w, [task[w] EXCEPT !.names = Names(mani),
                                !.pc = IF AtLimit(mani, 2) THEN "mani_remove" ELSE "mani_new"])
  /\ UNCHANGED disk /\ Shared

ManiRemove(w) ==
  /\ At(w, "mani_remove")
  /\ IF task[w].names[1] \notin DOMAIN mani THEN Fails(w)
     ELSE /\ mani' = Removed(mani, task[w].names[1])
          /\ Goto(w, "mani_new")
          /\ UNCHANGED data /\ Shared

ManiNew(w) ==
  /\ At(w, "mani_new")
  /\ LET name == <<task[w].mani[1] + 1, 0>>
     IN  /\ mani' = Opened(mani, name)
         /\ Becomes(w, [task[w] EXCEPT !.mani = name, !.mani_size = 0, !.names = <<>>,
                                       !.pc = "mani_sync"])
  /\ UNCHANGED data /\ Shared

ManiSync(w) ==
  /\ At(w, "mani_sync")
  /\ mani' = Synced(mani, task[w].mani)
  /\ Becomes(w, Return([task[w] EXCEPT !.last_min = task[w].min]))
  /\ UNCHANGED data /\ Shared
-----------------------------------------------------------------------------
(* A reader and its streams; an old task may still be at work              *)

StreamAt(l) == holder = "reader" /\ reader.pc = l
OnlyReader == UNCHANGED <<disk, holder, gen, adv, configuration, cb, task, history>>
Breaks == reader' = [NoStream EXCEPT !.pc = "failed", !.start = reader.start]

\* get_log_stream accepts what new_wal_fields restored.
GetStream(start) ==
  /\ holder = "reader" /\ reader.pc \in {"none", "ended", "failed"}
  /\ cb[gen].min # 0 /\ start \in cb[gen].min .. cb[gen].max
  /\ reader' = [NoStream EXCEPT !.pc = "find", !.start = start]
  /\ OnlyReader

\* Variant: the search for the rotation goes on to the one that begins with start.
Before_Inclusive(names, k, start) ==
  start <= names[k][2] /\ (k = 1 \/ names[k - 1][2] <= start)

\* The rotation before name k is the one with start.
Before(names, k, start) == start < names[k][2] /\ (k = 1 \/ names[k - 1][2] <= start)

\* It lists the names, and those behind the rotation with start are read after it.
FindRot ==
  /\ StreamAt("find")
  /\ LET names == Names(data)
         ks == {k \in DOMAIN names : Before(names, k, reader.start)}
         Choose(k) == reader' = [reader EXCEPT !.pc = "open", !.rot = names[k],
                                              !.names = SubSeq(names, k + 1, Len(names))]
     IN  IF ks \ {1} # {} /\ 1 \notin ks THEN Choose(Min(ks) - 1)
         ELSE IF ks = {} /\ names # <<>> /\ reader.start >= Last(names)[2] THEN Choose(Len(names))
         ELSE Breaks
  /\ OnlyReader

\* The blocks there are when it is opened are searched for the one with start.
OpenRot ==
  /\ StreamAt("open")
  /\ IF \/ reader.rot \notin DOMAIN data
        \/ \A i \in DOMAIN BlocksOf(reader.rot) : BlocksOf(reader.rot)[i].lsn # reader.start
     THEN Breaks
     ELSE LET i == Min({j \in DOMAIN BlocksOf(reader.rot) :
                          BlocksOf(reader.rot)[j].lsn = reader.start})
          IN  reader' = [reader EXCEPT !.pc = "reading", !.at = i + 1, !.next = reader.start + 1]
  /\ OnlyReader

\* An open file stays readable when its name is removed.
Held == IF reader.rot \in DOMAIN data THEN BlocksOf(reader.rot) ELSE reader.kept

\* The next block must be the next entry; at its end a file is followed by the
\* next of the names found in the beginning.
ReadNext ==
  /\ StreamAt("reading")
  /\ IF reader.at <= Len(Held)
     THEN IF Held[reader.at].lsn # reader.next THEN Breaks
          ELSE reader' = [reader EXCEPT !.at = @ + 1, !.next = @ + 1]
     ELSE IF reader.names = <<>>
     THEN reader' = [NoStream EXCEPT !.pc = "ended", !.start = reader.start, !.next = reader.next]
     ELSE IF Head(reader.names) \notin DOMAIN data THEN Breaks
     ELSE reader' = [reader EXCEPT !.rot = Head(reader.names), !.names = Tail(@), !.at = 1]
  /\ OnlyReader

Finish ==
  /\ holder = "reader" /\ holder' = "instance"
  /\ reader' = NoStream
  /\ UNCHANGED <<disk, gen, adv, configuration, cb, task, history>>
-----------------------------------------------------------------------------
Opening(w) ==
  \/ RestoreMani(w) \/ RestoreData(w) \/ RestoreMin(w) \/ RestoreMax(w)
  \/ OpenMani(w) \/ OpenData(w)

Flushing(w) ==
  \/ Start(w) \/ Top(w) \/ Pop(w) \/ Quiet(w) \/ Lsn(w)
  \/ Flush(w) \/ Write(w) \/ Sync(w) \/ RotNew(w) \/ Flushed(w)
  \/ List(w) \/ RemoveRot(w) \/ RemoveDone(w)
  \/ Mani(w) \/ ManiFull(w) \/ ManiList(w) \/ ManiRemove(w) \/ ManiNew(w) \/ ManiSync(w)

Reading == FindRot \/ OpenRot \/ ReadNext \/ Finish \/ \E l \in 1 .. MaxLsn : GetStream(l)

Next ==
  \/ NewInstance \/ DropInstance \/ OpenWriter \/ AppendEntry \/ AdvStore \/ Stop \/ Crash
  \/ OpenReader \/ Reading
  \/ \E l \in 1 .. MaxLsn : AdvLoad(l)
  \/ \E w \in Writers : Opening(w) \/ Flushing(w) \/ Fail(w)

Spec == Init /\ [][Next]_vars
-----------------------------------------------------------------------------
(* Properties                                                              *)

SyncedWith(l) == {b \in UNION {{n} \X (1 .. data[n].synced) : n \in DOMAIN data} :
                    BlocksOf(b[1])[b[2]].lsn = l}

\* What was reported as persisted and is still needed is on disk, once, whatever
\* an earlier task still does to the files, if it had no entries in hand when
\* the log was opened again.
KeptOnce ==
  ~clash /\ ~blank =>
    \A l \in Max({needed, 1}) .. acked : Cardinality(SyncedWith(l)) = 1

\* A reader that is opened while the task of a stopped writer is still at work
\* offers all that is still needed: a stream from an LSN not given up does not
\* fail, and it ends only behind the largest LSN the reader tells of and all that
\* was reported.
StreamsWhole ==
  ~clash /\ ~blank =>
    /\ reader.pc = "failed" => reader.start < needed
    /\ reader.pc = "ended" => reader.next > Max({cb[gen].max, acked})

\* Whatever is asked for, the configuration in use fits the log: blocks are read
\* with the size they were written with, and the buffer is full after a number of
\* blocks.
BlocksFit ==
  config # NoConfig =>
    /\ config.bulk % config.block = 0 /\ config.bulk >= config.block
    /\ \A n \in DOMAIN data : \A i \in DOMAIN BlocksOf(n) : BlocksOf(n)[i].size = config.block
===============================================================================
