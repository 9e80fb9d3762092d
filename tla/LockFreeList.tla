----------------------------- MODULE LockFreeList -----------------------------
(***************************************************************************)
(* The links of the lock-free skip list, src/skiplist/map/lockfree.rs:     *)
(* searching, linking and unlinking level by level, clear.                 *)
(*                                                                         *)
(* Each load, store and compare-and-exchange of a link is a step.  A node  *)
(* is named by its key if the list begins with it and by the writer that   *)
(* allocates it otherwise.  What EntryRef models is left out: the flags of *)
(* an entry in use and being updated, values and reference counts.  Epochs *)
(* are taken at their word: a node in the garbage is freed as soon as no   *)
(* call is left that was in progress when it got there (EpochReclaim).     *)
(*                                                                         *)
(* Two things insert may do leave nothing to be said of what follows, and  *)
(* the model ends there (crashed): it dereferences the pointer that an     *)
(* exchange found instead of the expected one, without a test for null;    *)
(* and it frees the new node, although that is linked, if what the         *)
(* exchange found has the same key.                                        *)
(***************************************************************************)
EXTENDS Integers, FiniteSets, FiniteSetsExt

CONSTANTS
  Threads,        \* each makes one call
  Roles,          \* what the threads may be: writer, reader or clearer
  Writes,         \* the calls that each writer may make: pairs of insert or remove and a key
  Keys,           \* the keys, numbers from 1 on
  MaxHeight,      \* number of levels
  Initial,        \* the lists to begin with: a height for each key, 0 if absent
  ReadOps,        \* the calls the readers make
  ClearOverlaps,  \* whether clear may be called while writers are at work
  MaxSpurious,    \* bound: how often compare_exchange_weak fails for no reason
  Head, Null

Nodes == Keys \cup Threads
Levels == 0 .. MaxHeight - 1

ASSUME ListAssumption ==
  /\ IsFiniteSet(Threads) /\ IsFiniteSet(Keys)
  /\ Keys \subseteq Nat \ {0} /\ Keys # {} /\ Keys \cap Threads = {}
  /\ Head \notin Nodes /\ Null \notin Nodes /\ Head # Null
  /\ MaxHeight \in Nat \ {0} /\ Initial \subseteq [Keys -> 0 .. MaxHeight]
  /\ Roles \subseteq [Threads -> {"writer", "reader", "clearer"}]
  /\ Writes \in [Threads -> SUBSET ({"insert", "remove"} \X Keys)]
  /\ ReadOps \subseteq {"get", "contains", "next", "prev", "first", "last", "iter"}
  /\ ClearOverlaps \in BOOLEAN /\ MaxSpurious \in Nat

VARIABLES
  cell,           \* the link of each node, and of the map itself, on each level
  info,           \* a node's key and height, its flags, and where it is
  waits,          \* the calls that keep a node in the garbage from being freed
  count,          \* ent_cnt, not reduced to its width
  role,           \* which calls a thread makes
  pc,             \* where a thread is in the code
  walk,           \* where its search or its loop over the levels is
  ents,           \* its PrecVec
  node,           \* the node it inserts or removes
  spurious, crashed,
  call, moments, answer  \* history, as in ConcurrentSet; call has the arguments

list == <<cell, info, waits, count>>
local == <<walk, ents, node>>
vars == <<list, role, pc, local, spurious, crashed, call, moments, answer>>

NoLink == [to |-> Null, marked |-> FALSE]
NoEnts == [l \in Levels |-> [prec |-> Head, next |-> Null, ok |-> FALSE]]
NoWalk == [at |-> Null, level |-> 0, low |-> 0, found |-> Null, seen |-> {}]

\* Linked on level 0, and not flagged as deleted: the keys of the map.
Present == {info[n].key : n \in {m \in Nodes : info[m].place = "linked" /\ ~info[m].deleted}}

Promise == INSTANCE ConcurrentSet WITH keys <- Present

InCall(t) == pc[t] \notin {"idle", "done"}
Freed(n) == info[n].place = "freed" \/ (info[n].place = "garbage" /\ waits[n] = {})

\* Any list without calls in progress: on each level a node is linked to the
\* next one that is high enough.
Init ==
  /\ \E h \in Initial :
       LET Behind(k, l) == {j \in Keys : j > k /\ h[j] > l}
           To(S) == [to |-> IF S = {} THEN Null ELSE Min(S), marked |-> FALSE]
       IN  /\ cell = [n \in Nodes \cup {Head} |-> [l \in Levels |->
                CASE n = Head -> To(Behind(0, l))
                  [] n \in Keys /\ h[n] > l -> To(Behind(n, l))
                  [] OTHER -> NoLink]]
           /\ info = [n \in Nodes |->
                [key |-> IF n \in Keys THEN n ELSE 0,
                 height |-> IF n \in Keys THEN h[n] ELSE 0,
                 linking |-> FALSE, deleted |-> FALSE,
                 place |-> IF n \in Keys /\ h[n] > 0 THEN "linked" ELSE "none"]]
           /\ count = Cardinality({k \in Keys : h[k] > 0})
  /\ waits = [n \in Nodes |-> {}]
  /\ role \in Roles
  /\ pc = [t \in Threads |-> "idle"]
  /\ walk = [t \in Threads |-> NoWalk]
  /\ ents = [t \in Threads |-> NoEnts]
  /\ node = [t \in Threads |-> Null]
  /\ spurious = 0 /\ crashed = "no"
  /\ call = [t \in Threads |-> Promise!NoCall]
  /\ moments = [t \in Threads |-> {}]
  /\ answer = [t \in Threads |-> {}]

-----------------------------------------------------------------------------
(* Calls.                                                                  *)

Goto(t, l) == pc' = [pc EXCEPT ![t] = l]
Answer(t, a) == answer' = [answer EXCEPT ![t] = {a}]

\* A search from the top level down to level low.
FromTop(low) == [NoWalk EXCEPT !.at = Head, !.level = MaxHeight - 1, !.low = low]

Begin(t, op, k, l, w) ==
  /\ pc[t] = "idle"
  /\ Goto(t, l)
  /\ call' = [call EXCEPT ![t] = [op |-> op, key |-> k]]
  /\ walk' = [walk EXCEPT ![t] = w]
  /\ UNCHANGED <<list, ents, node, spurious, crashed, answer>>

Write(t) ==
  /\ role[t] = "writer"
  /\ \A c \in Threads : call[c].op = "clear" => ClearOverlaps
  /\ \E w \in Writes[t] : Begin(t, w[1], w[2], "search", FromTop(0))

\* first_entry and iter_with begin at the head of level 0, as the search for a key
\* before all others would; search_last is the search for one behind all others.
Read(t) ==
  /\ role[t] = "reader"
  /\ \E op \in ReadOps :
       \/ /\ op \in {"get", "contains", "next", "prev"}
          /\ \E k \in Keys : Begin(t, op, k, "search", FromTop(0))
       \/ /\ op \in {"first", "iter"}
          /\ Begin(t, op, 0, "search", [FromTop(0) EXCEPT !.level = 0])
       \/ op = "last" /\ Begin(t, op, Max(Keys) + 1, "search", FromTop(0))

\* The pin of t is dropped: it keeps no node in the garbage any longer.
Unpin(t) == waits' = [n \in Nodes |-> waits[n] \ {t}]

\* The call returns; its local variables are gone.
Finish(t) ==
  /\ Goto(t, "done")
  /\ call' = [call EXCEPT ![t] = Promise!NoCall]
  /\ walk' = [walk EXCEPT ![t] = NoWalk]
  /\ ents' = [ents EXCEPT ![t] = NoEnts]
  /\ node' = [node EXCEPT ![t] = Null]
  /\ UNCHANGED <<spurious, crashed>>

FinishWith(t, a) ==
  /\ Finish(t) /\ Answer(t, a) /\ Unpin(t)
  /\ UNCHANGED <<cell, info, count>>

-----------------------------------------------------------------------------
(* search, search_ext and search_last: at is prev, the head if it is null. *)

Searching(t) == pc[t] \in {"search", "search_again"}
Met(t) == cell[walk[t].at][walk[t].level].to

\* The link leads to a node with a smaller key: on to that node.
SearchOn(t) ==
  /\ Searching(t)
  /\ Met(t) # Null /\ info[Met(t)].key < call[t].key
  /\ walk' = [walk EXCEPT ![t].at = Met(t)]
  /\ UNCHANGED <<list, pc, ents, node, spurious, crashed, call, answer>>

\* set_ent, which leaves alone what is linked or unlinked already.
NewEnts(t) ==
  LET l == walk[t].level IN
  IF ents[t][l].ok THEN ents[t]
  ELSE [ents[t] EXCEPT ![l] = [prec |-> walk[t].at, next |-> Met(t), ok |-> FALSE]]

NewFound(t) ==
  IF Met(t) # Null /\ info[Met(t)].key = call[t].key THEN Met(t) ELSE walk[t].found

\* search returns as soon as it meets the key, search_ext goes down all the way.
SearchEnds(t) ==
  \/ walk[t].level = walk[t].low
  \/ call[t].op \in {"get", "contains"} /\ NewFound(t) # Null

MetEnough(t) ==
  /\ Searching(t)
  /\ Met(t) # Null => info[Met(t)].key >= call[t].key

SearchDown(t) ==
  /\ MetEnough(t) /\ ~SearchEnds(t)
  /\ ents' = [ents EXCEPT ![t] = IF call[t].op \in {"insert", "remove"} THEN NewEnts(t) ELSE NoEnts]
  /\ walk' = [walk EXCEPT ![t].level = @ - 1, ![t].found = NewFound(t)]
  /\ UNCHANGED <<list, pc, node, spurious, crashed, call, answer>>

-----------------------------------------------------------------------------
(* insert_inner and link_nodes.                                            *)

\* Levels the PrecVec has an entry for that is still to be linked or unlinked.
Undone(es, n) == {l \in 0 .. info[n].height - 1 : ~es[l].ok}

\* Node::new, with a height made up: gen_height.
NewNode(t) ==
  \E h \in 1 .. MaxHeight :
    /\ info' = [info EXCEPT ![t] = [key |-> call[t].key, height |-> h, linking |-> TRUE,
                                    deleted |-> FALSE, place |-> "own"]]
    /\ cell' = [cell EXCEPT ![t] = [l \in Levels |-> NoLink]]
    /\ ents' = [ents EXCEPT ![t] = [l \in Levels |-> IF l < h THEN NewEnts(t)[l] ELSE NoEnts[l]]]

InsertSearched(t) ==
  /\ pc[t] = "search" /\ call[t].op = "insert"
  /\ MetEnough(t) /\ SearchEnds(t)
  /\ \/ /\ NewFound(t) # Null
        /\ Goto(t, "check")
        /\ walk' = [walk EXCEPT ![t] = [NoWalk EXCEPT !.found = NewFound(t)]]
        /\ ents' = [ents EXCEPT ![t] = NoEnts]
        /\ UNCHANGED <<list, node>>
     \/ /\ NewFound(t) = Null
        /\ Goto(t, "link")
        /\ walk' = [walk EXCEPT ![t] = NoWalk]
        /\ node' = [node EXCEPT ![t] = t]
        /\ NewNode(t)
        /\ UNCHANGED <<waits, count>>
  /\ UNCHANGED <<spurious, crashed, call, answer>>

\* The main loop again, with another pin and another PrecVec.
InsertAgain(t) ==
  /\ Goto(t, "search")
  /\ walk' = [walk EXCEPT ![t] = FromTop(0)]
  /\ ents' = [ents EXCEPT ![t] = NoEnts]
  /\ node' = [node EXCEPT ![t] = Null]
  /\ Unpin(t)
  /\ UNCHANGED <<cell, count, call, answer>>

\* A slip: counts a new entry when the value of an old one is replaced.
InsertCheck_Slip(t) ==
  /\ pc[t] = "check"
  /\ ~info[walk[t].found].deleted
  /\ Finish(t) /\ Answer(t, {call[t].key}) /\ Unpin(t)
  /\ count' = count + 1
  /\ UNCHANGED <<cell, info>>

\* The key is there: the value of its node is replaced, unless it is deleted.
InsertCheck(t) ==
  /\ pc[t] = "check"
  /\ \/ /\ ~info[walk[t].found].deleted
        /\ FinishWith(t, {call[t].key})
     \/ /\ info[walk[t].found].deleted
        /\ InsertAgain(t)
        /\ UNCHANGED <<info, spurious, crashed>>

\* link_nodes found another node with the key: the new one is freed.
GiveUp(t) ==
  \/ /\ info[t].place # "linked"
     /\ InsertAgain(t)
     /\ info' = [info EXCEPT ![t].place = "freed"]
     /\ UNCHANGED crashed
  \/ /\ info[t].place = "linked"
     /\ crashed' = "freed"
     /\ UNCHANGED <<list, pc, local, call, answer>>

\* A slip: pins anew and tries again with the links found under the old pin.
AfterLevel_Slip(t, l, es) ==
  LET missing == Undone(es, t) IN
  /\ ents' = [ents EXCEPT ![t] = es]
  /\ Unpin(t)
  /\ IF missing = {}
     THEN walk' = [walk EXCEPT ![t] = NoWalk] /\ Goto(t, "unset")
     ELSE walk' = [walk EXCEPT ![t].level = Min(missing)] /\ Goto(t, "link")

\* What comes after the attempt at level l: the next level, unless it was level 0
\* that failed; or a new search, with another pin, for the levels that failed.
AfterLevel(t, l, es) ==
  LET missing == Undone(es, t)
      rest == IF es[0].ok THEN {i \in missing : i > l} ELSE {}
  IN  /\ ents' = [ents EXCEPT ![t] = es]
      /\ IF rest # {}
         THEN walk' = [walk EXCEPT ![t].level = Min(rest)] /\ Goto(t, "link") /\ UNCHANGED waits
         ELSE IF missing # {}
         THEN walk' = [walk EXCEPT ![t] = FromTop(Min(missing))] /\ Goto(t, "search_again") /\ Unpin(t)
         ELSE walk' = [walk EXCEPT ![t] = NoWalk] /\ Goto(t, "unset") /\ UNCHANGED waits

ExpectedLink(e, l) == cell[e.prec][l] = [to |-> e.next, marked |-> FALSE]

\* The next of the new node is stored, whatever is there.
Store(t) ==
  /\ pc[t] = "link"
  /\ LET l == walk[t].level IN
     cell' = [cell EXCEPT ![t][l] = [to |-> ents[t][l].next, marked |-> FALSE]]
  /\ Goto(t, "exchange")
  /\ UNCHANGED <<info, waits, count, local, spurious, crashed, call, answer>>

\* Then the node in front of it is made to link to it.
Link(t) ==
  /\ pc[t] = "exchange"
  /\ LET l == walk[t].level  e == ents[t][l] IN
     /\ ExpectedLink(e, l)
     /\ cell' = [cell EXCEPT ![e.prec][l] = [to |-> t, marked |-> FALSE]]
     /\ info' = [info EXCEPT ![t].place = "linked"]
     /\ IF l = 0 THEN Answer(t, {}) ELSE UNCHANGED answer
     /\ AfterLevel(t, l, [ents[t] EXCEPT ![l].ok = TRUE])
  /\ UNCHANGED <<count, node, spurious, crashed, call>>

\* compare_exchange_weak fails: the link has changed or been marked, or nothing
\* has happened at all.
Fails(e, l) ==
  \/ ~ExpectedLink(e, l) /\ UNCHANGED spurious
  \/ ExpectedLink(e, l) /\ spurious < MaxSpurious /\ spurious' = spurious + 1

\* The node found in place of the expected one is looked at, null or not.  One
\* with a larger key is stored as the next, in the same step here.
LinkRace(t) ==
  /\ pc[t] = "exchange"
  /\ LET l == walk[t].level  e == ents[t][l]  race == cell[e.prec][l].to IN
     /\ Fails(e, l)
     /\ \/ /\ race = Null
           /\ crashed' = "null"
           /\ UNCHANGED <<list, pc, local, call, answer>>
        \/ /\ race # Null /\ info[race].key = call[t].key
           /\ GiveUp(t)
        \/ /\ race # Null /\ info[race].key # call[t].key
           /\ IF info[race].key > call[t].key
              THEN cell' = [cell EXCEPT ![t][l] = [to |-> race, marked |-> FALSE]]
              ELSE UNCHANGED cell
           /\ AfterLevel(t, l, ents[t])
           /\ UNCHANGED <<info, count, node, crashed, call, answer>>

\* The search for the levels that failed.
LinkSearched(t) ==
  /\ pc[t] = "search_again" /\ call[t].op = "insert"
  /\ MetEnough(t) /\ SearchEnds(t)
  /\ \/ NewFound(t) \notin {Null, t} /\ GiveUp(t)
     \/ /\ NewFound(t) \in {Null, t}
        /\ Goto(t, "link")
        /\ ents' = [ents EXCEPT ![t] = NewEnts(t)]
        /\ walk' = [walk EXCEPT ![t] = [NoWalk EXCEPT !.level = Min(Undone(NewEnts(t), t))]]
        /\ UNCHANGED <<list, node, crashed, call, answer>>
  /\ UNCHANGED spurious

InsertUnset(t) ==
  /\ pc[t] = "unset"
  /\ info' = [info EXCEPT ![t].linking = FALSE]
  /\ Goto(t, "count")
  /\ UNCHANGED <<cell, waits, count, local, spurious, crashed, call, answer>>

InsertCount(t) ==
  /\ pc[t] = "count"
  /\ count' = count + 1
  /\ Finish(t) /\ Unpin(t)
  /\ UNCHANGED <<cell, info, answer>>

-----------------------------------------------------------------------------
(* remove_inner, remove_wo_kv_inner and unlink_nodes.                      *)

RemoveSearched(t) ==
  /\ pc[t] = "search" /\ call[t].op = "remove"
  /\ MetEnough(t) /\ SearchEnds(t)
  /\ \/ NewFound(t) = Null /\ FinishWith(t, {})
     \/ /\ NewFound(t) # Null
        /\ Goto(t, "flag")
        /\ node' = [node EXCEPT ![t] = NewFound(t)]
        /\ ents' = [ents EXCEPT ![t] = NewEnts(t)]
        /\ walk' = [walk EXCEPT ![t] = NoWalk]
        /\ UNCHANGED <<list, spurious, crashed, call, answer>>

\* Waits while the node is being linked.
RemoveFlag(t) ==
  /\ pc[t] = "flag"
  /\ \/ info[node[t]].deleted /\ FinishWith(t, {})
     \/ /\ ~info[node[t]].deleted /\ ~info[node[t]].linking
        /\ info' = [info EXCEPT ![node[t]].deleted = TRUE]
        /\ Answer(t, {call[t].key})
        /\ Goto(t, "mark")
        /\ UNCHANGED <<cell, waits, count, local, spurious, crashed, call>>

\* A slip: the links of a deleted node are not marked, so that others still link to it.
Mark_Slip(t) ==
  /\ pc[t] = "mark"
  /\ Goto(t, "unlink")
  /\ walk' = [walk EXCEPT ![t] = NoWalk]
  /\ UNCHANGED <<list, ents, node, spurious, crashed, call, answer>>

\* mark_next_ptr_delete, from level 0 up.
Mark(t) ==
  /\ pc[t] = "mark"
  /\ cell' = [cell EXCEPT ![node[t]][walk[t].level].marked = TRUE]
  /\ IF walk[t].level + 1 < info[node[t]].height
     THEN walk' = [walk EXCEPT ![t].level = @ + 1] /\ UNCHANGED pc
     ELSE walk' = [walk EXCEPT ![t] = NoWalk] /\ Goto(t, "unlink")
  /\ UNCHANGED <<info, waits, count, ents, node, spurious, crashed, call, answer>>

UnlinkLevel(t) == Max(Undone(ents[t], node[t]))

\* From the top level down to level 0.
Unlink(t) ==
  /\ pc[t] = "unlink"
  /\ LET l == UnlinkLevel(t)  e == ents[t][l] IN
     /\ e.next = node[t] /\ ExpectedLink(e, l)
     /\ cell' = [cell EXCEPT ![e.prec][l].to = cell[node[t]][l].to]
     /\ ents' = [ents EXCEPT ![t][l].ok = TRUE]
     /\ IF l = 0 THEN Goto(t, "retire") ELSE UNCHANGED pc
  /\ UNCHANGED <<info, waits, count, walk, node, spurious, crashed, call, answer>>

\* A slip: tries again to unlink behind the node found before, without a search.
UnlinkFails_Slip(t) ==
  /\ pc[t] = "unlink"
  /\ LET l == UnlinkLevel(t)  e == ents[t][l] IN
     \/ e.next # node[t] /\ UNCHANGED spurious
     \/ e.next = node[t] /\ Fails(e, l)
  /\ UNCHANGED <<list, pc, local, crashed, call, answer>>

\* Something else was found in front of the node, or has come there since.
UnlinkFails(t) ==
  /\ pc[t] = "unlink"
  /\ LET l == UnlinkLevel(t)  e == ents[t][l] IN
     \/ e.next # node[t] /\ UNCHANGED spurious
     \/ e.next = node[t] /\ Fails(e, l)
  /\ Goto(t, "search_again")
  /\ walk' = [walk EXCEPT ![t] = FromTop(0)]
  /\ UNCHANGED <<list, ents, node, crashed, call, answer>>

UnlinkSearched(t) ==
  /\ pc[t] = "search_again" /\ call[t].op = "remove"
  /\ MetEnough(t) /\ SearchEnds(t)
  /\ Goto(t, "unlink")
  /\ ents' = [ents EXCEPT ![t] = NewEnts(t)]
  /\ walk' = [walk EXCEPT ![t] = NoWalk]
  /\ UNCHANGED <<list, node, spurious, crashed, call, answer>>

\* put_garbage, the count, the end of the pin.
Collected(n, ws) ==
  /\ info' = [info EXCEPT ![n].place = IF @ = "garbage" THEN "freed" ELSE "garbage", ![n].deleted = TRUE]
  /\ waits' = ws

Retire(t) ==
  /\ pc[t] = "retire"
  /\ Collected(node[t], [[n \in Nodes |-> waits[n] \ {t}] EXCEPT ![node[t]] = {u \in Threads \ {t} : InCall(u)}])
  /\ count' = count - 1
  /\ Finish(t)
  /\ UNCHANGED <<cell, answer>>

-----------------------------------------------------------------------------
(* Lookups.  What was found is taken by get_entry_ref, if not deleted.     *)

Candidate(t) ==
  CASE call[t].op = "get" -> NewFound(t)
    [] call[t].op \in {"prev", "last"} -> walk[t].at
    [] OTHER -> Met(t)

TakeEntry(t, n) ==
  \/ n \in {Head, Null} /\ FinishWith(t, walk[t].seen)
  \/ /\ n \notin {Head, Null}
     /\ Goto(t, "entry")
     /\ walk' = [walk EXCEPT ![t] = [NoWalk EXCEPT !.at = n, !.seen = walk[t].seen]]
     /\ UNCHANGED <<list, ents, node, spurious, crashed, call, answer>>

ReadSearched(t) ==
  /\ pc[t] = "search" /\ call[t].op \notin {"insert", "remove"}
  /\ MetEnough(t) /\ SearchEnds(t)
  /\ \/ /\ call[t].op = "contains"
        /\ FinishWith(t, IF NewFound(t) = Null THEN {} ELSE {call[t].key})
     \/ /\ call[t].op = "next" /\ NewFound(t) # Null
        /\ Goto(t, "after")
        /\ walk' = [walk EXCEPT ![t] = [NoWalk EXCEPT !.at = NewFound(t)]]
        /\ UNCHANGED <<list, ents, node, spurious, crashed, call, answer>>
     \/ /\ call[t].op # "contains"
        /\ call[t].op = "next" => NewFound(t) = Null
        /\ TakeEntry(t, Candidate(t))

\* fn_get_next_ptr of the node next_entry found, or iter_with is at.
ReadAfter(t) ==
  /\ pc[t] = "after"
  /\ TakeEntry(t, cell[walk[t].at][0].to)

\* A slip: next_entry and prev_entry take a deleted node for the end of the list.
ReadEntry_Slip(t) ==
  /\ pc[t] = "entry"
  /\ LET n == walk[t].at IN
     \/ /\ call[t].op = "iter"
        /\ Goto(t, "after")
        /\ walk' = [walk EXCEPT ![t].seen = IF info[n].deleted THEN @ ELSE @ \cup {info[n].key}]
        /\ UNCHANGED <<list, ents, node, spurious, crashed, call, answer>>
     \/ /\ call[t].op # "iter"
        /\ FinishWith(t, IF info[n].deleted THEN {} ELSE {info[n].key})

ReadEntry(t) ==
  /\ pc[t] = "entry"
  /\ LET n == walk[t].at IN
     \/ /\ call[t].op = "iter"
        /\ Goto(t, "after")
        /\ walk' = [walk EXCEPT ![t].seen = IF info[n].deleted THEN @ ELSE @ \cup {info[n].key}]
        /\ UNCHANGED <<list, ents, node, spurious, crashed, call, answer>>
     \/ /\ call[t].op \in {"next", "prev"} /\ info[n].deleted
        /\ Goto(t, "search")
        /\ walk' = [walk EXCEPT ![t] = FromTop(0)]
        /\ UNCHANGED <<list, ents, node, spurious, crashed, call, answer>>
     \/ /\ call[t].op \in {"get", "first", "last"} /\ info[n].deleted
        /\ FinishWith(t, {})
     \/ /\ call[t].op # "iter" /\ ~info[n].deleted
        /\ FinishWith(t, {info[n].key})

-----------------------------------------------------------------------------
(* clear_inner.                                                            *)

Clear(t) ==
  /\ role[t] = "clearer"
  /\ \A w \in Threads : call[w].op \in {"insert", "remove"} => ClearOverlaps
  /\ Begin(t, "clear", 0, "heads", FromTop(0))

ClearHeads(t) ==
  /\ pc[t] = "heads" /\ walk[t].level > 0
  /\ cell' = [cell EXCEPT ![Head][walk[t].level] = NoLink]
  /\ walk' = [walk EXCEPT ![t].level = @ - 1]
  /\ UNCHANGED <<info, waits, count, pc, ents, node, spurious, crashed, call, answer>>

\* From here on the keys are gone.
ClearSwap(t) ==
  /\ pc[t] = "heads" /\ walk[t].level = 0
  /\ cell' = [cell EXCEPT ![Head][0] = NoLink]
  /\ info' = [n \in Nodes |-> [info[n] EXCEPT !.place = IF @ = "linked" THEN "cut" ELSE @]]
  /\ Answer(t, {})
  /\ Goto(t, "collect")
  /\ walk' = [walk EXCEPT ![t].at = cell[Head][0].to]
  /\ UNCHANGED <<waits, count, ents, node, spurious, crashed, call>>

ClearCollect(t) ==
  /\ pc[t] = "collect" /\ walk[t].at # Null
  /\ Collected(walk[t].at, [waits EXCEPT ![walk[t].at] = {u \in Threads : InCall(u)}])
  /\ walk' = [walk EXCEPT ![t].at = cell[walk[t].at][0].to]
  /\ UNCHANGED <<cell, count, pc, ents, node, spurious, crashed, call, answer>>

ClearEnds(t) ==
  /\ pc[t] = "collect" /\ walk[t].at = Null
  /\ Finish(t) /\ Unpin(t)
  /\ UNCHANGED <<cell, info, count, answer>>

-----------------------------------------------------------------------------
Insert(t) ==
  \/ InsertSearched(t) \/ InsertCheck(t) \/ Store(t) \/ Link(t) \/ LinkRace(t)
  \/ LinkSearched(t) \/ InsertUnset(t) \/ InsertCount(t)

Remove(t) ==
  \/ RemoveSearched(t) \/ RemoveFlag(t) \/ Mark(t) \/ Unlink(t)
  \/ UnlinkFails(t) \/ UnlinkSearched(t) \/ Retire(t)

Lookup(t) == ReadSearched(t) \/ ReadAfter(t) \/ ReadEntry(t)

ClearAll(t) == ClearHeads(t) \/ ClearSwap(t) \/ ClearCollect(t) \/ ClearEnds(t)

Step(t) ==
  /\ crashed = "no"
  /\ \/ SearchOn(t) \/ SearchDown(t) \/ Insert(t) \/ Remove(t) \/ Lookup(t) \/ ClearAll(t)
  /\ UNCHANGED role
  /\ Promise!Watch

Start ==
  /\ crashed = "no"
  /\ \E t \in Threads : Write(t) \/ Read(t) \/ Clear(t)
  /\ UNCHANGED role
  /\ Promise!Watch

\* The process has ended, or all calls have.
Rest == (crashed # "no" \/ \A t \in Threads : pc[t] = "done") /\ UNCHANGED vars

Next == Start \/ (\E t \in Threads : Step(t)) \/ Rest

Spec == Init /\ [][Next]_vars

FairSpec == Spec /\ \A t \in Threads : WF_vars(Step(t))

-----------------------------------------------------------------------------
(* Properties.                                                             *)

\* The nodes on level l.
OnLevel(l) ==
  LET reach[i \in 0 .. Cardinality(Nodes)] ==
        IF i = 0 THEN {cell[Head][l].to}
        ELSE reach[i - 1] \cup {cell[n][l].to : n \in reach[i - 1] \ {Null}}
  IN  reach[Cardinality(Nodes)] \ {Null}

\* "Use store() instead CAS has no problem since this level of node being insterted
\* is not linked so no others can change its next at this level."
\* (src/skiplist/map/lockfree.rs:975): a node is unlinked where it is linked to.
\* The keys on a level ascend, and nothing reached from the heads was never linked
\* or is already garbage.
LevelsSorted ==
  \A l \in Levels : \A n \in OnLevel(l) :
    /\ cell[n][l].to # Null => info[n].key < info[cell[n][l].to].key
    /\ info[n].place = "linked" /\ info[n].height > l

\* A node that is not being removed stays on every level that its insertion is
\* done with.
LevelsComplete ==
  (\A c \in Threads : pc[c] # "heads") =>
    \A n \in Nodes, l \in Levels :
      (/\ info[n].place = "linked" /\ ~info[n].deleted
       /\ l < info[n].height /\ (l = 0 \/ ~info[n].linking)) => n \in OnLevel(l)

\* The list stays a skip list under insertions and removals that link and unlink
\* level by level, as long as it has at most two levels.
LinksSound == crashed = "no" => LevelsSorted /\ LevelsComplete

\* Nodes a thread may dereference in its next steps.
Handled(t) ==
  {walk[t].at, walk[t].found, node[t]}
  \cup (IF pc[t] \in {"link", "exchange", "unlink"} THEN {ents[t][l].prec : l \in Undone(ents[t], node[t])} ELSE {})
  \cup (IF pc[t] = "exchange" THEN {cell[ents[t][walk[t].level].prec][walk[t].level].to} ELSE {})

\* A node that was put into the garbage is freed when its epoch is over; no call
\* holds the address of one, be it from a search, as a predecessor it will link
\* or unlink at, or as its own node (remove and clear retire what they unlinked).
NoUseAfterFree ==
  \A t \in Threads : InCall(t) => \A n \in Handled(t) \ {Null, Head} : ~Freed(n)

\* "It's designed to be used in concurrent mode" (src/skiplist/map/lockfree.rs:1):
\* insertions and removals that race do not take the process down.  link_nodes
\* takes the node that a failed exchange found for a node without looking.
NoNullDereference == crashed # "null"

\* "This is detected on linking its level 0." (src/skiplist/map/lockfree.rs:952): an
\* insertion that gives up its node, since there is another with the key, frees one
\* that nothing links to.
NoLinkedFreed == crashed # "freed"

\* When no call is in progress, len is the number of keys that can be found,
\* although the node is linked and counted in two steps.
LenCounts ==
  (\A t \in Threads : ~InCall(t)) => count = Cardinality(Present)

\* insert, remove, the lookups, the iteration and clear keep the promise of
\* ConcurrentSet: each takes effect once and between its call and its return.
ImplementsSet == Promise!SetSpec

\* The loops that retry after a lost race end: every call returns when each
\* thread goes on taking its steps.
CallsReturn == \A t \in Threads : InCall(t) ~> (crashed # "no" \/ ~InCall(t))
=============================================================================
