------------------------------ MODULE OrderedMap ------------------------------
(***************************************************************************)
(* What a sorted map with an entry API promises: a dictionary, its least   *)
(* and its greatest key, and a view of one entry at a time through which   *)
(* that entry, and no other, is changed.                                   *)
(***************************************************************************)
EXTENDS Integers

CONSTANTS Keys, Values, None

VARIABLES
  dict,      \* the value of each key, None if it has none
  view,      \* the key that the entry in the caller's hands is for, None if none
  ret        \* what the latest operation returned

mapVars == <<dict, view, ret>>

Present == {k \in Keys : dict[k] # None}

MapInit ==
  /\ dict = [k \in Keys |-> None]
  /\ view = None
  /\ ret = None

Put(k, v) ==
  /\ view = None
  /\ ret' = dict[k]
  /\ dict' = [dict EXCEPT ![k] = v]
  /\ UNCHANGED view

Delete(k) ==
  /\ view = None
  /\ ret' = IF k \in Present THEN <<k, dict[k]>> ELSE None
  /\ dict' = [dict EXCEPT ![k] = None]
  /\ UNCHANGED view

DeleteAll ==
  /\ view = None
  /\ dict' = [k \in Keys |-> None]
  /\ ret' = None
  /\ UNCHANGED view

\* The entry of any key, of the least or of the greatest one.
View(k) == view = None /\ view' = k /\ ret' = None /\ UNCHANGED dict

ViewLeast == \E k \in Present : (\A j \in Present : k <= j) /\ View(k)
ViewGreatest == \E k \in Present : (\A j \in Present : k >= j) /\ View(k)

PutThrough(v) ==
  /\ view # None
  /\ ret' = dict[view]
  /\ dict' = [dict EXCEPT ![view] = v]
  /\ UNCHANGED view

DeleteThrough ==
  /\ view \in Present
  /\ ret' = <<view, dict[view]>>
  /\ dict' = [dict EXCEPT ![view] = None]
  /\ view' = None

LeaveView == view' = None /\ ret' = None /\ UNCHANGED dict

MapNext ==
  \/ \E k \in Keys : Delete(k) \/ View(k) \/ \E v \in Values : Put(k, v)
  \/ \E v \in Values : PutThrough(v)
  \/ DeleteAll \/ ViewLeast \/ ViewGreatest \/ DeleteThrough \/ LeaveView

MapSpec == MapInit /\ [][MapNext]_mapVars
=============================================================================
