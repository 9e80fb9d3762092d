----------------------------- MODULE ConcurrentSet -----------------------------
(***************************************************************************)
(* What a concurrent sorted map promises of its keys: a call takes effect  *)
(* in one step between its invocation and its return, and what it answers  *)
(* is what an atomic call would have answered at some moment in between.   *)
(*                                                                         *)
(* An answer is the set of the keys found: the key removed, the key that   *)
(* was there already, the next key; the empty set if there was none.       *)
(* Three kinds of call promise less.  An iteration finds at least the keys *)
(* that are there all the time, and none that never was.  contains_key may *)
(* take a key for present, and first_entry and last_entry the map for      *)
(* empty, while a removal that took effect has not returned.               *)
(***************************************************************************)
EXTENDS Integers

CONSTANTS Threads, Keys

VARIABLES
  keys,       \* the keys in the map
  call,       \* the operation and the key of each thread's call
  moments,    \* what the map has been like since the call began
  answer      \* nothing, or the singleton of the answer, once it is decided

setVars == <<keys, call, moments, answer>>

\* Keys a call may name, among them one before all others and one behind them.
Probes == Keys \cup {k - 1 : k \in Keys} \cup {k + 1 : k \in Keys}

NoCall == [op |-> "none", key |-> 0]
Updates == {"insert", "remove", "clear"}
Lookups == {"get", "contains", "next", "prev", "first", "last"}

SetInit ==
  /\ keys \in SUBSET Keys
  /\ call = [t \in Threads |-> NoCall]
  /\ moments = [t \in Threads |-> {}]
  /\ answer = [t \in Threads |-> {}]

LeastOf(S) == {j \in S : \A i \in S : j <= i}
GreatestOf(S) == {j \in S : \A i \in S : i <= j}

\* What an atomic call for key k finds when the keys are S.
View(op, k, S) ==
  CASE op = "next" -> LeastOf({j \in S : j > k})
    [] op = "prev" -> GreatestOf({j \in S : j < k})
    [] op = "first" -> LeastOf(S)
    [] op = "last" -> GreatestOf(S)
    [] OTHER -> S \cap {k}

\* What a call may answer that sees the map at moment m only.
MayAnswer(op, k, m) ==
  CASE op = "insert" -> {{k}} \cap {m.sure \cap {k}}
    [] op = "remove" -> {{}} \cap {m.sure \cap {k}}
    [] op = "contains" -> {m.sure \cap {k}, m.maybe \cap {k}}
    [] op \in {"first", "last"} ->
         {View(op, k, m.sure)} \cup (IF m.maybe # m.sure THEN {{}} ELSE {})
    [] op \in {"get", "next", "prev"} -> {View(op, k, m.sure)}
    [] OTHER -> {}

Busy(c) == c.op # "none"

\* The keys of removals that took effect and have not returned.
Going(cs, as) == {cs[t].key : t \in {u \in Threads : cs[u].op = "remove" /\ as[u] \notin {{}, {{}}}}}

\* Every step leaves the map in a moment that all calls in progress go through.
Moment(K, cs, as) == [sure |-> K, maybe |-> K \cup Going(cs, as)]

Watch ==
  moments' = [t \in Threads |->
               IF Busy(call'[t]) THEN moments[t] \cup {Moment(keys', call', answer')} ELSE {}]

Invoke(t, c) ==
  /\ ~Busy(call[t]) /\ Busy(c)
  /\ call' = [call EXCEPT ![t] = c]
  /\ answer' = [answer EXCEPT ![t] = {}]
  /\ UNCHANGED keys

\* An update takes effect: it changes the keys, and that decides its answer.
Effect(t) ==
  /\ answer[t] = {}
  /\ LET k == call[t].key IN
     \/ /\ call[t].op = "insert" /\ k \notin keys
        /\ keys' = keys \cup {k}
        /\ answer' = [answer EXCEPT ![t] = {{}}]
     \/ /\ call[t].op = "remove" /\ k \in keys
        /\ keys' = keys \ {k}
        /\ answer' = [answer EXCEPT ![t] = {{k}}]
     \/ /\ call[t].op = "clear"
        /\ keys' = {}
        /\ answer' = [answer EXCEPT ![t] = {{}}]
  /\ UNCHANGED call

Finds(t, a) ==
  LET op == call[t].op IN
  \/ \E m \in moments[t] : a \in MayAnswer(op, call[t].key, m)
  \/ /\ op = "iter"
     /\ \A j \in Keys : (\A m \in moments[t] : j \in m.sure) => j \in a
     /\ \A j \in a : \E m \in moments[t] : j \in m.sure

\* The call returns what its effect decided or what it could find.
Return(t) ==
  /\ Busy(call[t])
  /\ call' = [call EXCEPT ![t] = NoCall]
  /\ \/ answer[t] # {} /\ UNCHANGED answer
     \/ /\ answer[t] = {}
        /\ \E a \in SUBSET Keys : Finds(t, a) /\ answer' = [answer EXCEPT ![t] = {a}]
  /\ UNCHANGED keys

SetNext ==
  /\ \E t \in Threads :
       \/ \E op \in Updates \cup Lookups \cup {"iter"}, k \in Probes :
            Invoke(t, [op |-> op, key |-> k])
       \/ Effect(t)
       \/ Return(t)
  /\ Watch

SetSpec == SetInit /\ [][SetNext]_setVars
=============================================================================
