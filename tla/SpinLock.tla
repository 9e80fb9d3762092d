------------------------------- MODULE SpinLock -------------------------------
(***************************************************************************)
(* SpinLock<T> of src/sync/spinlock.rs: one word, taken by a weak          *)
(* compare-and-exchange and released by a store, around a value that the   *)
(* guard reads and writes without any atomic access.  Each thread calls    *)
(* lock or try_lock, does `*guard += 1` as a read and a write, and drops   *)
(* the guard.                                                              *)
(***************************************************************************)
EXTENDS Integers

CONSTANTS
  LockUsers,      \* threads that share the lock
  Retries,        \* values of retry_cnt given to try_lock
  UsizeMax,       \* the largest usize
  MaxLocks        \* bound: calls of lock and try_lock by one thread

ASSUME LockAssumption ==
  /\ UsizeMax \in Nat
  /\ MaxLocks \in Nat
  \* With retry_cnt = usize::MAX the counter of try_lock overflows before it
  \* exceeds retry_cnt; such calls are left out.
  /\ Retries \subseteq 0 .. UsizeMax - 1

VARIABLES
  locked,         \* the atomic word: 0 (FALSE) or 1 (TRUE)
  value,          \* the protected value
  at,             \* where each thread is
  retry,          \* the loop counter of try_lock
  retry_cnt,      \* its argument
  copy,           \* the value a thread read through its guard
  left,           \* calls left to each thread
  updates,        \* history: additions made so far
  tries           \* history: attempts of the current try_lock

lock_vars == <<locked, value, at, retry, retry_cnt, copy, left, updates, tries>>

\* The guard is alive in these states: just acquired, value read, value written.
HasGuard == {"acquired", "read", "written"}
LockLabels == {"idle", "lock", "try_lock"} \cup HasGuard

Holders == {t \in LockUsers : at[t] \in HasGuard}

LockTypeOK ==
  /\ locked \in {0, 1}
  /\ value \in Nat
  /\ at \in [LockUsers -> LockLabels]
  /\ retry \in [LockUsers -> 0 .. UsizeMax]
  /\ retry_cnt \in [LockUsers -> 0 .. UsizeMax]
  /\ copy \in [LockUsers -> Nat]
  /\ left \in [LockUsers -> 0 .. MaxLocks]
  /\ updates \in Nat
  /\ tries \in [LockUsers -> Nat]

LockInit ==
  /\ locked = 0
  /\ value = 0
  /\ at = [t \in LockUsers |-> "idle"]
  /\ retry = [t \in LockUsers |-> 0]
  /\ retry_cnt = [t \in LockUsers |-> 0]
  /\ copy = [t \in LockUsers |-> 0]
  /\ left = [t \in LockUsers |-> MaxLocks]
  /\ updates = 0
  /\ tries = [t \in LockUsers |-> 0]

MovesTo(t, l) == at' = [at EXCEPT ![t] = l]

Calls(t, l) ==
  /\ at[t] = "idle"
  /\ left[t] > 0
  /\ left' = [left EXCEPT ![t] = @ - 1]
  /\ MovesTo(t, l)
  /\ tries' = [tries EXCEPT ![t] = 0]
  /\ retry' = [retry EXCEPT ![t] = 0]
  /\ UNCHANGED <<locked, value, copy, updates>>

Lock(t) == Calls(t, "lock") /\ UNCHANGED retry_cnt

TryLock(t) ==
  \E n \in Retries : Calls(t, "try_lock") /\ retry_cnt' = [retry_cnt EXCEPT ![t] = n]

-----------------------------------------------------------------------------
(* Versions with a slip, for checking that the properties notice.          *)

\* A test of the word and a later store, in place of the exchange.
Acquire_NoTest(t) ==
  /\ at[t] \in {"lock", "try_lock"}
  /\ locked' = 1
  /\ tries' = [tries EXCEPT ![t] = @ + 1]
  /\ MovesTo(t, "acquired")
  /\ UNCHANGED <<value, retry, retry_cnt, copy, left, updates>>

\* The guard is released before the value is written back.
Read_Unlocks(t) ==
  /\ at[t] = "acquired"
  /\ copy' = [copy EXCEPT ![t] = value]
  /\ locked' = 0
  /\ MovesTo(t, "read")
  /\ UNCHANGED <<value, retry, retry_cnt, left, updates, tries>>

\* A guard that is forgotten does not release the lock.
Drop_Leaks(t) ==
  /\ at[t] = "written"
  /\ MovesTo(t, "idle")
  /\ UNCHANGED <<locked, value, retry, retry_cnt, copy, left, updates, tries>>

-----------------------------------------------------------------------------
\* compare_exchange_weak succeeds.
Acquire(t) ==
  /\ at[t] \in {"lock", "try_lock"}
  /\ locked = 0
  /\ locked' = 1
  /\ tries' = [tries EXCEPT ![t] = @ + 1]
  /\ MovesTo(t, "acquired")
  /\ UNCHANGED <<value, retry, retry_cnt, copy, left, updates>>

\* compare_exchange_weak fails: the word is 1, or it fails spuriously.  In
\* lock the thread spins and nothing changes, so only try_lock has an action.
TryFails(t) ==
  /\ at[t] = "try_lock"
  /\ retry' = [retry EXCEPT ![t] = @ + 1]
  /\ tries' = [tries EXCEPT ![t] = @ + 1]
  /\ MovesTo(t, IF retry[t] + 1 <= retry_cnt[t] THEN "try_lock" ELSE "idle")
  /\ UNCHANGED <<locked, value, retry_cnt, copy, left, updates>>

\* `*guard` is read.
Read(t) ==
  /\ at[t] = "acquired"
  /\ copy' = [copy EXCEPT ![t] = value]
  /\ MovesTo(t, "read")
  /\ UNCHANGED <<locked, value, retry, retry_cnt, left, updates, tries>>

\* `*guard` is written.
Write(t) ==
  /\ at[t] = "read"
  /\ value' = copy[t] + 1
  /\ updates' = updates + 1
  /\ MovesTo(t, "written")
  /\ UNCHANGED <<locked, retry, retry_cnt, copy, left, tries>>

\* The guard is dropped, after a write or without one.
Drop(t) ==
  /\ at[t] \in HasGuard
  /\ locked' = 0
  /\ MovesTo(t, "idle")
  /\ UNCHANGED <<value, retry, retry_cnt, copy, left, updates, tries>>

Step(t) ==
  \/ Lock(t) \/ TryLock(t)
  \/ Acquire(t) \/ TryFails(t)
  \/ Read(t) \/ Write(t) \/ Drop(t)

LockNext == \E t \in LockUsers : Step(t)

LockSpec == LockInit /\ [][LockNext]_lock_vars

\* The scheduler runs every thread, guards are dropped, and a free lock that is
\* tried again and again is acquired by someone: nothing is promised to one
\* particular thread, for the lock keeps no queue.
LockFairness ==
  /\ WF_lock_vars(\E t \in LockUsers : Acquire(t))
  /\ \A t \in LockUsers : WF_lock_vars(TryFails(t) \/ Drop(t))

LockFairSpec == LockSpec /\ LockFairness

-----------------------------------------------------------------------------
\* At most one thread has a guard, and while it has one the word is 1.
MutualExclusion ==
  /\ \A t, u \in Holders : t = u
  /\ Holders # {} => locked = 1

\* No addition is lost, although each is a read and a later write: the final
\* assertion of the multithreaded tests, at every moment.
NoLostUpdate == value = updates

\* try_lock gives up after exactly retry_cnt + 1 attempts, never earlier, and
\* acquires within as many.
TryBound ==
  [][\A t \in LockUsers : at[t] = "try_lock" /\ at'[t] # "try_lock" =>
       IF at'[t] = "idle" THEN tries'[t] = retry_cnt[t] + 1
                          ELSE tries'[t] <= retry_cnt[t] + 1]_lock_vars

\* Whenever a thread waits in lock and nobody has a guard, someone gets one.
\* This is all the lock promises: the one that gets it may be another thread.
WaitersGoOn ==
  ((\E t \in LockUsers : at[t] = "lock") /\ Holders = {}) ~> (Holders # {})

-----------------------------------------------------------------------------
\* The inductive invariant behind the safety properties.
LockInv ==
  /\ LockTypeOK
  /\ \A t, u \in Holders : t = u
  /\ locked = 1 <=> Holders # {}
  /\ \A t \in LockUsers : at[t] = "read" => copy[t] = value
  /\ \A t \in LockUsers : at[t] = "try_lock" =>
       retry[t] <= retry_cnt[t] /\ tries[t] = retry[t] /\ retry_cnt[t] \in Retries
  /\ NoLostUpdate
=============================================================================
