---------------------------- MODULE LocalStorage ----------------------------
(***************************************************************************)
(* The persistent local storage of one node as its offchain workers use    *)
(* it: storage.rs, fetch_errand_result_info of task.rs and                 *)
(* load_tasks_results_info of lib.rs (under src/pallets/abc-demo/src/).    *)
(* The node starts a worker for every block it imports and does not wait   *)
(* for the previous one, so several run at a time.  They share a list of   *)
(* fetched results, guarded by a lock that is itself a stored value.       *)
(*                                                                         *)
(* One action is one call to the host's storage: get, set and              *)
(* compare-and-set are atomic, nothing else is.                            *)
(***************************************************************************)
EXTENDS Naturals, Sequences, FiniteSets

CONSTANTS
    Workers,        \* offchain workers of the node
    Results,        \* (cid, result) pairs fetched from delegates
    Drain,          \* the job of submitting all stored results
    MayCrash,       \* TRUE: the node may stop at any time and start again
    MaxFetched      \* bound: how often each result is fetched

ASSUME LocalStorageAssumption ==
    /\ Drain \notin Results
    /\ MayCrash \in BOOLEAN
    /\ MaxFetched \in Nat

VARIABLES
    lock,           \* value of LOCAL_STORAGE_TASKS_RESULTS_LOCK
    value,          \* value of LOCAL_STORAGE_TASKS_RESULTS_KEY, <<>> if unset
    pc,             \* worker -> the host call it makes next
    job,            \* worker -> the result it stores, or Drain
    seen,           \* worker -> lock value read by `mutate`
    results,        \* worker -> its copy of the list: what is left of it
    submitted,      \* results passed to update_single_errand, in order
    fetched         \* result -> how often it has been fetched

vars == <<lock, value, pc, job, seen, results, submitted, fetched>>

\* `None`, `Some(Some(false))` and `Some(Some(true))`.
LockValues == {"none", "free", "held"}

\* Host calls made under the lock.
Critical == {"get", "set", "send", "unlock"}

TypeOK ==
    /\ lock \in LockValues
    /\ value \in Seq(Results)
    /\ pc \in [Workers -> {"idle", "read", "cas"} \cup Critical]
    /\ job \in [Workers -> Results \cup {Drain}]
    /\ seen \in [Workers -> LockValues]
    /\ results \in [Workers -> Seq(Results)]
    /\ submitted \in Seq(Results)
    /\ fetched \in [Results -> 0 .. MaxFetched]

Init ==
    /\ lock = "none"
    /\ value = <<>>
    /\ pc = [w \in Workers |-> "idle"]
    /\ job = [w \in Workers |-> Drain]
    /\ seen = [w \in Workers |-> "none"]
    /\ results = [w \in Workers |-> <<>>]
    /\ submitted = <<>>
    /\ fetched = [r \in Results |-> 0]

goto(w, l) == pc' = [pc EXCEPT ![w] = l]

-----------------------------------------------------------------------------
(* A worker calls one of the two operations.                               *)

\* fetch_errand_result_info: a completed result has come back over HTTP.
fetch_errand_result_info(w, r) ==
    /\ pc[w] = "idle"
    /\ fetched[r] < MaxFetched
    /\ fetched' = [fetched EXCEPT ![r] = @ + 1]
    /\ job' = [job EXCEPT ![w] = r]
    /\ goto(w, "read")
    /\ UNCHANGED <<lock, value, seen, results, submitted>>

\* load_tasks_results_info, at the end of every block's worker.
load_tasks_results_info(w) ==
    /\ pc[w] = "idle"
    /\ job' = [job EXCEPT ![w] = Drain]
    /\ goto(w, "read")
    /\ UNCHANGED <<lock, value, seen, results, submitted, fetched>>

-----------------------------------------------------------------------------
(* lock.mutate: read, decide, compare-and-set.                             *)

\* The closure's answer: `None | Some(Some(false))` may be taken.
may_take(s) == s \in {"none", "free"}

\* Seeded fault: the closure takes a lock whatever its value.
read_lock_any(w) ==
    /\ pc[w] = "read"
    /\ seen' = [seen EXCEPT ![w] = lock]
    /\ goto(w, "cas")
    /\ UNCHANGED <<lock, value, job, results, submitted, fetched>>

\* A lock that is held is an error, and the operation is given up.
read_lock(w) ==
    /\ pc[w] = "read"
    /\ seen' = [seen EXCEPT ![w] = lock]
    /\ goto(w, IF may_take(lock) THEN "cas" ELSE "idle")
    /\ UNCHANGED <<lock, value, job, results, submitted, fetched>>

unchanged_since_read(w) == lock = seen[w]

acquire(w) ==
    /\ pc[w] = "cas"
    /\ unchanged_since_read(w)
    /\ lock' = "held"
    /\ goto(w, "get")
    /\ UNCHANGED <<value, job, seen, results, submitted, fetched>>

\* Seeded fault: the inner of the two results of `mutate` is not looked at.
lose_race_ignored(w) ==
    /\ pc[w] = "cas"
    /\ ~unchanged_since_read(w)
    /\ goto(w, "get")
    /\ UNCHANGED <<lock, value, job, seen, results, submitted, fetched>>

\* Another worker has set the lock meanwhile: the operation is given up.
lose_race(w) ==
    /\ pc[w] = "cas"
    /\ ~unchanged_since_read(w)
    /\ goto(w, "idle")
    /\ UNCHANGED <<lock, value, job, seen, results, submitted, fetched>>

-----------------------------------------------------------------------------
(* The work under the lock, and its release.                               *)

\* Seeded fault: a list the worker has got before is not read again.
get_results_cached(w) ==
    /\ pc[w] = "get"
    /\ UNCHANGED results
    /\ goto(w, IF job[w] = Drain THEN "send" ELSE "set")
    /\ UNCHANGED <<lock, value, job, seen, submitted, fetched>>

\* The stored list is copied into the worker.
get_results(w) ==
    /\ pc[w] = "get"
    /\ results' = [results EXCEPT ![w] = value]
    /\ goto(w, IF job[w] = Drain THEN "send" ELSE "set")
    /\ UNCHANGED <<lock, value, job, seen, submitted, fetched>>

\* The copy with the new result is written back.
push_result(w) ==
    /\ pc[w] = "set"
    /\ value' = Append(results[w], job[w])
    /\ goto(w, "unlock")
    /\ UNCHANGED <<lock, job, seen, results, submitted, fetched>>

\* One turn of the loop over the copy.  A transaction the pool refuses is
\* only logged, so the loop goes on.
update_single_errand(w) ==
    /\ pc[w] = "send"
    /\ results[w] # <<>>
    /\ submitted' = Append(submitted, Head(results[w]))
    /\ results' = [results EXCEPT ![w] = Tail(@)]
    /\ UNCHANGED <<lock, value, pc, job, seen, fetched>>

\* Seeded fault: the list is not emptied once its results are submitted.
clear_results_skipped(w) ==
    /\ pc[w] = "send"
    /\ results[w] = <<>>
    /\ goto(w, "unlock")
    /\ UNCHANGED <<lock, value, job, seen, results, submitted, fetched>>

\* The loop is over: the stored list is replaced by the empty one.
clear_results(w) ==
    /\ pc[w] = "send"
    /\ results[w] = <<>>
    /\ value' = <<>>
    /\ goto(w, "unlock")
    /\ UNCHANGED <<lock, job, seen, results, submitted, fetched>>

\* Seeded fault: an empty list is returned early, with the lock held.
unlock_unless_empty(w) ==
    /\ pc[w] = "unlock"
    /\ lock' = IF value = <<>> THEN lock ELSE "free"
    /\ goto(w, "idle")
    /\ results' = [results EXCEPT ![w] = <<>>]
    /\ UNCHANGED <<value, job, seen, submitted, fetched>>

\* lock.set(&false), and the end of the operation.
unlock(w) ==
    /\ pc[w] = "unlock"
    /\ lock' = "free"
    /\ goto(w, "idle")
    /\ results' = [results EXCEPT ![w] = <<>>]
    /\ UNCHANGED <<value, job, seen, submitted, fetched>>

-----------------------------------------------------------------------------
\* The node stops and starts again: every worker is gone, the persistent
\* storage stays as it is.
crash ==
    /\ MayCrash
    /\ pc' = [w \in Workers |-> "idle"]
    /\ results' = [w \in Workers |-> <<>>]
    /\ UNCHANGED <<lock, value, job, seen, submitted, fetched>>

step(w) ==
    \/ read_lock(w)
    \/ acquire(w)
    \/ lose_race(w)
    \/ get_results(w)
    \/ push_result(w)
    \/ update_single_errand(w)
    \/ clear_results(w)
    \/ unlock(w)

Next ==
    \/ \E w \in Workers :
         \/ step(w)
         \/ load_tasks_results_info(w)
         \/ \E r \in Results : fetch_errand_result_info(w, r)
    \/ crash

Spec == Init /\ [][Next]_vars

\* Each worker is a thread of the node: one in the middle of an operation is
\* scheduled again.  Nothing makes a worker start an operation.
FairSpec == Spec /\ \A w \in Workers : WF_vars(step(w))

-----------------------------------------------------------------------------
(* Properties.                                                             *)

\* Two workers never work on the stored list at the same time, although the
\* lock is taken in two host calls (operate_local_storage).
MutualExclusion ==
    \A v, w \in Workers :
        pc[v] \in Critical /\ pc[w] \in Critical => v = w

\* The lock is marked held only while a worker works under it, as the
\* comments on its values say (storage.rs and load_tasks_results_info): no
\* path through the two operations leaves it behind.
HeldHasHolder == lock = "held" => \E w \in Workers : pc[w] \in Critical

occurrences(s, r) == Cardinality({i \in DOMAIN s : s[i] = r})

\* A result is submitted no more often than it was fetched, restarts of the
\* node included: a drain cut short between submitting and emptying the list
\* is never repeated, because it leaves the lock held
\* (load_tasks_results_info).
SubmittedAtMostOnce ==
    \A r \in Results : occurrences(submitted, r) <= fetched[r]

\* As long as the node runs, a lock that is held is given back.
LockReleased == lock = "held" ~> lock # "held"

\* The workers' view of the queue: what a worker has yet to submit while one
\* submits, the stored list otherwise.
queue ==
    IF \E w \in Workers : pc[w] = "send"
      THEN results[CHOOSE w \in Workers : pc[w] = "send"]
      ELSE value

Abstract == INSTANCE ResultQueue

\* The stored list under its lock is a queue (ResultQueue): no fetched result
\* that was stored is lost, overwritten by a concurrent store, submitted
\* twice or out of order.
ImplementsQueue == Abstract!Spec

-----------------------------------------------------------------------------
(* The inductive strengthening for LocalStorageProofs.                     *)

\* Whoever works under the lock holds it, and a compare-and-set is only
\* tried against a value that may be taken.
LockInv ==
    /\ TypeOK
    /\ MutualExclusion
    /\ \A w \in Workers :
         /\ pc[w] \in Critical => lock = "held"
         /\ pc[w] = "cas" => may_take(seen[w])
         /\ pc[w] = "set" => results[w] = value /\ job[w] # Drain
         /\ pc[w] = "send" => job[w] = Drain

\* Workers that have fetched r and not stored it yet.
storing(r) ==
    {w \in Workers : job[w] = r /\ pc[w] \in {"read", "cas", "get", "set"}}

\* The results that may still be submitted.  A lock left behind by a crash
\* is never taken again, and what is stored under it is out of reach.
reachable == IF HeldHasHolder THEN queue ELSE <<>>

\* Every time a result was fetched is accounted for at most once: it has been
\* submitted, can be, or is about to be stored.
CountInv ==
    \A r \in Results :
        /\ IsFiniteSet(storing(r))
        /\ occurrences(submitted, r) + occurrences(reachable, r)
             + Cardinality(storing(r)) <= fetched[r]

=============================================================================
