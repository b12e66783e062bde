------------------------- MODULE LocalStorageProofs -------------------------
(***************************************************************************)
(* Proofs about LocalStorage for any set of workers and results.  With or  *)
(* without crashes: mutual exclusion, and no result is submitted more      *)
(* often than it was fetched.  Without crashes: the lock always has its    *)
(* holder and the list is a queue.                                         *)
(***************************************************************************)
EXTENDS LocalStorage, FiniteSetTheorems, TLAPS

LEMMA LockInit == Init => LockInv
BY LocalStorageAssumption
   DEF Init, LockInv, TypeOK, MutualExclusion, LockValues, Critical

LEMMA TypeStep == LockInv /\ [Next]_vars => TypeOK'
<1> SUFFICES ASSUME LockInv, [Next]_vars PROVE TypeOK'
  OBVIOUS
<1>0. TypeOK
  BY DEF LockInv
<1> USE LocalStorageAssumption DEF TypeOK, LockValues, Critical, goto
<1>1. ASSUME NEW w \in Workers, NEW r \in Results,
             fetch_errand_result_info(w, r)
      PROVE  TypeOK'
  BY <1>0, <1>1 DEF fetch_errand_result_info
<1>2. ASSUME NEW w \in Workers, load_tasks_results_info(w) PROVE TypeOK'
  BY <1>0, <1>2 DEF load_tasks_results_info
<1>3. ASSUME NEW w \in Workers, read_lock(w) PROVE TypeOK'
  BY <1>0, <1>3 DEF read_lock
<1>4. ASSUME NEW w \in Workers, acquire(w) \/ lose_race(w) PROVE TypeOK'
  BY <1>0, <1>4 DEF acquire, lose_race
<1>5. ASSUME NEW w \in Workers, get_results(w) PROVE TypeOK'
  BY <1>0, <1>5 DEF get_results
<1>6. ASSUME NEW w \in Workers, push_result(w) PROVE TypeOK'
  <2>1. job[w] \in Results
    BY <1>0, <1>6 DEF LockInv, push_result
  <2>2. QED BY <1>0, <1>6, <2>1 DEF push_result
<1>7. ASSUME NEW w \in Workers, update_single_errand(w) PROVE TypeOK'
  BY <1>0, <1>7 DEF update_single_errand
<1>8. ASSUME NEW w \in Workers, clear_results(w) PROVE TypeOK'
  BY <1>0, <1>8 DEF clear_results
<1>9. ASSUME NEW w \in Workers, unlock(w) PROVE TypeOK'
  BY <1>0, <1>9 DEF unlock
<1>10. CASE crash
  BY <1>0, <1>10 DEF crash
<1>11. CASE UNCHANGED vars
  BY <1>0, <1>11 DEF vars
<1>12. QED
  BY <1>1, <1>2, <1>3, <1>4, <1>5, <1>6, <1>7, <1>8, <1>9, <1>10, <1>11
     DEF Next, step

\* A step of one worker leaves the control state of the others alone.
LEMMA LockStep == LockInv /\ [Next]_vars => LockInv'
<1> SUFFICES ASSUME LockInv, [Next]_vars PROVE LockInv'
  OBVIOUS
<1>0. TypeOK /\ TypeOK'
  BY TypeStep DEF LockInv
<1> USE DEF LockInv, MutualExclusion, Critical, goto, may_take
<1>1. ASSUME NEW w \in Workers, NEW r \in Results,
             fetch_errand_result_info(w, r)
      PROVE  LockInv'
  BY <1>0, <1>1 DEF fetch_errand_result_info, TypeOK
<1>2. ASSUME NEW w \in Workers, load_tasks_results_info(w) PROVE LockInv'
  BY <1>0, <1>2 DEF load_tasks_results_info, TypeOK
<1>3. ASSUME NEW w \in Workers, read_lock(w) PROVE LockInv'
  BY <1>0, <1>3 DEF read_lock, TypeOK
<1>4. ASSUME NEW w \in Workers, acquire(w) PROVE LockInv'
  <2>1. lock \in {"none", "free"} /\ \A v \in Workers : pc[v] \notin Critical
    BY <1>4 DEF acquire, unchanged_since_read
  <2>2. QED BY <1>0, <1>4, <2>1 DEF acquire, TypeOK
<1>5. ASSUME NEW w \in Workers, lose_race(w) PROVE LockInv'
  BY <1>0, <1>5 DEF lose_race, TypeOK
<1>6. ASSUME NEW w \in Workers, get_results(w) PROVE LockInv'
  BY <1>0, <1>6 DEF get_results, TypeOK
<1>7. ASSUME NEW w \in Workers, push_result(w) PROVE LockInv'
  BY <1>0, <1>7 DEF push_result, TypeOK
<1>8. ASSUME NEW w \in Workers, update_single_errand(w) PROVE LockInv'
  BY <1>0, <1>8 DEF update_single_errand, TypeOK
<1>9. ASSUME NEW w \in Workers, clear_results(w) PROVE LockInv'
  BY <1>0, <1>9 DEF clear_results, TypeOK
<1>10. ASSUME NEW w \in Workers, unlock(w) PROVE LockInv'
  BY <1>0, <1>10 DEF unlock, TypeOK
<1>11. CASE crash
  BY <1>0, <1>11 DEF crash
<1>12. CASE UNCHANGED vars
  BY <1>0, <1>12 DEF vars
<1>13. QED
  BY <1>1, <1>2, <1>3, <1>4, <1>5, <1>6, <1>7, <1>8, <1>9, <1>10, <1>11,
     <1>12
     DEF Next, step

\* LockInv is an inductive invariant, whether or not the node may crash.
THEOREM LockInvariant == Spec => []LockInv
BY LockInit, LockStep, PTL DEF Spec

\* No two workers are ever in the critical section (MutualExclusion), crashes
\* included: taking the lock by compare-and-set is enough.
THEOREM Exclusion == Spec => []MutualExclusion
<1>1. LockInv => MutualExclusion
  BY DEF LockInv
<1>2. QED BY <1>1, LockInvariant, PTL

\* While the node runs, the lock is never left held without a holder
\* (HeldHasHolder).
THEOREM NoLockIsLeft ==
    ASSUME ~MayCrash
    PROVE  Spec => []HeldHasHolder
<1>1. Init => HeldHasHolder
  BY DEF Init, HeldHasHolder
<1>2. LockInv /\ HeldHasHolder /\ [Next]_vars => HeldHasHolder'
  <2> SUFFICES ASSUME LockInv, HeldHasHolder, [Next]_vars
               PROVE  HeldHasHolder'
    OBVIOUS
  <2>0. /\ pc \in [Workers -> {"idle", "read", "cas"} \cup Critical]
        /\ \A v, w \in Workers :
             pc[v] \in Critical /\ pc[w] \in Critical => v = w
    BY DEF LockInv, TypeOK, MutualExclusion
  <2> USE DEF HeldHasHolder, Critical, goto
  <2>1. ASSUME NEW w \in Workers, NEW l, lock' = lock, pc[w] \notin Critical,
               pc' = [pc EXCEPT ![w] = l]
        PROVE  HeldHasHolder'
    BY <2>0, <2>1
  <2>2. ASSUME NEW w \in Workers, NEW l \in Critical,
               pc' = [pc EXCEPT ![w] = l]
        PROVE  HeldHasHolder'
    BY <2>0, <2>2
  <2>3. ASSUME NEW w \in Workers, step(w) PROVE HeldHasHolder'
    <3>1. CASE read_lock(w) \/ lose_race(w)
      BY <2>1, <3>1 DEF read_lock, lose_race
    <3>2. CASE \/ acquire(w) \/ get_results(w)
               \/ push_result(w) \/ clear_results(w)
      BY <2>2, <3>2 DEF acquire, get_results, push_result, clear_results
    <3>3. CASE update_single_errand(w)
      BY <3>3 DEF update_single_errand
    <3>4. CASE unlock(w)
      BY <3>4 DEF unlock
    <3>5. QED BY <2>3, <3>1, <3>2, <3>3, <3>4 DEF step
  <2>4. ASSUME NEW w \in Workers, NEW r \in Results,
               fetch_errand_result_info(w, r)
        PROVE  HeldHasHolder'
    BY <2>1, <2>4 DEF fetch_errand_result_info
  <2>5. ASSUME NEW w \in Workers, load_tasks_results_info(w)
        PROVE  HeldHasHolder'
    BY <2>1, <2>5 DEF load_tasks_results_info
  <2>6. CASE UNCHANGED vars
    BY <2>6 DEF vars
  <2>7. QED BY <2>3, <2>4, <2>5, <2>6 DEF Next, crash
<1>3. QED BY <1>1, <1>2, LockInvariant, PTL DEF Spec

-----------------------------------------------------------------------------
(* Refinement of ResultQueue.                                              *)

\* The queue of the refinement mapping, with and without a submitter.
LEMMA QueueWhileSending ==
    ASSUME LockInv, NEW w \in Workers, pc[w] = "send"
    PROVE  queue = results[w]
<1>1. \A v \in Workers : pc[v] = "send" <=> v = w
  BY DEF LockInv, MutualExclusion, Critical
<1>2. (CHOOSE v \in Workers : pc[v] = "send") = w
  BY <1>1
<1>3. QED BY <1>2 DEF queue

LEMMA QueueOtherwise ==
    ASSUME \A w \in Workers : pc[w] # "send"
    PROVE  queue = value
BY DEF queue

\* Under the lock, without crashes, the stored list is the queue of
\* ResultQueue (ImplementsQueue): storing a result is Push, handing one to
\* update_single_errand is Submit, everything else is invisible.
THEOREM StorageIsQueue ==
    ASSUME ~MayCrash
    PROVE  Spec => ImplementsQueue
<1>1. Init => Abstract!Init
  BY DEF Init, Abstract!Init, queue
<1>2. LockInv /\ LockInv' /\ [Next]_vars => [Abstract!Next]_(Abstract!vars)
  <2> SUFFICES ASSUME LockInv, LockInv', [Next]_vars
               PROVE  [Abstract!Next]_(Abstract!vars)
    OBVIOUS
  <2>0. pc \in [Workers -> {"idle", "read", "cas"} \cup Critical]
    BY DEF LockInv, TypeOK
  <2> DEFINE NoSender == \A v \in Workers : pc[v] # "send"
  <2>1. NoSender => queue = value
    BY QueueOtherwise
  <2>2. NoSender' => queue' = value'
    BY DEF queue
  <2>3. ASSUME NEW w \in Workers, pc[w] = "send" PROVE queue = results[w]
    BY <2>3, QueueWhileSending
  <2>4. ASSUME NEW w \in Workers, pc'[w] = "send" PROVE queue' = results'[w]
    <3>1. \A v \in Workers : pc'[v] = "send" <=> v = w
      BY <2>4 DEF LockInv, MutualExclusion, Critical
    <3>2. (CHOOSE v \in Workers : pc'[v] = "send") = w
      BY <3>1
    <3>3. QED BY <2>4, <3>2 DEF queue
  <2>5. ASSUME UNCHANGED <<queue, submitted>>
        PROVE  [Abstract!Next]_(Abstract!vars)
    BY <2>5 DEF Abstract!vars
  \* A step that neither starts nor ends sending leaves the queue alone.
  <2>6. ASSUME NEW w \in Workers, NEW l, pc[w] # "send", l # "send",
               pc' = [pc EXCEPT ![w] = l],
               UNCHANGED <<value, submitted>>,
               \A v \in Workers : v # w => results'[v] = results[v]
        PROVE  [Abstract!Next]_(Abstract!vars)
    <3>1. CASE NoSender
      BY <2>0, <2>1, <2>2, <2>5, <2>6, <3>1
    <3>2. ASSUME NEW v \in Workers, pc[v] = "send"
          PROVE  queue' = queue
      BY <2>0, <2>3, <2>4, <2>6, <3>2
    <3>3. QED BY <2>5, <2>6, <3>1, <3>2
  <2>7. ASSUME NEW w \in Workers, get_results(w)
        PROVE  [Abstract!Next]_(Abstract!vars)
    <3>1. CASE job[w] = Drain
      <4>1. NoSender
        BY <2>7 DEF get_results, LockInv, MutualExclusion, Critical
      <4>2. pc'[w] = "send" /\ results'[w] = value
        BY <2>0, <2>7, <3>1 DEF get_results, goto, LockInv, TypeOK
      <4>3. QED BY <2>1, <2>4, <2>5, <2>7, <4>1, <4>2 DEF get_results
    <3>2. CASE job[w] # Drain
      BY <2>6, <2>7, <3>2 DEF get_results, goto, LockInv, TypeOK
    <3>3. QED BY <3>1, <3>2
  <2>8. ASSUME NEW w \in Workers, push_result(w)
        PROVE  [Abstract!Next]_(Abstract!vars)
    <3>1. NoSender
      BY <2>8 DEF push_result, LockInv, MutualExclusion, Critical
    <3>2. NoSender'
      BY <2>0, <2>8, <3>1 DEF push_result, goto
    <3>3. value' = Append(value, job[w]) /\ job[w] \in Results
      BY <2>8 DEF push_result, LockInv, TypeOK
    <3>4. Abstract!Push(job[w])
      BY <2>1, <2>2, <2>8, <3>1, <3>2, <3>3 DEF push_result, Abstract!Push
    <3>5. QED BY <3>3, <3>4 DEF Abstract!Next
  <2>9. ASSUME NEW w \in Workers, update_single_errand(w)
        PROVE  [Abstract!Next]_(Abstract!vars)
    <3>1. pc[w] = "send" /\ pc'[w] = "send"
      BY <2>9 DEF update_single_errand
    <3>2. results'[w] = Tail(results[w])
      BY <2>9 DEF update_single_errand, LockInv, TypeOK
    <3>3. Abstract!Submit
      BY <2>3, <2>4, <2>9, <3>1, <3>2
         DEF update_single_errand, Abstract!Submit
    <3>4. QED BY <3>3 DEF Abstract!Next
  <2>10. ASSUME NEW w \in Workers, clear_results(w)
         PROVE  [Abstract!Next]_(Abstract!vars)
    <3>1. queue = <<>>
      BY <2>3, <2>10 DEF clear_results
    <3>2. NoSender'
      BY <2>0, <2>10
         DEF clear_results, goto, LockInv, MutualExclusion, Critical
    <3>3. queue' = <<>>
      BY <2>2, <2>10, <3>2 DEF clear_results
    <3>4. QED BY <2>5, <2>10, <3>1, <3>3 DEF clear_results
  <2>11. ASSUME NEW w \in Workers,
                \/ read_lock(w) \/ acquire(w) \/ lose_race(w) \/ unlock(w)
         PROVE  [Abstract!Next]_(Abstract!vars)
    <3>1. CASE read_lock(w)
      BY <2>6, <3>1 DEF read_lock, goto
    <3>2. CASE acquire(w)
      BY <2>6, <3>2 DEF acquire, goto
    <3>3. CASE lose_race(w)
      BY <2>6, <3>3 DEF lose_race, goto
    <3>4. CASE unlock(w)
      BY <2>6, <3>4 DEF unlock, goto, LockInv, TypeOK
    <3>5. QED BY <2>11, <3>1, <3>2, <3>3, <3>4
  <2>12. ASSUME NEW w \in Workers, load_tasks_results_info(w)
         PROVE  [Abstract!Next]_(Abstract!vars)
    BY <2>6, <2>12 DEF load_tasks_results_info, goto
  <2>13. ASSUME NEW w \in Workers, NEW r \in Results,
                fetch_errand_result_info(w, r)
         PROVE  [Abstract!Next]_(Abstract!vars)
    BY <2>6, <2>13 DEF fetch_errand_result_info, goto
  <2>14. CASE UNCHANGED vars
    <3>1. UNCHANGED queue
      BY <2>14 DEF vars, queue
    <3>2. QED BY <2>5, <2>14, <3>1 DEF vars
  <2>15. QED
    BY <2>7, <2>8, <2>9, <2>10, <2>11, <2>12, <2>13, <2>14
       DEF Next, step, crash
<1>3. QED
  BY <1>1, <1>2, LockInvariant, PTL DEF Spec, ImplementsQueue, Abstract!Spec

-----------------------------------------------------------------------------
(* Counting results.                                                       *)

LEMMA OccurrencesAreFinite ==
    ASSUME NEW S, NEW s \in Seq(S), NEW r
    PROVE  /\ IsFiniteSet({i \in DOMAIN s : s[i] = r})
           /\ occurrences(s, r) \in Nat
<1>1. DOMAIN s = 1 .. Len(s) /\ Len(s) \in Nat
  OBVIOUS
<1>2. IsFiniteSet(1 .. Len(s))
  BY <1>1, FS_Interval
<1>3. {i \in DOMAIN s : s[i] = r} \in SUBSET (1 .. Len(s))
  BY <1>1
<1>4. IsFiniteSet({i \in DOMAIN s : s[i] = r})
  BY <1>2, <1>3, FS_Subset
<1>5. QED BY <1>4, FS_CardinalityType DEF occurrences

LEMMA OccurrencesOfNothing ==
    ASSUME NEW r
    PROVE  occurrences(<<>>, r) = 0
<1>1. {i \in DOMAIN <<>> : <<>>[i] = r} = {}
  OBVIOUS
<1>2. QED BY <1>1, FS_EmptySet DEF occurrences

LEMMA OccurrencesAppend ==
    ASSUME NEW S, NEW s \in Seq(S), NEW e \in S, NEW r
    PROVE  occurrences(Append(s, e), r)
             = occurrences(s, r) + IF e = r THEN 1 ELSE 0
<1> DEFINE A == {i \in DOMAIN s : s[i] = r}
           B == {i \in DOMAIN Append(s, e) : Append(s, e)[i] = r}
           n == Len(s) + 1
<1>0. /\ occurrences(s, r) = Cardinality(A)
      /\ occurrences(Append(s, e), r) = Cardinality(B)
  BY DEF occurrences
<1>1. /\ IsFiniteSet(A)
      /\ Cardinality(A) \in Nat
  BY OccurrencesAreFinite DEF occurrences
<1>2. n \notin A
  OBVIOUS
<1>3. CASE e = r
  <2>1. B = A \cup {n}
    BY <1>3
  <2>2. Cardinality(A \cup {n}) = Cardinality(A) + 1
    <3> HIDE DEF A, n
    <3> QED BY <1>1, <1>2, FS_AddElement
  <2> HIDE DEF A, B
  <2>3. QED BY <1>0, <1>3, <2>1, <2>2
<1>4. CASE e # r
  <2>1. B = A
    BY <1>4
  <2> HIDE DEF A, B
  <2>2. QED BY <1>0, <1>1, <1>4, <2>1
<1>5. QED BY <1>3, <1>4

LEMMA OccurrencesTail ==
    ASSUME NEW S, NEW s \in Seq(S), s # <<>>, NEW r
    PROVE  occurrences(Tail(s), r) + (IF Head(s) = r THEN 1 ELSE 0)
             = occurrences(s, r)
<1> DEFINE A == {i \in DOMAIN Tail(s) : Tail(s)[i] = r}
           B == {i \in DOMAIN s : s[i] = r}
           C == B \ {1}
           f == [i \in A |-> i + 1]
<1>0. /\ occurrences(Tail(s), r) = Cardinality(A)
      /\ occurrences(s, r) = Cardinality(B)
  BY DEF occurrences
<1>1. IsFiniteSet(A) /\ IsFiniteSet(B)
  <2>1. Tail(s) \in Seq(S)
    OBVIOUS
  <2>2. QED BY <2>1, OccurrencesAreFinite
<1>2. Cardinality(A) \in Nat /\ Cardinality(B) \in Nat
  BY <1>1, FS_CardinalityType
<1>3. /\ Len(s) \in Nat
      /\ Len(s) >= 1
      /\ \A i \in 1 .. Len(s) - 1 : Tail(s)[i] = s[i + 1]
      /\ DOMAIN Tail(s) = 1 .. Len(s) - 1
      /\ DOMAIN s = 1 .. Len(s)
      /\ Head(s) = s[1]
  OBVIOUS
<1>4. f \in Bijection(A, C)
  <2>1. \A i \in A : i + 1 \in C
    BY <1>3
  <2>2. \A j \in C : j - 1 \in A /\ j = (j - 1) + 1
    BY <1>3
  <2>3. \A i, j \in A : i + 1 = j + 1 => i = j
    BY <1>3
  <2> HIDE DEF A, C
  <2>4. QED BY <2>1, <2>2, <2>3
            DEF Bijection, Injection, Surjection, IsInjective
<1>5. Cardinality(C) = Cardinality(A)
  <2> HIDE DEF A, C, f
  <2> QED BY <1>1, <1>4, FS_Bijection DEF ExistsBijection
<1>6. Cardinality(C) = IF 1 \in B THEN Cardinality(B) - 1 ELSE Cardinality(B)
  <2> HIDE DEF B
  <2> QED BY <1>1, FS_RemoveElement
<1>7. 1 \in B <=> Head(s) = r
  BY <1>3
<1>8. QED
  <2> HIDE DEF A, B, C
  <2> QED BY <1>0, <1>2, <1>5, <1>6, <1>7


\* The results that may be submitted, from the workers' control state.
LEMMA ReachableWhileSending ==
    ASSUME LockInv, NEW w \in Workers, pc[w] = "send"
    PROVE  reachable = results[w]
<1>1. HeldHasHolder
  BY DEF HeldHasHolder, Critical
<1>2. QED BY <1>1, QueueWhileSending DEF reachable

LEMMA ReachableOtherwise ==
    ASSUME \A w \in Workers : pc[w] # "send"
    PROVE  reachable = IF HeldHasHolder THEN value ELSE <<>>
BY QueueOtherwise DEF reachable

LEMMA ReachableType == LockInv => reachable \in Seq(Results)
<1> SUFFICES ASSUME LockInv PROVE reachable \in Seq(Results)
  OBVIOUS
<1>0. value \in Seq(Results) /\ results \in [Workers -> Seq(Results)]
  BY DEF LockInv, TypeOK
<1>1. <<>> \in Seq(Results)
  OBVIOUS
<1>2. CASE \A w \in Workers : pc[w] # "send"
  BY <1>0, <1>1, <1>2, ReachableOtherwise
<1>3. ASSUME NEW w \in Workers, pc[w] = "send"
      PROVE  reachable \in Seq(Results)
  BY <1>0, <1>3, ReachableWhileSending
<1>4. QED BY <1>2, <1>3

LEMMA CountInit == Init => CountInv
<1> SUFFICES ASSUME Init, NEW r \in Results
             PROVE  /\ IsFiniteSet(storing(r))
                    /\ occurrences(submitted, r) + occurrences(reachable, r)
                         + Cardinality(storing(r)) <= fetched[r]
  BY DEF CountInv
<1>1. storing(r) = {}
  BY DEF Init, storing
<1>2. reachable = <<>>
  BY ReachableOtherwise DEF Init
<1>3. QED BY <1>1, <1>2, OccurrencesOfNothing, FS_EmptySet DEF Init

LEMMA CountStep ==
    LockInv /\ LockInv' /\ CountInv /\ [Next]_vars => CountInv'
<1>1. LockInv' => (reachable \in Seq(Results))'
  BY ReachableType, PTL
<1> SUFFICES ASSUME LockInv, LockInv', CountInv, [Next]_vars,
                    NEW r \in Results
             PROVE  /\ IsFiniteSet(storing(r)')
                    /\ occurrences(submitted, r)' + occurrences(reachable, r)'
                         + Cardinality(storing(r))' <= fetched'[r]
  BY DEF CountInv
<1> DEFINE Goal ==
             /\ IsFiniteSet(storing(r)')
             /\ occurrences(submitted', r) + occurrences(reachable', r)
                  + Cardinality(storing(r)') <= fetched'[r]
           NoSender == \A v \in Workers : pc[v] # "send"
<1> SUFFICES Goal
  BY DEF occurrences
<1>0. /\ TypeOK
      /\ pc \in [Workers -> {"idle", "read", "cas"} \cup Critical]
      /\ job \in [Workers -> Results \cup {Drain}]
      /\ results \in [Workers -> Seq(Results)]
      /\ value \in Seq(Results)
      /\ submitted \in Seq(Results)
      /\ fetched \in [Results -> Nat]
  BY LocalStorageAssumption DEF LockInv, TypeOK
<1>2. reachable \in Seq(Results) /\ reachable' \in Seq(Results)
  BY <1>1, ReachableType
<1>3. /\ IsFiniteSet(storing(r))
      /\ Cardinality(storing(r)) \in Nat
      /\ occurrences(submitted, r) \in Nat
      /\ occurrences(reachable, r) \in Nat
      /\ occurrences(submitted, r) + occurrences(reachable, r)
           + Cardinality(storing(r)) <= fetched[r]
      /\ fetched[r] \in Nat
  <2>1. IsFiniteSet(storing(r))
    BY DEF CountInv
  <2>2. QED
    BY <1>0, <1>2, <2>1, FS_CardinalityType, OccurrencesAreFinite
       DEF CountInv
\* What may be submitted after the step, from the control state.
<1>4. ASSUME \A v \in Workers : pc'[v] # "send"
      PROVE  reachable' = IF HeldHasHolder' THEN value' ELSE <<>>
  BY <1>4 DEF reachable, queue
<1>5. ASSUME NEW w \in Workers, pc'[w] = "send"
      PROVE  reachable' = results'[w]
  <2>1. \A v \in Workers : pc'[v] = "send" <=> v = w
    BY <1>5 DEF LockInv, MutualExclusion, Critical
  <2>2. (CHOOSE v \in Workers : pc'[v] = "send") = w
    BY <2>1
  <2>3. HeldHasHolder'
    BY <1>5 DEF HeldHasHolder, Critical
  <2>4. QED BY <1>5, <2>2, <2>3 DEF reachable, queue
<1>6. ASSUME NEW w \in Workers, pc[w] = "send"
      PROVE  reachable = results[w]
  BY <1>6, ReachableWhileSending
<1>7. ASSUME NoSender
      PROVE  reachable = IF HeldHasHolder THEN value ELSE <<>>
  BY <1>7, ReachableOtherwise
\* A step that gives up on what it has not stored does not add anything.
<1>8. ASSUME submitted' = submitted, fetched'[r] = fetched[r],
             reachable' = reachable \/ reachable' = <<>>,
             storing(r)' \in SUBSET storing(r)
      PROVE  Goal
  <2>1. /\ IsFiniteSet(storing(r)')
        /\ Cardinality(storing(r)') <= Cardinality(storing(r))
    BY <1>3, <1>8, FS_Subset
  <2>2. Cardinality(storing(r)') \in Nat
    BY <2>1, FS_CardinalityType
  <2>3. occurrences(reachable', r) <= occurrences(reachable, r)
    BY <1>3, <1>8, OccurrencesOfNothing
  <2>4. occurrences(reachable', r) \in Nat
    BY <1>2, OccurrencesAreFinite
  <2>5. QED BY <1>3, <1>8, <2>1, <2>2, <2>3, <2>4
\* A step of a worker outside the critical section that does not enter it.
<1>9. ASSUME NEW w \in Workers, NEW l, pc[w] \notin Critical,
             l \notin Critical, pc' = [pc EXCEPT ![w] = l],
             UNCHANGED <<lock, value, results>>
      PROVE  reachable' = reachable
  <2>1. \A v \in Workers :
          /\ pc'[v] = "send" <=> pc[v] = "send"
          /\ pc'[v] \in Critical <=> pc[v] \in Critical
    BY <1>0, <1>9 DEF Critical
  <2>2. HeldHasHolder' <=> HeldHasHolder
    BY <1>9, <2>1 DEF HeldHasHolder
  <2>3. CASE NoSender
    BY <1>4, <1>7, <1>9, <2>1, <2>2, <2>3
  <2>4. ASSUME NEW v \in Workers, pc[v] = "send"
        PROVE  reachable' = reachable
    BY <1>5, <1>6, <1>9, <2>1, <2>4
  <2>5. QED BY <2>3, <2>4
<1> HIDE DEF Goal
<1>10. ASSUME NEW w \in Workers, NEW q \in Results,
              fetch_errand_result_info(w, q)
       PROVE  Goal
  <2>1. reachable' = reachable
    BY <1>9, <1>10 DEF fetch_errand_result_info, goto, Critical
  <2>2. CASE q = r
    <3>1. storing(r)' = storing(r) \cup {w} /\ w \notin storing(r)
      BY <1>0, <1>10, <2>2 DEF fetch_errand_result_info, goto, storing
    <3>2. /\ IsFiniteSet(storing(r)')
          /\ Cardinality(storing(r)') = Cardinality(storing(r)) + 1
      BY <1>3, <3>1, FS_AddElement
    <3>3. fetched'[r] = fetched[r] + 1
      BY <1>0, <1>10, <2>2 DEF fetch_errand_result_info
    <3>4. submitted' = submitted
      BY <1>10 DEF fetch_errand_result_info
    <3>5. QED BY <1>3, <2>1, <3>2, <3>3, <3>4 DEF Goal
  <2>3. CASE q # r
    <3>1. storing(r)' = storing(r)
      BY <1>0, <1>10, <2>3 DEF fetch_errand_result_info, goto, storing
    <3>2. fetched'[r] = fetched[r] /\ submitted' = submitted
      BY <1>0, <1>10, <2>3 DEF fetch_errand_result_info
    <3>3. QED BY <1>8, <2>1, <3>1, <3>2
  <2>4. QED BY <2>2, <2>3
<1>11. ASSUME NEW w \in Workers, load_tasks_results_info(w)
       PROVE  Goal
  <2>1. reachable' = reachable
    BY <1>9, <1>11 DEF load_tasks_results_info, goto, Critical
  <2>2. storing(r)' = storing(r)
    BY <1>0, <1>11, LocalStorageAssumption
       DEF load_tasks_results_info, goto, storing
  <2>3. QED BY <1>8, <1>11, <2>1, <2>2 DEF load_tasks_results_info
<1>12. ASSUME NEW w \in Workers, read_lock(w) \/ lose_race(w)
       PROVE  Goal
  <2>1. PICK l \in {"cas", "idle"} :
          pc' = [pc EXCEPT ![w] = l] /\ pc[w] \in {"read", "cas"}
    BY <1>12 DEF read_lock, lose_race, goto
  <2>2. reachable' = reachable
    BY <1>9, <1>12, <2>1 DEF read_lock, lose_race, Critical
  <2>3. storing(r)' \subseteq storing(r)
    BY <1>0, <1>12, <2>1 DEF read_lock, lose_race, storing
  <2>4. QED BY <1>8, <1>12, <2>2, <2>3 DEF read_lock, lose_race
<1>13. ASSUME NEW w \in Workers, acquire(w)
       PROVE  Goal
  <2>1. lock # "held" /\ \A v \in Workers : pc[v] \notin Critical
    BY <1>13 DEF acquire, unchanged_since_read, LockInv, may_take
  <2>2. reachable = value
    BY <1>7, <2>1 DEF HeldHasHolder, Critical
  <2>3. pc' = [pc EXCEPT ![w] = "get"]
    BY <1>13 DEF acquire, goto
  <2>4. HeldHasHolder' /\ \A v \in Workers : pc'[v] # "send"
    BY <1>0, <2>1, <2>3 DEF HeldHasHolder, Critical
  <2>5. reachable' = value
    BY <1>4, <1>13, <2>4 DEF acquire
  <2>6. storing(r)' \subseteq storing(r)
    BY <1>0, <1>13, <2>3 DEF acquire, storing
  <2>7. QED BY <1>8, <1>13, <2>2, <2>5, <2>6 DEF acquire
<1>14. ASSUME NEW w \in Workers, get_results(w)
       PROVE  Goal
  <2>1. pc[w] = "get" /\ NoSender /\ HeldHasHolder
    BY <1>14
       DEF get_results, LockInv, MutualExclusion, Critical, HeldHasHolder
  <2>2. reachable = value
    BY <1>7, <2>1
  <2>3. reachable' = value
    <3>1. CASE job[w] = Drain
      BY <1>0, <1>5, <1>14, <3>1 DEF get_results, goto
    <3>2. CASE job[w] # Drain
      <4>1. pc' = [pc EXCEPT ![w] = "set"]
        BY <1>14, <3>2 DEF get_results, goto
      <4>2. HeldHasHolder' /\ \A v \in Workers : pc'[v] # "send"
        BY <1>0, <2>1, <4>1 DEF HeldHasHolder, Critical
      <4>3. QED BY <1>4, <1>14, <4>2 DEF get_results
    <3>3. QED BY <3>1, <3>2
  <2>4. storing(r)' \subseteq storing(r)
    BY <1>0, <1>14 DEF get_results, goto, storing
  <2>5. QED BY <1>8, <1>14, <2>2, <2>3, <2>4 DEF get_results
<1>15. ASSUME NEW w \in Workers, push_result(w)
       PROVE  Goal
  <2>1. /\ pc[w] = "set" /\ NoSender /\ HeldHasHolder
        /\ results[w] = value /\ job[w] \in Results
    BY <1>0, <1>15
       DEF push_result, LockInv, MutualExclusion, Critical, HeldHasHolder
  <2>2. pc' = [pc EXCEPT ![w] = "unlock"]
    BY <1>15 DEF push_result, goto
  <2>3. HeldHasHolder' /\ \A v \in Workers : pc'[v] # "send"
    BY <1>0, <2>1, <2>2 DEF HeldHasHolder, Critical
  <2>4. reachable = value /\ reachable' = Append(value, job[w])
    BY <1>4, <1>7, <1>15, <2>1, <2>3 DEF push_result
  <2>5. occurrences(reachable', r)
          = occurrences(reachable, r) + IF job[w] = r THEN 1 ELSE 0
    BY <1>0, <2>1, <2>4, OccurrencesAppend
  <2>6. storing(r)' = storing(r) \ {w} /\ (w \in storing(r) <=> job[w] = r)
    BY <1>0, <1>15, <2>1, <2>2 DEF push_result, storing
  <2>7. /\ IsFiniteSet(storing(r)')
        /\ Cardinality(storing(r)')
             = Cardinality(storing(r)) - IF job[w] = r THEN 1 ELSE 0
    BY <1>3, <2>6, FS_RemoveElement
  <2>8. submitted' = submitted /\ fetched' = fetched
    BY <1>15 DEF push_result
  <2>9. QED BY <1>3, <2>5, <2>7, <2>8 DEF Goal
<1>16. ASSUME NEW w \in Workers, update_single_errand(w)
       PROVE  Goal
  <2>1. reachable = results[w] /\ results[w] # <<>>
    BY <1>6, <1>16 DEF update_single_errand
  <2>2. reachable' = Tail(results[w])
    BY <1>0, <1>5, <1>16 DEF update_single_errand
  <2>3. occurrences(reachable', r) + (IF Head(results[w]) = r THEN 1 ELSE 0)
          = occurrences(reachable, r)
    BY <1>0, <2>1, <2>2, OccurrencesTail
  <2>4. Head(results[w]) \in Results
    BY <1>0, <2>1
  <2>5. occurrences(submitted', r) = occurrences(submitted, r)
          + IF Head(results[w]) = r THEN 1 ELSE 0
    BY <1>0, <1>16, <2>4, OccurrencesAppend DEF update_single_errand
  <2>6. storing(r)' = storing(r) /\ fetched' = fetched
    BY <1>16 DEF update_single_errand, storing
  <2>7. occurrences(reachable', r) \in Nat
    BY <1>2, OccurrencesAreFinite
  <2>8. QED BY <1>3, <2>3, <2>5, <2>6, <2>7 DEF Goal
<1>17. ASSUME NEW w \in Workers, clear_results(w)
       PROVE  Goal
  <2>1. pc' = [pc EXCEPT ![w] = "unlock"] /\ pc[w] = "send"
    BY <1>17 DEF clear_results, goto
  <2>2. HeldHasHolder' /\ \A v \in Workers : pc'[v] # "send"
    BY <1>0, <2>1 DEF HeldHasHolder, Critical, LockInv, MutualExclusion
  <2>3. reachable' = <<>>
    BY <1>4, <1>17, <2>2 DEF clear_results
  <2>4. storing(r)' \subseteq storing(r)
    BY <1>0, <1>17, <2>1 DEF clear_results, storing
  <2>5. QED BY <1>8, <1>17, <2>3, <2>4 DEF clear_results
<1>18. ASSUME NEW w \in Workers, unlock(w)
       PROVE  Goal
  <2>1. pc' = [pc EXCEPT ![w] = "idle"] /\ pc[w] = "unlock"
    BY <1>18 DEF unlock, goto
  <2>2. NoSender /\ HeldHasHolder
    BY <2>1 DEF LockInv, MutualExclusion, Critical, HeldHasHolder
  <2>3. HeldHasHolder' /\ \A v \in Workers : pc'[v] # "send"
    BY <1>0, <1>18, <2>1, <2>2 DEF unlock, HeldHasHolder
  <2>4. reachable = value /\ reachable' = value
    BY <1>4, <1>7, <1>18, <2>2, <2>3 DEF unlock
  <2>5. storing(r)' \subseteq storing(r)
    BY <1>0, <1>18, <2>1 DEF unlock, storing
  <2>6. QED BY <1>8, <1>18, <2>4, <2>5 DEF unlock
\* A crash with the lock held puts the stored list out of reach; otherwise
\* no worker was submitting, and the list stays as it is.
<1>19. ASSUME crash
       PROVE  Goal
  <2>1. storing(r)' \subseteq storing(r)
    BY <1>19 DEF crash, storing
  <2>2. \A v \in Workers : pc'[v] \notin Critical /\ pc'[v] # "send"
    BY <1>19 DEF crash, Critical
  <2>3. CASE lock = "held"
    <3>1. ~HeldHasHolder'
      BY <1>19, <2>2, <2>3 DEF crash, HeldHasHolder
    <3>2. QED BY <1>4, <1>8, <1>19, <2>1, <2>2, <3>1 DEF crash
  <2>4. CASE lock # "held"
    <3>1. HeldHasHolder /\ HeldHasHolder' /\ NoSender
      BY <1>19, <2>4 DEF crash, HeldHasHolder, LockInv, Critical
    <3>2. QED BY <1>4, <1>7, <1>8, <1>19, <2>1, <2>2, <3>1 DEF crash
  <2>5. QED BY <2>3, <2>4
<1>20. CASE UNCHANGED vars
  <2>1. reachable' = reachable /\ storing(r)' = storing(r)
    BY <1>20 DEF vars, reachable, queue, HeldHasHolder, storing
  <2>2. QED BY <1>8, <1>20, <2>1 DEF vars
<1>21. QED
  BY <1>10, <1>11, <1>12, <1>13, <1>14, <1>15, <1>16, <1>17, <1>18, <1>19,
     <1>20
     DEF Next, step

\* No result is submitted more often than it was fetched
\* (SubmittedAtMostOnce), for any number of workers and of crashes.
THEOREM NothingSubmittedTwice == Spec => []SubmittedAtMostOnce
<1>1. LockInv /\ CountInv => SubmittedAtMostOnce
  <2> SUFFICES ASSUME LockInv, CountInv, NEW r \in Results
               PROVE  occurrences(submitted, r) <= fetched[r]
    BY DEF SubmittedAtMostOnce
  <2>1. submitted \in Seq(Results) /\ fetched[r] \in Nat
    BY LocalStorageAssumption DEF LockInv, TypeOK
  <2>2. /\ occurrences(submitted, r) \in Nat
        /\ occurrences(reachable, r) \in Nat
        /\ Cardinality(storing(r)) \in Nat
    BY <2>1, ReachableType, OccurrencesAreFinite, FS_CardinalityType
       DEF CountInv
  <2>3. QED BY <2>1, <2>2 DEF CountInv
<1>2. QED BY <1>1, CountInit, CountStep, LockInvariant, PTL DEF Spec

=============================================================================
