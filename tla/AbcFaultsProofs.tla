--------------------------- MODULE AbcFaultsProofs ---------------------------
(***************************************************************************)
(* Proofs about AbcFaults for every value of its constants: what restarts, *)
(* lost transactions and retracted blocks do not break.                    *)
(***************************************************************************)
EXTENDS AbcFaults, AbcSystemProofs

-----------------------------------------------------------------------------
(* The pallet as the current block found it.                               *)

\* Its types are the pallet's.
LEMMA StartTypes ==
    /\ Start!Errand = Errand
    /\ Start!TaskInfo = TaskInfo
    /\ \A m, K, V : Start!IsMap(m, K, V) <=> IsMap(m, K, V)
BY DEF Errand, Start!Errand, ErrandStatus, Start!ErrandStatus, TaskInfo,
       Start!TaskInfo, Uuid, Start!Uuid, IsMap, Start!IsMap

\* It is the pallet of the current state at the beginning of a block,
LEMMA StartTaken ==
    PalletInv /\ extrinsic_index = 0 /\ start = chain => Start!PalletInv
<1> SUFFICES ASSUME PalletInv, extrinsic_index = 0, start = chain
             PROVE  Start!PalletInv
  OBVIOUS
<1>0. /\ start[1] = Errands /\ start[2] = Delegates
      /\ start[3] = CompletedErrands /\ start[4] = ClientTaskFee
      /\ start[5] = ClientDelegate /\ start[6] = DelegateNetAddress
      /\ start[7] = DelegateAccounts /\ start[8] = Tasks
      /\ start[9] = DelegatesApplys /\ start[10] = ProcessingErrands
      /\ start[11] = free /\ start[12] = reserved
  BY DEF chain
<1>1. Start!TypeOK
  BY <1>0, StartTypes DEF PalletInv, TypeOK, Start!TypeOK
<1>2. Start!IdsFollowTheClock
  BY <1>0 DEF PalletInv, IdsFollowTheClock, Start!IdsFollowTheClock
<1>3. Start!OneTaskPerCidInBlock
  BY <1>0 DEF PalletInv, OneTaskPerCidInBlock, Start!OneTaskPerCidInBlock
<1>4. Start!ProcessingMatchesErrands
  BY <1>0
     DEF PalletInv, ProcessingMatchesErrands, Start!ProcessingMatchesErrands
<1>5. Start!DoneIsReported
  BY <1>0
     DEF PalletInv, DoneIsReported, Start!DoneIsReported,
         MIN_UPDATE_RESULT_ACCOUNT, Start!MIN_UPDATE_RESULT_ACCOUNT
<1>6. Start!ReportersAuthorised
  BY <1>0 DEF PalletInv, ReportersAuthorised, Start!ReportersAuthorised
<1>7. Start!ReserveIsPayable
  BY <1>0
     DEF PalletInv, ReserveIsPayable, Start!ReserveIsPayable,
         client_task_fee, Start!client_task_fee, get, Start!get
<1>8. Start!DelegatedHasFee
  BY <1>0
     DEF PalletInv, DelegatedHasFee, Start!DelegatedHasFee,
         client_task_fee, Start!client_task_fee, get, Start!get
<1>9. QED
  BY <1>1, <1>2, <1>3, <1>4, <1>5, <1>6, <1>7, <1>8 DEF Start!PalletInv

\* it is the pallet again once the block is retracted,
LEMMA StartRestored ==
    ASSUME Start!PalletInv, NEW S, retract_block(S)
    PROVE  PalletInv'
<1>0. /\ Errands' = start[1] /\ Delegates' = start[2]
      /\ CompletedErrands' = start[3] /\ ClientTaskFee' = start[4]
      /\ ClientDelegate' = start[5] /\ DelegateNetAddress' = start[6]
      /\ DelegateAccounts' = start[7] /\ Tasks' = start[8]
      /\ DelegatesApplys' = start[9] /\ ProcessingErrands' = start[10]
      /\ free' = start[11] /\ reserved' = start[12]
      /\ block_number' = block_number /\ DevelopmentMode' = DevelopmentMode
      /\ extrinsic_index' = 0
  BY DEF retract_block
<1>1. TypeOK'
  BY <1>0, StartTypes DEF Start!PalletInv, TypeOK, Start!TypeOK
<1>2. IdsFollowTheClock'
  BY <1>0 DEF Start!PalletInv, IdsFollowTheClock, Start!IdsFollowTheClock
<1>3. OneTaskPerCidInBlock'
  BY <1>0
     DEF Start!PalletInv, OneTaskPerCidInBlock, Start!OneTaskPerCidInBlock
<1>4. ProcessingMatchesErrands'
  BY <1>0
     DEF Start!PalletInv, ProcessingMatchesErrands,
         Start!ProcessingMatchesErrands
<1>5. DoneIsReported'
  BY <1>0
     DEF Start!PalletInv, DoneIsReported, Start!DoneIsReported,
         MIN_UPDATE_RESULT_ACCOUNT, Start!MIN_UPDATE_RESULT_ACCOUNT
<1>6. ReportersAuthorised'
  BY <1>0
     DEF Start!PalletInv, ReportersAuthorised, Start!ReportersAuthorised
<1>7. ReserveIsPayable' /\ DelegatedHasFee'
  BY <1>0
     DEF Start!PalletInv, ReserveIsPayable, Start!ReserveIsPayable,
         DelegatedHasFee, Start!DelegatedHasFee, client_task_fee,
         Start!client_task_fee, get, Start!get
<1>8. QED
  BY <1>1, <1>2, <1>3, <1>4, <1>5, <1>6, <1>7 DEF PalletInv

\* and it does not change in between.
LEMMA StartStays ==
    ASSUME Start!PalletInv,
           UNCHANGED <<start, block_number, DevelopmentMode>>
    PROVE  Start!PalletInv'
<1>1. Start!TypeOK'
  BY StartTypes DEF Start!PalletInv, Start!TypeOK
<1>2. Start!IdsFollowTheClock' /\ Start!OneTaskPerCidInBlock'
  BY DEF Start!PalletInv, Start!IdsFollowTheClock, Start!OneTaskPerCidInBlock
<1>3. Start!ProcessingMatchesErrands'
  BY DEF Start!PalletInv, Start!ProcessingMatchesErrands
<1>4. Start!DoneIsReported' /\ Start!ReportersAuthorised'
  BY DEF Start!PalletInv, Start!DoneIsReported, Start!ReportersAuthorised
<1>5. Start!ReserveIsPayable' /\ Start!DelegatedHasFee'
  BY DEF Start!PalletInv, Start!ReserveIsPayable, Start!DelegatedHasFee,
         Start!client_task_fee
<1>6. QED
  BY <1>1, <1>2, <1>3, <1>4, <1>5 DEF Start!PalletInv

\* StartTaken after a step.
LEMMA StartTakenNext ==
    (PalletInv /\ extrinsic_index = 0 /\ start = chain)' => Start!PalletInv'
BY StartTaken, PTL

-----------------------------------------------------------------------------
(* The steps of the system.                                                *)

\* Every call is an extrinsic of the current block.
LEMMA CallIsExtrinsic ==
    ASSUME user_step \/ \E tx \in pool : include_tx(tx)
    PROVE  extrinsic
<1>1. CASE user_step
  <2>1. ASSUME NEW a, NEW n, NEW addr, user_request_delegate(a, n, addr)
        PROVE  extrinsic
    BY <2>1
       DEF user_request_delegate, request_delegate, request_delegate_refused,
           refused
  <2>2. ASSUME NEW a, NEW n, NEW c, NEW f, user_begin_task(a, n, c, f)
        PROVE  extrinsic
    BY <2>2
       DEF user_begin_task, begin_task, begin_task_aborted,
           begin_task_refused, refused
  <2>3. QED BY <1>1, <2>1, <2>2 DEF user_step
<1>2. ASSUME NEW tx \in pool, include_tx(tx) PROVE extrinsic
  <2>1. CASE include_update_delegate_status(tx) \/ include_unreserve(tx)
    BY <2>1
       DEF include_update_delegate_status, update_delegate_status,
           update_delegate_status_refused, include_unreserve, unreserve,
           refused
  <2>2. CASE include_init_errand(tx)
    BY <2>2
       DEF include_init_errand, init_errand, init_errand_refused, refused
  <2>3. CASE include_update_errand(tx)
    BY <2>3
       DEF include_update_errand, update_errand, update_errand_dev,
           update_errand_completed, update_errand_wait, update_errand_finish,
           report, update_errand_refused, refused
  <2>4. QED BY <1>2, <2>1, <2>2, <2>3 DEF include_tx
<1>3. QED BY <1>1, <1>2

\* What AbcSystemProofs shows of a step of the system.
LEMMA PartsStep ==
    ASSUME PalletInv, WorkerTypeOK, KnownInv, SentInv, system_step
    PROVE  PalletInv' /\ WorkerTypeOK' /\ KnownInv' /\ SentInv'
<1>1. TypeOK
  BY DEF PalletInv
<1>2. PalletInv'
  BY PalletStep, InvStep
<1>3. QED
  BY <1>1, <1>2, WorkerTypeStep, KnownStep, SentStep

\* What is kept of the block's beginning stays true in the block.
LEMMA StartInvStays ==
    ASSUME StartInv, UNCHANGED <<start, block_number, DevelopmentMode>>,
           \A a : has_info(a) => has_info(a)',
           \A id, c : sent(id, c) => sent(id, c)'
    PROVE  StartInv'
<1>1. Start!PalletInv'
  BY StartStays DEF StartInv
<1>2. ASSUME NEW a \in DOMAIN start[2], start[2][a] PROVE has_info(a)'
  BY <1>2 DEF StartInv
<1>3. ASSUME NEW c \in DOMAIN start[1], NEW id, id = start[1][c].errand_id
      PROVE  sent(id, c)'
  BY <1>3 DEF StartInv
<1>4. \A c \in DOMAIN start'[1] : sent(start[1][c].errand_id, c)'
  BY <1>3 DEF sent
<1>5. QED BY <1>1, <1>2, <1>4 DEF StartInv

LEMMA IncludedInvStays ==
    ASSUME IncludedInv, included' \subseteq included,
           \A a : has_info(a) => has_info(a)',
           \A id, c : sent(id, c) => sent(id, c)'
    PROVE  IncludedInv'
BY DEF IncludedInv, call_typed

LEMMA UndisturbedStep ==
    ASSUME FaultInv, undisturbed
    PROVE  FaultInv'
<1>1. system_step /\ UNCHANGED fault_vars
  BY DEF undisturbed, system_step
<1>2. PalletInv' /\ WorkerTypeOK' /\ KnownInv' /\ SentInv'
  BY <1>1, PartsStep DEF FaultInv
<1>3. /\ \A a : has_info(a) => has_info(a)'
      /\ \A id, c : sent(id, c) => sent(id, c)'
  BY <1>1, Grows DEF FaultInv, PalletInv
<1>4. UNCHANGED <<block_number, DevelopmentMode>>
  BY CallIsExtrinsic
     DEF undisturbed, extrinsic, offchain_step, run_worker, run_service, vars,
         clock
<1>5. UNCHANGED <<start, included, forks>>
  BY <1>1 DEF fault_vars
<1>6. forks < MaxForks => StartInv'
  BY <1>3, <1>4, <1>5, StartInvStays DEF FaultInv
<1>7. IncludedInv'
  BY <1>3, <1>5, IncludedInvStays DEF FaultInv
<1>8. QED BY <1>2, <1>5, <1>6, <1>7 DEF FaultInv

LEMMA IncludeStep ==
    ASSUME FaultInv, NEW tx \in pool, include_in_block(tx)
    PROVE  FaultInv'
<1>1. include_tx(tx) /\ system_step
  BY DEF include_in_block, system_step
<1>2. PalletInv' /\ WorkerTypeOK' /\ KnownInv' /\ SentInv'
  BY <1>1, PartsStep DEF FaultInv
<1>3. /\ \A a : has_info(a) => has_info(a)'
      /\ \A id, c : sent(id, c) => sent(id, c)'
  BY <1>1, Grows DEF FaultInv, PalletInv
<1>4. UNCHANGED <<block_number, DevelopmentMode>>
  BY <1>1, CallIsExtrinsic DEF extrinsic
<1>5. UNCHANGED <<start, forks>> /\ included' = included \cup {tx}
  BY DEF include_in_block
<1>6. forks < MaxForks => StartInv'
  BY <1>3, <1>4, <1>5, StartInvStays DEF FaultInv
<1>7. IncludedInv'
  <2> SUFFICES ASSUME NEW t \in included'
               PROVE  /\ t.signer \in AccountIds /\ call_typed(t.call)
                      /\ t.call.fn = "update_delegate_status" =>
                           has_info(t.signer)'
                      /\ t.call.fn = "init_errand" =>
                           sent(t.call.errand_id, t.call.cid)'
    BY DEF IncludedInv, call_typed
  <2>1. CASE t \in included
    BY <1>3, <2>1 DEF FaultInv, IncludedInv
  <2>2. CASE t = tx
    BY <1>3, <2>2 DEF FaultInv, WorkerTypeOK, KnownInv, SentInv
  <2>3. QED BY <1>5, <2>1, <2>2
<1>8. QED BY <1>2, <1>5, <1>6, <1>7 DEF FaultInv

LEMMA StartInvTaken ==
    ASSUME PalletInv', KnownInv', SentInv', extrinsic_index' = 0,
           start' = chain_state', forks' \in 0 .. MaxForks, forks' < MaxForks
    PROVE  StartInv'
<1>1. (start = chain)'
  BY FaultAssumption DEF chain_state
<1>2. Start!PalletInv'
  BY <1>1, StartTakenNext
<1>3. start'[1] = Errands' /\ start'[2] = Delegates'
  BY <1>1 DEF chain
<1>4. \A a \in DOMAIN start'[2] : start'[2][a] => has_info(a)'
  BY <1>3 DEF KnownInv, ready_have_info
<1>5. \A c \in DOMAIN start'[1] : sent(start[1][c].errand_id, c)'
  BY <1>3 DEF SentInv, ErrandsAreSent, sent
<1>6. QED BY <1>2, <1>4, <1>5 DEF StartInv

LEMMA FinishBlockStep ==
    ASSUME FaultInv, finish_block
    PROVE  FaultInv'
<1>1. end_block(importers) /\ importers \in SUBSET Nodes
  BY DEF finish_block, importers
<1>2. system_step
  BY <1>1 DEF system_step
<1>3. PalletInv' /\ WorkerTypeOK' /\ KnownInv' /\ SentInv'
  BY <1>2, PartsStep DEF FaultInv
<1>4. /\ UNCHANGED forks
      /\ start' = chain_state'
      /\ included' = {}
      /\ extrinsic_index' = 0
  BY <1>1 DEF finish_block, end_block, next_block
<1>5. forks < MaxForks => StartInv'
  BY <1>3, <1>4, StartInvTaken DEF FaultInv
<1>6. IncludedInv'
  BY <1>4 DEF IncludedInv
<1>7. QED BY <1>3, <1>4, <1>5, <1>6 DEF FaultInv

-----------------------------------------------------------------------------
(* The faults.                                                             *)

\* Jobs and transactions are taken away, and nothing else is changed that the
\* invariants speak of.
loss ==
    /\ DOMAIN workers' \subseteq DOMAIN workers
    /\ \A w \in DOMAIN workers' : workers'[w] = workers[w]
    /\ pool' \subseteq pool
    /\ UNCHANGED <<vars, delegate_info, results, services, executed, forks,
                   start, included>>

\* That is all a restart and a lost transaction do.
LEMMA LossFrame ==
    ASSUME \/ \E n \in Nodes : restart(n)
           \/ \E tx \in pool : lose_tx(tx)
           \/ UNCHANGED all_vars
    PROVE  loss
BY DEF restart, lose_tx, all_vars, system_vars, worker_vars, fault_vars, loss

LEMMA LossParts ==
    ASSUME PalletInv, WorkerTypeOK, KnownInv, SentInv, loss
    PROVE  PalletInv' /\ WorkerTypeOK' /\ KnownInv' /\ SentInv'
<1>1. PalletInv'
  BY InvStep DEF loss
<1>2. WorkerTypeOK'
  BY DEF loss, WorkerTypeOK, job_typed, call_typed
<1>3. UNCHANGED <<Errands, Delegates>>
  BY DEF loss, vars, errandbook, registry
<1>4. KnownInv'
  BY <1>3 DEF loss, KnownInv, ready_have_info, has_info
<1>5. SentInv'
  BY <1>3 DEF loss, SentInv, ErrandsAreSent, sent
<1>6. QED BY <1>1, <1>2, <1>4, <1>5

LEMMA LossStep ==
    ASSUME FaultInv, loss
    PROVE  FaultInv'
<1>1. PalletInv' /\ WorkerTypeOK' /\ KnownInv' /\ SentInv'
  BY LossParts DEF FaultInv
<1>2. /\ \A a : has_info(a) => has_info(a)'
      /\ \A id, c : sent(id, c) => sent(id, c)'
  BY DEF loss, has_info, sent
<1>3. UNCHANGED <<block_number, DevelopmentMode, start, included, forks>>
  BY DEF loss, vars, clock
<1>4. (forks < MaxForks => StartInv') /\ IncludedInv'
  BY <1>2, <1>3, StartInvStays, IncludedInvStays DEF FaultInv
<1>5. QED BY <1>1, <1>3, <1>4 DEF FaultInv

\* A retracted block brings back the chain it found and the transactions that
\* were in it, and leaves the workers that were started for it.
LEMMA RetractStep ==
    ASSUME FaultInv, NEW S \in SUBSET Nodes, retract_block(S)
    PROVE  FaultInv'
<1>1. /\ forks < MaxForks /\ forks' = forks + 1
      /\ start_workers(S)
      /\ Errands' = start[1] /\ Delegates' = start[2]
      /\ extrinsic_index' = 0
      /\ pool' = pool \cup included
      /\ included' = {}
      /\ start' = chain_state'
      /\ UNCHANGED <<delegate_info, results, services, executed>>
  BY DEF retract_block
<1>2. StartInv /\ TypeOK
  BY <1>1 DEF FaultInv, PalletInv
<1>3. PalletInv'
  BY <1>2, StartRestored DEF StartInv
<1>4. WorkerTypeOK'
  <2>1. DOMAIN workers' \subseteq Nodes \X Nat
    BY <1>1, <1>2 DEF start_workers, FaultInv, WorkerTypeOK, TypeOK
  <2>2. \A v \in DOMAIN workers' : \A j \in workers'[v].jobs :
          job_typed(v[1], j)
    BY <1>1, <1>2, StartEffect, JobOfBlock DEF FaultInv, WorkerTypeOK
  <2>3. \A tx \in pool' : tx.signer \in AccountIds /\ call_typed(tx.call)
    BY <1>1 DEF FaultInv, WorkerTypeOK, IncludedInv
  <2>4. QED
    BY <1>1, <2>1, <2>2, <2>3
       DEF FaultInv, WorkerTypeOK, job_typed, call_typed
<1>5. /\ \A a : has_info(a)' <=> has_info(a)
      /\ \A id, c : sent(id, c)' <=> sent(id, c)
  BY <1>1 DEF has_info, sent
<1>6. KnownInv'
  <2>1. ASSUME NEW a \in DOMAIN start[2], start[2][a] PROVE has_info(a)'
    BY <1>2, <1>5, <2>1 DEF StartInv
  <2>2. ASSUME NEW tx \in pool', tx.call.fn = "update_delegate_status"
        PROVE  has_info(tx.signer)'
    BY <1>1, <1>5, <2>2 DEF FaultInv, KnownInv, IncludedInv
  <2>3. QED BY <1>1, <2>1, <2>2 DEF KnownInv, ready_have_info
<1>7. SentInv'
  <2>1. ASSUME NEW c \in DOMAIN start[1], NEW id, id = start[1][c].errand_id
        PROVE  sent(id, c)'
    BY <1>2, <1>5, <2>1 DEF StartInv
  <2>2. ErrandsAreSent'
    BY <1>1, <2>1 DEF ErrandsAreSent, sent
  <2>3. ASSUME NEW tx \in pool', tx.call.fn = "init_errand"
        PROVE  sent(tx.call.errand_id, tx.call.cid)'
    BY <1>1, <1>5, <2>3 DEF FaultInv, SentInv, IncludedInv
  <2>4. QED BY <2>2, <2>3 DEF SentInv
<1>8. forks' \in 0 .. MaxForks
  BY <1>1, FaultAssumption DEF FaultInv
<1>9. ASSUME forks' < MaxForks PROVE StartInv'
  BY <1>1, <1>3, <1>6, <1>7, <1>8, <1>9, StartInvTaken
<1>10. IncludedInv'
  BY <1>1 DEF IncludedInv
<1>11. QED BY <1>3, <1>4, <1>6, <1>7, <1>8, <1>9, <1>10 DEF FaultInv

-----------------------------------------------------------------------------
(* The properties.                                                         *)

\* FaultInv is an inductive invariant of the system with all its faults.
THEOREM FaultInvariant == FaultSpec => []FaultInv
<1>1. FaultInit => FaultInv
  <2> SUFFICES ASSUME FaultInit PROVE FaultInv
    OBVIOUS
  <2>1. SystemInv
    BY SystemInvInit DEF FaultInit
  <2>2. forks = 0 /\ start = chain_state /\ included = {}
    BY DEF FaultInit
  <2>3. ASSUME forks < MaxForks PROVE StartInv
    <3>1. start = chain
      BY <2>2, <2>3, FaultAssumption DEF chain_state
    <3>2. extrinsic_index = 0
      BY DEF FaultInit, SystemInit, Init
    <3>3. Start!PalletInv
      BY <2>1, <3>1, <3>2, StartTaken DEF SystemInv
    <3>4. start[1] = Errands /\ start[2] = Delegates
      BY <3>1 DEF chain
    <3>5. QED
      BY <2>1, <3>3, <3>4
         DEF StartInv, SystemInv, KnownInv, SentInv, ready_have_info,
             ErrandsAreSent
  <2>4. QED
    BY <2>1, <2>2, <2>3, FaultAssumption DEF FaultInv, SystemInv, IncludedInv
<1>2. FaultInv /\ [FaultNext]_all_vars => FaultInv'
  <2> SUFFICES ASSUME FaultInv, [FaultNext]_all_vars PROVE FaultInv'
    OBVIOUS
  <2>1. ASSUME NEW S \in (SUBSET importers) \ {{}}, retract_block(S)
        PROVE  FaultInv'
    BY <2>1, RetractStep DEF importers
  <2>2. QED
    BY <2>1, UndisturbedStep, IncludeStep, FinishBlockStep, LossFrame, LossStep
       DEF FaultNext
<1>3. QED BY <1>1, <1>2, PTL DEF FaultSpec

\* All that AbcPalletProofs proves of the pallet's state holds on the best
\* chain whatever fails: a retracted block leaves it as it was at a state in
\* which the invariant held.
THEOREM PalletSurvivesFaults == FaultSpec => []PalletInv
<1>1. FaultInv => PalletInv
  BY DEF FaultInv
<1>2. QED BY <1>1, FaultInvariant, PTL

\* After restarts, lost transactions and retracted blocks a ready delegate's
\* node can load its service's answer, unless a restart has left the lock of
\* the answer held (ReadyUnlessLockLeft).
THEOREM ReadyDespiteFaults == FaultSpec => []ReadyUnlessLockLeft
<1>1. FaultInv => ReadyUnlessLockLeft
  BY InfoIsKnown DEF FaultInv, KnownInv
<1>2. QED BY <1>1, FaultInvariant, PTL

\* As long as no node has restarted, it can load it in any case
\* (ReadyDelegatesAreKnown): retracted blocks and lost transactions take
\* nothing away.
THEOREM ReadyIsKnownUntilRestart ==
    FaultSpec => [](restarts = 0 => ReadyDelegatesAreKnown)
<1> DEFINE LockInv == restarts \in Nat /\ (restarts = 0 => stuck_info = {})
<1>1. FaultInit => LockInv
  BY DEF FaultInit, SystemInit, WorkerInit
<1>2. LockInv /\ [FaultNext]_all_vars => LockInv'
  <2> SUFFICES ASSUME LockInv, [FaultNext]_all_vars PROVE LockInv'
    OBVIOUS
  <2>1. CASE UNCHANGED <<restarts, stuck_info>>
    BY <2>1
  <2>2. CASE \E n \in Nodes : restart(n)
    BY <2>2 DEF restart
  <2>3. CASE undisturbed
    BY <2>1, <2>3, NoLockLeft DEF undisturbed, SystemNext, fault_vars
  <2>4. CASE \E tx \in pool : include_in_block(tx)
    BY <2>1, <2>4, NoLockLeft DEF include_in_block, SystemNext
  <2>5. CASE finish_block
    BY <2>1, <2>5 DEF finish_block, end_block, stuck
  <2>6. CASE \E tx \in pool : lose_tx(tx)
    BY <2>1, <2>6 DEF lose_tx, stuck
  <2>7. CASE \E S \in (SUBSET importers) \ {{}} : retract_block(S)
    BY <2>1, <2>7 DEF retract_block, stuck
  <2>8. CASE UNCHANGED all_vars
    BY <2>1, <2>8
       DEF all_vars, fault_vars, system_vars, worker_vars, stuck
  <2>9. QED
    BY <2>2, <2>3, <2>4, <2>5, <2>6, <2>7, <2>8 DEF FaultNext
<1>3. FaultInv /\ LockInv => (restarts = 0 => ReadyDelegatesAreKnown)
  BY InfoIsKnown DEF FaultInv, KnownInv
<1>4. QED BY <1>1, <1>2, <1>3, FaultInvariant, PTL DEF FaultSpec

\* A service has got the task of every errand on the best chain, also after
\* restarts, lost transactions and retracted blocks (ErrandsAreSent).
THEOREM ErrandsReachServicesDespiteFaults == FaultSpec => []ErrandsAreSent
<1>1. FaultInv => ErrandsAreSent
  BY DEF FaultInv, SentInv
<1>2. QED BY <1>1, FaultInvariant, PTL

-----------------------------------------------------------------------------
(* Restarts and lost transactions alone: no block is retracted.            *)

LEMMA LossInv ==
    ASSUME SystemInv, loss
    PROVE  SystemInv'
<1>1. PalletInv' /\ WorkerTypeOK' /\ KnownInv' /\ SentInv'
  BY LossParts DEF SystemInv
<1>2. UNCHANGED <<Errands, Tasks, block_number>>
  BY DEF loss, vars, errandbook, tasking, clock
<1>3. OriginInv'
  BY <1>2 DEF loss, SystemInv, OriginInv, begun
<1>4. RunInv'
  BY <1>2 DEF loss, SystemInv, RunInv, ResultsAreExecuted, was_run
<1>5. QED BY <1>1, <1>3, <1>4 DEF SystemInv

\* Every step is one of the system, a loss, or the end of a fork.
LEMMA FaultCases ==
    ASSUME [FaultNext]_all_vars
    PROVE  \/ /\ system_step
              /\ UNCHANGED forks
              /\ \/ included' \subseteq included \cup pool /\ UNCHANGED start
                 \/ included' = {} /\ start' = chain_state'
           \/ loss
           \/ \E S \in (SUBSET importers) \ {{}} : retract_block(S)
<1>1. CASE undisturbed \/ \E tx \in pool : include_in_block(tx)
  BY <1>1 DEF undisturbed, include_in_block, system_step, fault_vars
<1>2. CASE finish_block
  BY <1>2 DEF finish_block, importers, system_step
<1>3. QED BY <1>1, <1>2, LossFrame DEF FaultNext

\* Without forks it is one of the first two.
LEMMA NoForkStep ==
    ASSUME MaxForks = 0, FaultInv, [FaultNext]_all_vars
    PROVE  system_step \/ loss
<1>1. ASSUME NEW S, retract_block(S) PROVE FALSE
  BY <1>1 DEF retract_block, FaultInv
<1>2. QED BY <1>1, FaultCases

\* SystemInv survives restarts and lost transactions.
THEOREM SystemInvDespiteLoss ==
    ASSUME MaxForks = 0
    PROVE  FaultSpec => []SystemInv
<1>1. FaultInit => SystemInv
  BY SystemInvInit DEF FaultInit
<1>2. FaultInv /\ SystemInv /\ [FaultNext]_all_vars => SystemInv'
  BY NoForkStep, SystemInvStep, LossInv
<1>3. QED BY <1>1, <1>2, FaultInvariant, PTL DEF FaultSpec

\* Restarts and lost transactions mix up no tasks (ErrandsComeFromTasks): a
\* job that is gone with its node is not done by another under other values.
THEOREM ErrandsHaveTasksDespiteLoss ==
    ASSUME MaxForks = 0
    PROVE  FaultSpec => []ErrandsComeFromTasks
<1>1. SystemInv => ErrandsComeFromTasks
  BY DEF SystemInv, OriginInv, begun, ErrandsComeFromTasks
<1>2. QED BY <1>1, SystemInvDespiteLoss, PTL

\* Restarts and lost transactions complete no errand that was not run, and
\* none with the result of another (ResultsAreExecuted).
THEOREM ResultsComeFromRunsDespiteLoss ==
    ASSUME MaxForks = 0
    PROVE  FaultSpec => []ResultsAreExecuted
<1>1. SystemInv => ResultsAreExecuted
  BY DEF SystemInv, RunInv
<1>2. QED BY <1>1, SystemInvDespiteLoss, PTL

\* The system implements the errand service also when nodes restart and
\* transactions are lost (ImplementsService).
THEOREM FaultsImplementService ==
    ASSUME MaxForks = 0
    PROVE  FaultSpec => ImplementsService
<1>1. FaultInit => Service!ServiceInit
  BY ServiceInits DEF FaultInit
<1>2. FaultInv /\ SystemInv /\ [FaultNext]_all_vars
        => [Service!ServiceNext]_(Service!service_vars)
  <2>1. ASSUME loss PROVE UNCHANGED Service!service_vars
    BY <2>1
       DEF loss, vars, tasking, errandbook, Service!service_vars,
           client_tasks, recorded_tasks, client_sent, client_runs,
           client_errands
  <2>2. QED BY <2>1, NoForkStep, ServiceStep
<1>3. QED
  BY <1>1, <1>2, FaultInvariant, SystemInvDespiteLoss, PTL
     DEF FaultSpec, ImplementsService, Service!Spec

-----------------------------------------------------------------------------
(* Retracted blocks and results: one node sends all tasks.                 *)

LEMMA AccountsStep ==
    ASSUME accounts_are_delegators, system_step
    PROVE  accounts_are_delegators'
<1>1. CASE UNCHANGED DelegateAccounts
  BY <1>1 DEF accounts_are_delegators
<1>2. ASSUME NEW a \in Delegators, NEW n, NEW addr,
             request_delegate(a, n, addr)
      PROVE  accounts_are_delegators'
  BY <1>2 DEF request_delegate, insert, accounts_are_delegators
<1>3. CASE user_step
  <2>1. \/ \E a \in Delegators, n \in DelegatorNames, addr \in NetAddresses :
             request_delegate(a, n, addr)
        \/ UNCHANGED DelegateAccounts
    <3>1. ASSUME NEW a \in Delegators, NEW n \in DelegatorNames,
                 NEW addr \in NetAddresses, user_request_delegate(a, n, addr)
          PROVE  request_delegate(a, n, addr) \/ UNCHANGED DelegateAccounts
      BY <3>1
         DEF user_request_delegate, request_delegate_refused, refused,
             registry
    <3>2. ASSUME NEW a, NEW n, NEW c, NEW f, user_begin_task(a, n, c, f)
          PROVE  UNCHANGED DelegateAccounts
      BY <3>2
         DEF user_begin_task, begin_task, begin_task_aborted,
             begin_task_refused, refused, registry
    <3>3. QED BY <1>3, <3>1, <3>2 DEF user_step
  <2>2. QED BY <1>1, <1>2, <2>1
<1>4. ASSUME NEW tx \in pool, include_tx(tx)
      PROVE  accounts_are_delegators'
  <2>1. CASE include_update_delegate_status(tx) \/ include_init_errand(tx)
    BY <1>1, <2>1
       DEF include_update_delegate_status, update_delegate_status,
           update_delegate_status_refused, include_init_errand, init_errand,
           init_errand_refused, refused, registry
  <2>2. CASE include_unreserve(tx)
    BY <2>2
       DEF include_unreserve, unreserve, remove, accounts_are_delegators
  <2>3. CASE include_update_errand(tx)
    BY <1>1, <2>3
       DEF include_update_errand, update_errand, update_errand_dev,
           update_errand_completed, update_errand_wait, update_errand_finish,
           report, update_errand_refused, refused, registry
  <2>4. QED BY <1>4, <2>1, <2>2, <2>3 DEF include_tx
<1>5. CASE (\E S \in SUBSET Nodes : end_block(S)) \/ offchain_step
  BY <1>1, <1>5
     DEF end_block, next_block, offchain_step, run_worker, run_service, vars,
         registry
<1>6. QED BY <1>3, <1>4, <1>5 DEF system_step

\* Only a starting worker plans a task that was not planned.
LEMMA NoNewPlan ==
    ASSUME WorkerTypeOK,
           \/ user_step
           \/ \E tx \in pool : include_tx(tx)
           \/ offchain_step
           \/ loss,
           NEW id, NEW c, planned(id, c)'
    PROVE  planned(id, c)
<1>1. CASE UNCHANGED <<workers, services>>
  BY <1>1 DEF planned, sent
<1>2. CASE user_step \/ \E tx \in pool : include_tx(tx)
  BY <1>1, <1>2, CallFrame
<1>3. ASSUME NEW w \in DOMAIN workers, NEW job \in workers[w].jobs,
             run_worker(w, job)
      PROVE  planned(id, c)
  <2>0. worker_step(w, job) /\ w[1] \in Nodes
    BY <1>3 DEF run_worker, WorkerTypeOK
  <2>1. CASE sent(id, c)'
    <3>1. PICK addr \in NetAddresses : <<id, c>> \in services'[addr]
      BY <2>1 DEF sent
    <3>2. CASE <<id, c>> \in services[addr]
      BY <3>2 DEF planned, sent
    <3>3. CASE <<id, c>> \notin services[addr]
      <4>1. job.kind = "send" /\ send_task_internal(job)
        BY <2>0, <3>1, <3>3, NewInfo
      <4>2. <<id, c>> = <<job.errand_id, job.cid>>
        BY <3>1, <3>3, <4>1 DEF send_task_internal, WorkerTypeOK
      <4>3. id = job.errand_id /\ c = job.cid
        BY <4>2
      <4>4. QED BY <4>1, <4>3 DEF planned
    <3>4. QED BY <3>2, <3>3
  <2>2. ASSUME NEW v \in DOMAIN workers', NEW j \in workers'[v].jobs,
               j.kind = "send", j.errand_id = id, j.cid = c
        PROVE  planned(id, c)
    <3>1. v \in DOMAIN workers /\ j \in workers[v].jobs
      BY <2>0, <2>2, NewJobs, JobOfResults
    <3>2. QED BY <2>2, <3>1 DEF planned
  <2>3. QED BY <2>1, <2>2 DEF planned
<1>4. CASE \E addr \in NetAddresses : \E task \in services[addr] :
             run_service(addr, task)
  BY <1>1, <1>4 DEF run_service, service_completes
<1>5. CASE loss
  BY <1>5 DEF loss, planned, sent
<1>6. QED BY <1>2, <1>3, <1>4, <1>5 DEF offchain_step

\* And what it plans is a task of the ending block.
LEMMA NewPlan ==
    ASSUME TypeOK, accounts_are_delegators, NEW S \in SUBSET Nodes,
           start_workers(S), UNCHANGED services,
           NEW id, NEW c, planned(id, c)', ~planned(id, c)
    PROVE  /\ \E n \in S : sender(n)
           /\ \E i \in DOMAIN block_tasks :
                /\ id = block_tasks[i].errand_id
                /\ c = block_tasks[i].description_cid
<1>1. PICK v \in DOMAIN workers' : \E j \in workers'[v].jobs :
             j.kind = "send" /\ j.errand_id = id /\ j.cid = c
  BY DEF planned, sent
<1>2. PICK j \in workers'[v].jobs :
             j.kind = "send" /\ j.errand_id = id /\ j.cid = c
  BY <1>1
<1>3. ~(v \in DOMAIN workers /\ j \in workers[v].jobs)
  BY <1>2 DEF planned
<1>4. v[1] \in S /\ v[1] \in Nodes /\ j \in offchain_worker(v[1])
  BY <1>3, StartEffect
<1>5. /\ job_typed(v[1], j)
      /\ \E i \in DOMAIN block_tasks :
           /\ j.errand_id = block_tasks[i].errand_id
           /\ j.cid = block_tasks[i].description_cid
      /\ \E name \in DOMAIN DelegateAccounts :
           j.account = DelegateAccounts[name]
  BY <1>2, <1>4, JobOfBlock
<1>6. j.account \in Keystore[v[1]] /\ j.account \in Delegators
  BY <1>2, <1>5 DEF job_typed, accounts_are_delegators
<1>7. sender(v[1])
  BY <1>6 DEF sender
<1>8. QED BY <1>2, <1>4, <1>5, <1>7

\* No task of the ending block was planned before, if a node that sends tasks
\* starts a worker for it; so every id still has one cid.
LEMMA PlansOfBlock ==
    ASSUME OneSender, FaultInv, PlanInv, NEW S \in SUBSET importers,
           start_workers(S), UNCHANGED services
    PROVE  /\ \A id \in Uuid, c1, c2 \in Cids :
                planned(id, c1)' /\ planned(id, c2)' => c1 = c2
           /\ \A id \in Uuid, c \in Cids : planned(id, c)' =>
                \/ id.seed < block_number
                \/ /\ id.seed = block_number
                   /\ \E n \in (seen \cup S) \cap Nodes : sender(n)
<1>0. /\ TypeOK /\ IdsFollowTheClock /\ accounts_are_delegators
      /\ S \in SUBSET Nodes /\ S \cap seen = {}
  BY DEF FaultInv, PalletInv, PlanInv, importers
<1>1. ASSUME NEW i \in DOMAIN block_tasks
      PROVE  /\ block_number \in DOMAIN Tasks
             /\ block_tasks = Tasks[block_number]
             /\ block_tasks[i].errand_id.seed = block_number
  BY <1>0, BlockTasksType DEF IdsFollowTheClock
<1>2. ASSUME NEW id, NEW c, planned(id, c)', ~planned(id, c)
      PROVE  /\ id.seed = block_number
             /\ \E n \in S : sender(n)
             /\ \E i \in DOMAIN block_tasks :
                  /\ id = block_tasks[i].errand_id
                  /\ c = block_tasks[i].description_cid
  BY <1>0, <1>1, <1>2, NewPlan
<1>3. ASSUME NEW id \in Uuid, NEW c1 \in Cids, NEW c2 \in Cids,
             planned(id, c1), planned(id, c2)', ~planned(id, c2)
      PROVE  FALSE
  <2>1. id.seed = block_number /\ block_number \in Nat
    BY <1>0, <1>2, <1>3 DEF TypeOK
  <2>2. \E m \in seen \cap Nodes : sender(m)
    BY <1>3, <2>1 DEF PlanInv
  <2>3. \E n \in S : sender(n)
    BY <1>2, <1>3
  <2>4. QED BY <1>0, <2>2, <2>3 DEF OneSender
<1>4. ASSUME NEW id \in Uuid, NEW c1 \in Cids, NEW c2 \in Cids,
             planned(id, c1)', ~planned(id, c1),
             planned(id, c2)', ~planned(id, c2)
      PROVE  c1 = c2
  <2>1. PICK i \in DOMAIN block_tasks :
               /\ id = block_tasks[i].errand_id
               /\ c1 = block_tasks[i].description_cid
    BY <1>2, <1>4
  <2>2. PICK j \in DOMAIN block_tasks :
               /\ id = block_tasks[j].errand_id
               /\ c2 = block_tasks[j].description_cid
    BY <1>2, <1>4
  <2>3. block_number \in DOMAIN Tasks /\ block_tasks = Tasks[block_number]
    BY <1>1
  <2>4. block_tasks[i].errand_id.index = block_tasks[j].errand_id.index
    BY <2>1, <2>2
  <2>5. i = j
    BY <1>0, <2>3, <2>4 DEF IdsFollowTheClock
  <2>6. QED BY <2>1, <2>2, <2>5
<1>5. ASSUME NEW id \in Uuid, NEW c1 \in Cids, NEW c2 \in Cids,
             planned(id, c1)', planned(id, c2)'
      PROVE  c1 = c2
  <2>1. CASE planned(id, c1) /\ planned(id, c2)
    BY <2>1 DEF PlanInv
  <2>2. QED BY <1>3, <1>4, <1>5, <2>1
<1>6. ASSUME NEW id \in Uuid, NEW c \in Cids, planned(id, c)'
      PROVE  \/ id.seed < block_number
             \/ /\ id.seed = block_number
                /\ \E n \in (seen \cup S) \cap Nodes : sender(n)
  <2>1. CASE planned(id, c)
    BY <2>1 DEF PlanInv
  <2>2. CASE ~planned(id, c)
    BY <1>0, <1>2, <1>6, <2>2
  <2>3. QED BY <2>1, <2>2
<1>7. QED BY <1>5, <1>6

LEMMA PlanStep ==
    ASSUME OneSender, FaultInv, PlanInv, [FaultNext]_all_vars
    PROVE  PlanInv'
<1>0. TypeOK /\ WorkerTypeOK /\ accounts_are_delegators
  BY DEF FaultInv, PalletInv, PlanInv
<1>1. ASSUME \A id, c : planned(id, c)' => planned(id, c),
             accounts_are_delegators',
             UNCHANGED <<forks, start, block_number, seen>>
      PROVE  PlanInv'
  BY <1>1 DEF PlanInv
<1>2. CASE undisturbed \/ \E tx \in pool : include_in_block(tx)
  <2>1. /\ user_step \/ offchain_step \/ \E tx \in pool : include_tx(tx)
        /\ system_step
        /\ UNCHANGED <<forks, start, seen>>
    BY <1>2 DEF undisturbed, include_in_block, system_step, fault_vars
  <2>2. UNCHANGED block_number
    BY <2>1, CallIsExtrinsic
       DEF extrinsic, offchain_step, run_worker, run_service, vars, clock
  <2>3. QED BY <1>0, <1>1, <2>1, <2>2, NoNewPlan, AccountsStep
<1>3. CASE \/ \E n \in Nodes : restart(n)
           \/ \E tx \in pool : lose_tx(tx)
           \/ UNCHANGED all_vars
  <2>1. loss
    BY <1>3, LossFrame
  <2>2. UNCHANGED <<forks, start, block_number, DelegateAccounts>>
    BY <2>1 DEF loss, vars, clock, registry
  <2>3. UNCHANGED seen
    BY <1>3 DEF restart, lose_tx, all_vars, fault_vars
  <2>4. accounts_are_delegators'
    BY <1>0, <2>2 DEF accounts_are_delegators
  <2>5. QED BY <1>0, <1>1, <2>1, <2>2, <2>3, <2>4, NoNewPlan
<1>4. CASE finish_block
  <2>1. /\ end_block(importers)
        /\ importers \in SUBSET Nodes
        /\ UNCHANGED forks
        /\ start' = chain_state'
    BY <1>4 DEF finish_block, importers
  <2>2. system_step
    BY <2>1 DEF system_step
  <2>3. /\ start_workers(importers)
        /\ UNCHANGED services
        /\ block_number' = block_number + 1
    BY <2>1 DEF end_block, next_block
  <2>4. accounts_are_delegators'
    BY <1>0, <2>2, AccountsStep
  <2>5. ASSUME forks' < MaxForks
        PROVE  \A n \in DOMAIN start'[7] : start'[7][n] \in Delegators
    <3>1. start' = chain'
      BY <2>1, <2>5, FaultAssumption DEF chain_state, FaultInv
    <3>2. start'[7] = DelegateAccounts'
      BY <3>1 DEF chain
    <3>3. QED BY <2>4, <3>2 DEF accounts_are_delegators
  <2>6. ASSUME NEW id \in Uuid, NEW c \in Cids, planned(id, c)'
        PROVE  id.seed < block_number'
    <3>1. id.seed < block_number \/ id.seed = block_number
      BY <2>3, <2>6, PlansOfBlock
    <3>2. block_number \in Nat /\ id.seed \in Nat
      BY <1>0 DEF TypeOK, Uuid
    <3>3. QED BY <2>3, <3>1, <3>2
  <2>7. \A id \in Uuid, c1, c2 \in Cids :
          planned(id, c1)' /\ planned(id, c2)' => c1 = c2
    BY <2>3, PlansOfBlock
  <2>8. QED BY <2>4, <2>5, <2>6, <2>7 DEF PlanInv
<1>5. ASSUME NEW S \in (SUBSET importers) \ {{}}, retract_block(S)
      PROVE  PlanInv'
  <2>1. /\ forks < MaxForks /\ forks' = forks + 1
        /\ start_workers(S)
        /\ UNCHANGED <<services, block_number>>
        /\ DelegateAccounts' = start[7]
        /\ start' = chain_state'
        /\ seen' = seen \cup S
    BY <1>5 DEF retract_block
  <2>2. accounts_are_delegators'
    BY <2>1 DEF PlanInv, accounts_are_delegators
  <2>3. ASSUME forks' < MaxForks
        PROVE  \A n \in DOMAIN start'[7] : start'[7][n] \in Delegators
    <3>1. start' = chain'
      BY <2>1, <2>3, FaultAssumption DEF chain_state, FaultInv
    <3>2. start'[7] = DelegateAccounts'
      BY <3>1 DEF chain
    <3>3. QED BY <2>2, <3>2 DEF accounts_are_delegators
  <2>4. /\ \A id \in Uuid, c1, c2 \in Cids :
             planned(id, c1)' /\ planned(id, c2)' => c1 = c2
        /\ \A id \in Uuid, c \in Cids : planned(id, c)' =>
             \/ id.seed < block_number
             \/ /\ id.seed = block_number
                /\ \E n \in (seen \cup S) \cap Nodes : sender(n)
    BY <2>1, PlansOfBlock
  <2>5. QED BY <2>1, <2>2, <2>3, <2>4 DEF PlanInv, sender
<1>6. QED BY <1>2, <1>3, <1>4, <1>5 DEF FaultNext

\* A service has one task of each id, so its answers match the queries.
LEMMA ForkAnswersMatch ==
    ASSUME WorkerTypeOK, ForkInv
    PROVE  answers_match
<1> SUFFICES ASSUME NEW w \in DOMAIN workers, NEW job \in workers[w].jobs,
                    job.kind = "query", NEW addr \in NetAddresses,
                    NEW task \in services[addr], task[1] = job.errand_id
             PROVE  task[2] = job.cid
  BY DEF answers_match
<1>1. /\ task = <<task[1], task[2]>>
      /\ task[1] \in Uuid /\ task[2] \in Cids /\ job.cid \in Cids
  BY DEF WorkerTypeOK, job_typed
<1>2. planned(task[1], task[2])
  BY <1>1 DEF planned, sent
<1>3. planned(task[1], job.cid)
  BY DEF ForkInv, QueriesAreSent, planned
<1>4. QED BY <1>1, <1>2, <1>3 DEF ForkInv, PlanInv

LEMMA QueriesStep ==
    ASSUME FaultInv, QueriesAreSent, [FaultNext]_all_vars
    PROVE  QueriesAreSent'
<1>0. TypeOK /\ WorkerTypeOK /\ ErrandsAreSent
  BY DEF FaultInv, PalletInv, SentInv
<1>1. ASSUME NEW v, v[1] \in Nodes, NEW j \in offchain_worker(v[1]),
             j.kind = "query"
      PROVE  sent(j.errand_id, j.cid)
  BY <1>0, <1>1, JobOfBlock DEF ErrandsAreSent
<1>2. CASE system_step
  <2>1. \A id, c : sent(id, c) => sent(id, c)'
    BY <1>0, <1>2, Grows
  <2>2. ASSUME NEW v \in DOMAIN workers', NEW j \in workers'[v].jobs,
               j.kind = "query"
        PROVE  sent(j.errand_id, j.cid)
    <3>1. CASE v \in DOMAIN workers /\ j \in workers[v].jobs
      BY <2>2, <3>1 DEF QueriesAreSent
    <3>2. CASE v[1] \in Nodes /\ j \in offchain_worker(v[1])
      BY <1>1, <2>2, <3>2
    <3>3. CASE v[1] \in Nodes /\ j \in reports(v[1])
      BY <1>0, <2>2, <3>3, JobOfResults
    <3>4. QED BY <1>0, <1>2, <3>1, <3>2, <3>3, NewJob
  <2>3. QED BY <2>1, <2>2 DEF QueriesAreSent
<1>3. ASSUME NEW S \in (SUBSET importers) \ {{}}, retract_block(S)
      PROVE  QueriesAreSent'
  <2>1. start_workers(S) /\ UNCHANGED services /\ S \in SUBSET Nodes
    BY <1>3 DEF retract_block, importers
  <2>2. \A id, c : sent(id, c) => sent(id, c)'
    BY <2>1 DEF sent
  <2>3. ASSUME NEW v \in DOMAIN workers', NEW j \in workers'[v].jobs,
               j.kind = "query"
        PROVE  sent(j.errand_id, j.cid)
    <3>1. CASE v \in DOMAIN workers /\ j \in workers[v].jobs
      BY <2>3, <3>1 DEF QueriesAreSent
    <3>2. CASE v[1] \in Nodes /\ j \in offchain_worker(v[1])
      BY <1>1, <2>3, <3>2
    <3>3. QED BY <1>0, <2>1, <3>1, <3>2, StartEffect
  <2>4. QED BY <2>2, <2>3 DEF QueriesAreSent
<1>4. CASE loss
  BY <1>4 DEF loss, QueriesAreSent, sent
<1>5. QED BY <1>2, <1>3, <1>4, FaultCases

LEMMA RunAndBackStep ==
    ASSUME FaultInv, ForkInv, [FaultNext]_all_vars
    PROVE  RunInv' /\ BroughtBackInv'
<1>0. TypeOK /\ WorkerTypeOK /\ answers_match
  BY ForkAnswersMatch DEF FaultInv, PalletInv
<1>1. CASE /\ system_step
           /\ UNCHANGED forks
           /\ \/ included' \subseteq included \cup pool /\ UNCHANGED start
              \/ included' = {} /\ start' = chain_state'
  <2>1. RunInv'
    BY <1>0, <1>1, RunStep DEF ForkInv
  <2>2. \A task, c : was_run(task, c) => was_run(task, c)'
    BY <1>0, <1>1, Grows
  <2>3. ASSUME NEW tx \in included', tx.call.fn = "update_errand"
        PROVE  was_run(tx.call.result, tx.call.cid)'
    BY <1>1, <2>2, <2>3 DEF ForkInv, RunInv, BroughtBackInv
  <2>4. ASSUME forks' < MaxForks, NEW c \in DOMAIN start'[1],
               start'[1][c].status = "Done", NEW r, r = start'[1][c].result
        PROVE  was_run(r, c)'
    <3>1. CASE UNCHANGED start
      BY <1>1, <2>2, <2>4, <3>1 DEF ForkInv, BroughtBackInv
    <3>2. CASE start' = chain_state'
      <4>1. start'[1] = Errands'
        BY <1>1, <2>4, <3>2, FaultAssumption DEF chain_state, chain, FaultInv
      <4>2. QED
        BY <2>1, <2>4, <4>1 DEF RunInv, ResultsAreExecuted, was_run
    <3>3. QED BY <1>1, <3>1, <3>2
  <2>5. QED BY <2>1, <2>3, <2>4 DEF BroughtBackInv, was_run
<1>2. CASE loss
  <2>1. UNCHANGED Errands
    BY <1>2 DEF loss, vars, errandbook
  <2>2. RunInv'
    BY <1>2, <2>1 DEF loss, ForkInv, RunInv, ResultsAreExecuted, was_run
  <2>3. BroughtBackInv'
    BY <1>2 DEF loss, ForkInv, BroughtBackInv, was_run
  <2>4. QED BY <2>2, <2>3
<1>3. ASSUME NEW S \in (SUBSET importers) \ {{}}, retract_block(S)
      PROVE  RunInv' /\ BroughtBackInv'
  <2>1. /\ forks < MaxForks /\ forks' = forks + 1
        /\ start_workers(S)
        /\ Errands' = start[1]
        /\ pool' = pool \cup included
        /\ included' = {}
        /\ start' = chain_state'
        /\ UNCHANGED <<results, services, executed>>
    BY <1>3 DEF retract_block
  <2>2. \A task, c : was_run(task, c)' <=> was_run(task, c)
    BY <2>1 DEF was_run
  <2>3. ASSUME NEW c \in DOMAIN Errands', Errands'[c].status = "Done",
               NEW r, r = Errands'[c].result
        PROVE  was_run(r, c)'
    BY <2>1, <2>2, <2>3 DEF ForkInv, BroughtBackInv
  <2>4. ASSUME NEW v \in DOMAIN workers', NEW j \in workers'[v].jobs,
               j.kind = "report"
        PROVE  was_run(j.result, j.cid)'
    <3>1. S \in SUBSET Nodes
      BY DEF importers
    <3>2. v \in DOMAIN workers /\ j \in workers[v].jobs
      BY <1>0, <2>1, <2>4, <3>1, StartEffect, JobOfBlock
    <3>3. QED BY <2>2, <2>4, <3>2 DEF ForkInv, RunInv
  <2>5. ASSUME NEW tx \in pool', tx.call.fn = "update_errand"
        PROVE  was_run(tx.call.result, tx.call.cid)'
    BY <2>1, <2>2, <2>5 DEF ForkInv, RunInv, BroughtBackInv
  <2>6. ASSUME NEW n \in Nodes, NEW i \in DOMAIN results'[n]
        PROVE  was_run(results[n][i][2], results[n][i][1])'
    BY <2>1, <2>6 DEF ForkInv, RunInv, was_run
  <2>7. ResultsAreExecuted'
    BY <2>3 DEF ResultsAreExecuted, was_run
  <2>8. RunInv'
    BY <2>1, <2>4, <2>5, <2>6, <2>7 DEF ForkInv, RunInv
  <2>9. ASSUME forks' < MaxForks PROVE start'[1] = Errands'
    BY <2>1, <2>9, FaultAssumption DEF chain_state, chain, FaultInv
  <2>10. BroughtBackInv'
    BY <2>1, <2>7, <2>9 DEF BroughtBackInv, ResultsAreExecuted, was_run
  <2>11. QED BY <2>8, <2>10
<1>4. QED BY <1>1, <1>2, <1>3, FaultCases

\* Results stay those of executed tasks of their cid (ResultsAreExecuted)
\* also when blocks are retracted and the same errand id is given to another
\* task in their place, as long as one node sends all tasks: its worker runs
\* for one block of each height, so no service ever has two tasks of one id.
THEOREM ResultsComeFromRunsDespiteForks ==
    ASSUME OneSender
    PROVE  FaultSpec => []ResultsAreExecuted
<1>1. FaultInit => ForkInv
  <2> SUFFICES ASSUME FaultInit PROVE ForkInv
    OBVIOUS
  <2>1. /\ DOMAIN DelegateAccounts = {} /\ DOMAIN Errands = {}
        /\ DOMAIN workers = {}
        /\ \A addr \in NetAddresses : services[addr] = {}
    BY EmptyMapType DEF FaultInit, SystemInit, Init, WorkerInit
  <2>2. RunInv /\ included = {}
    BY SystemInvInit DEF FaultInit, SystemInv
  <2>3. ASSUME forks < MaxForks
        PROVE  start[1] = Errands /\ start[7] = DelegateAccounts
    BY <2>3, FaultAssumption DEF FaultInit, chain_state, chain
  <2>4. PlanInv
    BY <2>1, <2>3 DEF PlanInv, accounts_are_delegators, planned, sent
  <2>5. QueriesAreSent /\ BroughtBackInv
    BY <2>1, <2>2, <2>3 DEF QueriesAreSent, BroughtBackInv
  <2>6. QED BY <2>2, <2>4, <2>5 DEF ForkInv
<1>2. FaultInv /\ ForkInv /\ [FaultNext]_all_vars => ForkInv'
  BY PlanStep, QueriesStep, RunAndBackStep DEF ForkInv
<1>3. ForkInv => ResultsAreExecuted
  BY DEF ForkInv, RunInv
<1>4. QED BY <1>1, <1>2, <1>3, FaultInvariant, PTL DEF FaultSpec

=============================================================================
