--------------------------- MODULE AbcPalletProofs ---------------------------
(***************************************************************************)
(* Proofs about AbcPallet for every value of its constants: the inductive  *)
(* invariant PalletInv, the safety properties it implies, and the action   *)
(* property PaidOnlyOnCompletion.                                          *)
(***************************************************************************)
EXTENDS AbcPallet, StorageMapTheorems

-----------------------------------------------------------------------------
(* Types.                                                                  *)

LEMMA TypeInit == Init => TypeOK
BY PalletAssumption, EmptyMapType DEF Init, TypeOK

\* An extrinsic advances the index and leaves the block number and the mode.
LEMMA ExtrinsicType ==
    ASSUME TypeOK, extrinsic
    PROVE  /\ block_number' \in 1 .. MaxBlock
           /\ extrinsic_index' \in 0 .. MaxExtrinsics
           /\ DevelopmentMode' \in BOOLEAN
BY PalletAssumption DEF TypeOK, extrinsic

LEMMA RequestDelegateType ==
    ASSUME TypeOK, NEW a \in AccountIds, NEW n \in DelegatorNames,
           NEW addr \in NetAddresses, request_delegate(a, n, addr)
    PROVE  TypeOK'
<1> USE DEF request_delegate
<1>1. IsMap(Delegates', AccountIds, BOOLEAN)
  BY InsertMap DEF TypeOK
<1>2. IsMap(DelegateNetAddress', AccountIds, NetAddresses)
  BY InsertMap DEF TypeOK
<1>3. IsMap(DelegateAccounts', DelegatorNames, AccountIds)
  BY InsertMap DEF TypeOK
<1>4. IsMap(DelegatesApplys', Nat, Seq(DelegatorNames \X AccountIds))
  <2> DEFINE old == get(DelegatesApplys, block_number, <<>>)
  <2>1. old \in Seq(DelegatorNames \X AccountIds)
    BY DEF TypeOK, IsMap, get
  <2>2. Append(old, <<n, a>>) \in Seq(DelegatorNames \X AccountIds)
    BY <2>1
  <2>3. block_number \in Nat
    BY DEF TypeOK
  <2> HIDE DEF old
  <2>4. QED BY <2>2, <2>3, InsertMap DEF TypeOK, old
<1>5. QED
  BY <1>1, <1>2, <1>3, <1>4, ExtrinsicType
     DEF TypeOK, errandbook, tasking, balances

LEMMA UpdateDelegateStatusType ==
    ASSUME TypeOK, NEW a \in AccountIds, NEW b \in AccountIds,
           update_delegate_status(a, b)
    PROVE  TypeOK'
<1>1. IsMap(Delegates', AccountIds, BOOLEAN)
  BY MutateMap DEF TypeOK, update_delegate_status
<1>2. QED
  BY <1>1, ExtrinsicType
     DEF TypeOK, update_delegate_status, errandbook, tasking, balances

\* The tasks of the current block are a sequence of tasks, empty or not.
LEMMA BlockTasksType ==
    ASSUME TypeOK
    PROVE  /\ block_tasks \in Seq(TaskInfo)
           /\ block_number \in DOMAIN Tasks => block_tasks = Tasks[block_number]
           /\ block_number \notin DOMAIN Tasks => block_tasks = <<>>
<1>1. block_tasks \in Seq(TaskInfo)
  BY DEF TypeOK, IsMap, get, block_tasks
<1>2. QED BY <1>1 DEF block_tasks, get

\* The task begin_task records.
new_task(client, delegator_name, description_cid, fee) ==
    [client |-> client, delegator |-> delegator_name,
     description_cid |-> description_cid,
     errand_id |-> generate_errand_id(get(DelegateAccounts, delegator_name,
                                          DefaultAccount)),
     fee |-> fee]

LEMMA NewTaskType ==
    ASSUME TypeOK, NEW a \in AccountIds, NEW n \in DelegatorNames,
           NEW c \in Cids, NEW f \in Fees, may_begin(n, c)
    PROVE  /\ new_task(a, n, c, f) \in TaskInfo
           /\ get(DelegateAccounts, n, DefaultAccount) = DelegateAccounts[n]
           /\ DelegateAccounts[n] \in AccountIds
<1>1. /\ get(DelegateAccounts, n, DefaultAccount) = DelegateAccounts[n]
      /\ DelegateAccounts[n] \in AccountIds
  BY DEF TypeOK, IsMap, may_begin, delegate_ready, get
<1>2. generate_errand_id(DelegateAccounts[n]) \in Uuid
  BY <1>1 DEF TypeOK, Uuid, generate_errand_id
<1>3. f \in Nat
  BY PalletAssumption
<1>4. QED
  BY <1>1, <1>2, <1>3 DEF new_task, TaskInfo

\* A task that begins has its fee reserved: the reserve has succeeded.
LEMMA BeginTaskReserves ==
    ASSUME NEW a, NEW n, NEW c, NEW f, begin_task(a, n, c, f)
    PROVE  /\ free[a] >= f
           /\ free' = [free EXCEPT ![a] = @ - f]
           /\ reserved' = [reserved EXCEPT ![a] = @ + f]
BY DEF begin_task, task_accepted, can_reserve, reserve

LEMMA BeginTaskType ==
    ASSUME TypeOK, NEW a \in AccountIds, NEW n \in DelegatorNames,
           NEW c \in Cids, NEW f \in Fees, begin_task(a, n, c, f)
    PROVE  TypeOK'
<1> USE DEF begin_task
<1>1. f \in Nat
  BY PalletAssumption
<1>2. IsMap(ClientTaskFee', AccountIds, Nat)
  BY <1>1, InsertMap DEF TypeOK
<1>3. IsMap(ClientDelegate', AccountIds, AccountIds)
  <2>1. /\ ClientDelegate' = insert(ClientDelegate, a, DelegateAccounts[n])
        /\ DelegateAccounts[n] \in AccountIds
    BY NewTaskType
  <2> HIDE DEF begin_task
  <2>2. QED BY <2>1, InsertMap DEF TypeOK
<1>4. IsMap(Tasks', Nat, Seq(TaskInfo))
  <2>1. Append(block_tasks, new_task(a, n, c, f)) \in Seq(TaskInfo)
    BY NewTaskType, BlockTasksType
  <2>2. Tasks' = insert(Tasks, block_number,
                        Append(block_tasks, new_task(a, n, c, f)))
    BY DEF new_task
  <2>3. IsMap(Tasks, Nat, Seq(TaskInfo)) /\ block_number \in Nat
    BY DEF TypeOK
  <2> HIDE DEF begin_task
  <2>4. QED BY <2>1, <2>2, <2>3, InsertMap
<1>5. free' \in [AccountIds -> Nat] /\ reserved' \in [AccountIds -> Nat]
  <2> HIDE DEF begin_task
  <2>1. QED BY <1>1, BeginTaskReserves DEF TypeOK
<1>6. QED
  BY <1>2, <1>3, <1>4, <1>5, ExtrinsicType DEF TypeOK, registry, errandbook

LEMMA BeginTaskAbortedType ==
    ASSUME TypeOK, NEW a \in AccountIds, NEW n \in DelegatorNames,
           NEW c \in Cids, NEW f \in Fees, begin_task_aborted(a, n, c, f)
    PROVE  TypeOK'
<1>1. IsMap(Tasks', Nat, Seq(TaskInfo))
  BY RemoveMap DEF TypeOK, begin_task_aborted
<1>2. QED
  BY <1>1, ExtrinsicType
     DEF TypeOK, begin_task_aborted, registry, errandbook, balances

LEMMA InitErrandType ==
    ASSUME TypeOK, NEW a \in AccountIds, NEW b \in AccountIds,
           NEW id \in ErrandIds, NEW c \in Cids, init_errand(a, b, id, c)
    PROVE  TypeOK'
<1>1. [account_id |-> b, errand_id |-> id, status |-> "Processing",
       result |-> NoResult] \in Errand
  BY DEF Errand, ErrandStatus
<1>2. IsMap(Errands', Cids, Errand)
  BY <1>1, InsertMap DEF TypeOK, init_errand
<1>3. ProcessingErrands' \in [Cids -> Nat]
  BY DEF TypeOK, init_errand, add_processing
<1>4. QED
  BY <1>2, <1>3, ExtrinsicType
     DEF TypeOK, init_errand, registry, tasking, balances

\* Repatriating a reserve keeps both balances natural numbers.
LEMMA RepatriateType ==
    ASSUME TypeOK, NEW a \in AccountIds, NEW d \in AccountIds \cup {DefaultAccount},
           NEW v \in Nat, repatriate_reserved(a, d, v)
    PROVE  /\ free' \in [AccountIds -> Nat]
           /\ reserved' \in [AccountIds -> Nat]
           /\ \A x \in AccountIds : x # a => reserved'[x] = reserved[x]
           /\ reserved'[a] <= reserved[a]
<1>1. movable(a, v) \in Nat /\ movable(a, v) <= reserved[a]
  BY DEF TypeOK, movable
<1>2. /\ free \in [AccountIds -> Nat]
      /\ reserved \in [AccountIds -> Nat]
  BY DEF TypeOK
<1>3. CASE /\ a = d
           /\ free' = [free EXCEPT ![a] = @ + movable(a, v)]
           /\ reserved' = [reserved EXCEPT ![a] = @ - movable(a, v)]
  BY <1>1, <1>2, <1>3
<1>4. CASE /\ a # d
           /\ account_exists(d)
           /\ free' = [free EXCEPT ![d] = @ + movable(a, v),
                                  ![a] = IF reaped(a, v) THEN 0 ELSE @]
           /\ reserved' = [reserved EXCEPT
                              ![a] = IF reaped(a, v)
                                       THEN 0 ELSE @ - movable(a, v)]
  <2>1. d \in AccountIds
    BY <1>4 DEF account_exists
  <2>2. CASE reaped(a, v)
    BY <1>1, <1>2, <1>4, <2>1, <2>2
  <2>3. CASE ~reaped(a, v)
    BY <1>1, <1>2, <1>4, <2>1, <2>3
  <2>4. QED BY <2>2, <2>3
<1>5. CASE UNCHANGED balances
  BY <1>2, <1>5 DEF balances
<1>6. QED BY <1>3, <1>4, <1>5 DEF repatriate_reserved

\* What a completion reads and writes.
LEMMA UpdateErrandResultType ==
    ASSUME TypeOK, NEW c \in DOMAIN Errands, NEW r \in ResultCids,
           update_errand_result(c, r)
    PROVE  /\ c \in Cids
           /\ Errands[c].account_id \in AccountIds
           /\ IsMap(Errands', Cids, Errand)
           /\ DOMAIN Errands' = DOMAIN Errands
           /\ Errands'[c].status = "Done"
           /\ \A x \in DOMAIN Errands : x # c => Errands'[x] = Errands[x]
           /\ Errands'[c].result = r
           /\ Errands'[c].account_id = Errands[c].account_id
           /\ Errands'[c].errand_id = Errands[c].errand_id
           /\ ProcessingErrands' \in [Cids -> Nat]
           /\ free' \in [AccountIds -> Nat]
           /\ reserved' \in [AccountIds -> Nat]
           /\ \A x \in AccountIds :
                x # Errands[c].account_id => reserved'[x] = reserved[x]
           /\ reserved'[Errands[c].account_id]
                <= reserved[Errands[c].account_id]
<1> DEFINE a == Errands[c].account_id
<1>1. c \in Cids /\ Errands[c] \in Errand /\ a \in AccountIds
  BY DEF TypeOK, IsMap, Errand
<1>2. /\ client_task_fee(a) \in Nat
      /\ client_delegate(a) \in AccountIds \cup {DefaultAccount}
  BY DEF TypeOK, client_task_fee, client_delegate, get, IsMap
<1>3. repatriate_reserved(a, client_delegate(a), client_task_fee(a))
  BY DEF update_errand_result
<1>4. /\ free' \in [AccountIds -> Nat]
      /\ reserved' \in [AccountIds -> Nat]
      /\ \A x \in AccountIds : x # a => reserved'[x] = reserved[x]
      /\ reserved'[a] <= reserved[a]
  BY <1>1, <1>2, <1>3, RepatriateType
<1> DEFINE done == [Errands[c] EXCEPT !.status = "Done", !.result = r]
<1>5. /\ done \in Errand /\ done.status = "Done" /\ done.result = r
      /\ done.account_id = Errands[c].account_id
      /\ done.errand_id = Errands[c].errand_id
  BY <1>1 DEF Errand, ErrandStatus
<1>6. Errands' = [Errands EXCEPT ![c] = done]
  BY DEF update_errand_result, TypeOK, IsMap
<1>7. /\ IsMap(Errands', Cids, Errand)
      /\ DOMAIN Errands' = DOMAIN Errands
      /\ Errands'[c] = done
      /\ \A x \in DOMAIN Errands : x # c => Errands'[x] = Errands[x]
  <2> HIDE DEF done
  <2>1. QED BY <1>5, <1>6, MutateMap DEF TypeOK
<1>8. ProcessingErrands' \in [Cids -> Nat]
  BY <1>1 DEF TypeOK, update_errand_result, remove_processing
<1>9. QED
  BY <1>1, <1>4, <1>5, <1>7, <1>8

\* An authorised account that may report is an account.
LEMMA ReportsType ==
    ASSUME TypeOK, NEW a \in AccountIds, NEW c \in Cids
    PROVE  /\ get(CompletedErrands, c, <<>>) \in Seq(AccountIds)
           /\ reports_with(a, c) \in Seq(AccountIds)
<1>1. get(CompletedErrands, c, <<>>) \in Seq(AccountIds)
  BY DEF TypeOK, IsMap, get
<1>2. QED BY <1>1 DEF reports_with

LEMMA ReportType ==
    ASSUME TypeOK, NEW a \in AccountIds, NEW c \in Cids, report(a, c)
    PROVE  IsMap(CompletedErrands', Cids, Seq(AccountIds))
<1>1. /\ IsMap(CompletedErrands, Cids, Seq(AccountIds))
      /\ CompletedErrands' = insert(CompletedErrands, c, reports_with(a, c))
  BY DEF TypeOK, report
<1>2. QED BY <1>1, ReportsType, InsertMap

LEMMA UpdateErrandType ==
    ASSUME TypeOK, NEW a \in AccountIds, NEW c \in Cids, NEW r \in ResultCids,
           update_errand(a, c, r)
    PROVE  TypeOK'
<1>1. CASE update_errand_dev(a, c, r)
  <2>1. c \in DOMAIN Errands /\ update_errand_result(c, r) /\ extrinsic
    BY <1>1 DEF update_errand_dev
  <2>2. UNCHANGED <<CompletedErrands, registry, tasking>>
    BY <1>1 DEF update_errand_dev
  <2>3. QED
    BY <2>1, <2>2, UpdateErrandResultType, ExtrinsicType
       DEF TypeOK, registry, tasking
<1>2. CASE update_errand_completed(a, c) \/ update_errand_wait(a, c)
  <2>1. report(a, c) /\ UNCHANGED <<Errands, ProcessingErrands, balances>>
    BY <1>2 DEF update_errand_completed, update_errand_wait
  <2>2. extrinsic /\ UNCHANGED <<registry, tasking>>
    BY <2>1 DEF report
  <2>3. QED
    BY <2>1, <2>2, ReportType, ExtrinsicType
       DEF TypeOK, registry, tasking, balances
<1>3. CASE update_errand_finish(a, c, r)
  <2>1. report(a, c) /\ update_errand_result(c, r)
    BY <1>3 DEF update_errand_finish
  <2>2. c \in DOMAIN Errands /\ extrinsic /\ UNCHANGED <<registry, tasking>>
    BY <2>1 DEF report
  <2>3. QED
    BY <2>1, <2>2, ReportType, UpdateErrandResultType, ExtrinsicType
       DEF TypeOK, registry, tasking
<1>4. QED BY <1>1, <1>2, <1>3 DEF update_errand

LEMMA UnreserveType ==
    ASSUME TypeOK, NEW n \in DelegatorNames, NEW a \in AccountIds,
           unreserve(n, a)
    PROVE  TypeOK'
<1> USE DEF unreserve
<1>1. IsMap(Delegates', AccountIds, BOOLEAN)
  BY RemoveMap DEF TypeOK
<1>2. IsMap(ClientDelegate', AccountIds, AccountIds)
  BY RemoveMap DEF TypeOK
<1>3. IsMap(DelegateNetAddress', AccountIds, NetAddresses)
  BY RemoveMap DEF TypeOK
<1>4. IsMap(DelegateAccounts', DelegatorNames, AccountIds)
  BY RemoveMap DEF TypeOK
<1>5. QED
  BY <1>1, <1>2, <1>3, <1>4, ExtrinsicType DEF TypeOK, errandbook, balances

\* A refused call only takes an extrinsic index.
LEMMA RefusedType ==
    ASSUME TypeOK, refused
    PROVE  TypeOK'
BY ExtrinsicType
   DEF TypeOK, refused, registry, errandbook, tasking, balances

\* The disjuncts of Next, with the five refusals as one.
LEMMA NextCases ==
    ASSUME Next
    PROVE  \/ \E a \in AccountIds, n \in DelegatorNames, addr \in NetAddresses :
                request_delegate(a, n, addr)
           \/ \E a, b \in AccountIds : update_delegate_status(a, b)
           \/ \E a \in AccountIds, n \in DelegatorNames, c \in Cids, f \in Fees :
                begin_task(a, n, c, f)
           \/ \E a \in AccountIds, n \in DelegatorNames, c \in Cids, f \in Fees :
                begin_task_aborted(a, n, c, f)
           \/ \E a, b \in AccountIds, id \in ErrandIds, c \in Cids :
                init_errand(a, b, id, c)
           \/ \E a \in AccountIds, c \in Cids, r \in ResultCids :
                update_errand(a, c, r)
           \/ \E n \in DelegatorNames, a \in AccountIds : unreserve(n, a)
           \/ refused
           \/ next_block
BY DEF Next, request_delegate_refused, update_delegate_status_refused,
       begin_task_refused, init_errand_refused, update_errand_refused

LEMMA TypeStep == TypeOK /\ [Next]_vars => TypeOK'
<1> SUFFICES ASSUME TypeOK, [Next]_vars PROVE TypeOK'
  OBVIOUS
<1>1. CASE Next
  <2>1. CASE next_block
    BY <2>1, PalletAssumption
       DEF next_block, TypeOK, registry, errandbook, tasking, balances
  <2>2. QED
    BY <1>1, <2>1, NextCases, RequestDelegateType, UpdateDelegateStatusType,
       BeginTaskType, BeginTaskAbortedType, InitErrandType, UpdateErrandType,
       UnreserveType, RefusedType
<1>2. CASE UNCHANGED vars
  BY <1>2
     DEF TypeOK, vars, registry, errandbook, tasking, balances, clock
<1>3. QED BY <1>1, <1>2

\* Type correctness of the pallet's storage and of the balances it moves: no
\* balance ever becomes negative (TypeOK).
THEOREM TypeCorrect == Spec => []TypeOK
BY TypeInit, TypeStep, PTL DEF Spec

-----------------------------------------------------------------------------
(* Errand ids and the tasks of a block.                                    *)

\* Every step but begin_task, its abort and a new block leaves the tasks and
\* the block number alone and does not turn the extrinsic index back.
LEMMA TasksFrame ==
    ASSUME TypeOK, [Next]_vars
    PROVE  \/ \E a \in AccountIds, n \in DelegatorNames, c \in Cids, f \in Fees :
                begin_task(a, n, c, f) \/ begin_task_aborted(a, n, c, f)
           \/ next_block
           \/ /\ UNCHANGED <<Tasks, block_number>>
              /\ extrinsic_index' >= extrinsic_index
<1>1. CASE UNCHANGED vars
  BY <1>1 DEF vars, tasking, clock, TypeOK
<1>2. ASSUME extrinsic, UNCHANGED Tasks
      PROVE  /\ UNCHANGED <<Tasks, block_number>>
             /\ extrinsic_index' >= extrinsic_index
  BY <1>2 DEF extrinsic, TypeOK
<1>3. ASSUME NEW a \in AccountIds, NEW c \in Cids, NEW r \in ResultCids,
             update_errand(a, c, r)
      PROVE  extrinsic /\ UNCHANGED Tasks
  BY <1>3 DEF update_errand, update_errand_dev, update_errand_completed,
     update_errand_wait, update_errand_finish, report, tasking
<1>4. ASSUME NEW a \in AccountIds, NEW n \in DelegatorNames,
             NEW addr \in NetAddresses, request_delegate(a, n, addr)
      PROVE  extrinsic /\ UNCHANGED Tasks
  BY <1>4 DEF request_delegate, tasking
<1>5. ASSUME NEW a \in AccountIds, NEW b \in AccountIds,
             update_delegate_status(a, b)
      PROVE  extrinsic /\ UNCHANGED Tasks
  BY <1>5 DEF update_delegate_status, tasking
<1>6. ASSUME NEW a \in AccountIds, NEW b \in AccountIds,
             NEW id \in ErrandIds, NEW c \in Cids, init_errand(a, b, id, c)
      PROVE  extrinsic /\ UNCHANGED Tasks
  BY <1>6 DEF init_errand, tasking
<1>7. ASSUME NEW n \in DelegatorNames, NEW a \in AccountIds, unreserve(n, a)
      PROVE  extrinsic /\ UNCHANGED Tasks
  BY <1>7 DEF unreserve
<1>8. ASSUME refused PROVE extrinsic /\ UNCHANGED Tasks
  BY <1>8 DEF refused, tasking
<1>9. QED
  BY <1>1, <1>2, <1>3, <1>4, <1>5, <1>6, <1>7, <1>8, NextCases

\* A task appended to the current block: the map and the new list.
LEMMA BeginTaskTasks ==
    ASSUME TypeOK, NEW a \in AccountIds, NEW n \in DelegatorNames,
           NEW c \in Cids, NEW f \in Fees, begin_task(a, n, c, f)
    PROVE  LET k == Len(block_tasks) + 1 IN
           /\ DOMAIN Tasks' = DOMAIN Tasks \cup {block_number}
           /\ \A b \in DOMAIN Tasks : b # block_number => Tasks'[b] = Tasks[b]
           /\ DOMAIN Tasks'[block_number] = DOMAIN block_tasks \cup {k}
           /\ k \notin DOMAIN block_tasks
           /\ \A i \in DOMAIN block_tasks :
                Tasks'[block_number][i] = block_tasks[i]
           /\ Tasks'[block_number][k] = new_task(a, n, c, f)
           /\ block_number' = block_number
           /\ extrinsic_index' = extrinsic_index + 1
<1> DEFINE k == Len(block_tasks) + 1
           t == new_task(a, n, c, f)
<1>1. Tasks' = insert(Tasks, block_number, Append(block_tasks, t))
  BY DEF begin_task, new_task
<1>2. block_tasks \in Seq(TaskInfo)
  BY BlockTasksType
<1>3. block_number' = block_number /\ extrinsic_index' = extrinsic_index + 1
  BY DEF begin_task, extrinsic
<1> HIDE DEF t
<1>4. /\ DOMAIN Append(block_tasks, t) = DOMAIN block_tasks \cup {k}
      /\ k \notin DOMAIN block_tasks
      /\ \A i \in DOMAIN block_tasks : Append(block_tasks, t)[i] = block_tasks[i]
      /\ Append(block_tasks, t)[k] = t
  BY <1>2
<1>5. /\ DOMAIN Tasks' = DOMAIN Tasks \cup {block_number}
      /\ \A b \in DOMAIN Tasks : b # block_number => Tasks'[b] = Tasks[b]
      /\ Tasks'[block_number] = Append(block_tasks, t)
  BY <1>1 DEF insert
<1> HIDE DEF k
<1>6. QED BY <1>3, <1>4, <1>5 DEF k, t

LEMMA IdsStep ==
    TypeOK /\ IdsFollowTheClock /\ [Next]_vars => IdsFollowTheClock'
<1> SUFFICES ASSUME TypeOK, IdsFollowTheClock, [Next]_vars
             PROVE  IdsFollowTheClock'
  OBVIOUS
<1> USE DEF IdsFollowTheClock
<1>0. /\ block_number \in Nat /\ extrinsic_index \in Nat
      /\ DOMAIN Tasks \subseteq Nat
      /\ \A b \in DOMAIN Tasks : \A i \in DOMAIN Tasks[b] :
           Tasks[b][i].errand_id.index \in Nat
  <2>1. \A b \in DOMAIN Tasks : Tasks[b] \in Seq(TaskInfo)
    BY DEF TypeOK, IsMap
  <2>2. \A b \in DOMAIN Tasks : \A i \in DOMAIN Tasks[b] :
           Tasks[b][i] \in TaskInfo
    BY <2>1
  <2>3. QED BY <2>2 DEF TypeOK, IsMap, TaskInfo, Uuid
<1>1. ASSUME NEW a \in AccountIds, NEW n \in DelegatorNames, NEW c \in Cids,
             NEW f \in Fees, begin_task(a, n, c, f)
      PROVE  IdsFollowTheClock'
  <2> DEFINE task == new_task(a, n, c, f)
             k == Len(block_tasks) + 1
  <2>1. /\ task.errand_id.seed = block_number
        /\ task.errand_id.index = extrinsic_index
    BY DEF new_task, generate_errand_id
  <2>2. /\ DOMAIN Tasks' = DOMAIN Tasks \cup {block_number}
        /\ \A b \in DOMAIN Tasks : b # block_number => Tasks'[b] = Tasks[b]
        /\ DOMAIN Tasks'[block_number] = DOMAIN block_tasks \cup {k}
        /\ k \notin DOMAIN block_tasks
        /\ \A i \in DOMAIN block_tasks :
             Tasks'[block_number][i] = block_tasks[i]
        /\ Tasks'[block_number][k] = task
        /\ block_number' = block_number
        /\ extrinsic_index' = extrinsic_index + 1
    BY <1>1, BeginTaskTasks
  <2>3. \A i \in DOMAIN block_tasks :
           /\ block_number \in DOMAIN Tasks
           /\ block_tasks[i] = Tasks[block_number][i]
           /\ DOMAIN block_tasks = DOMAIN Tasks[block_number]
    BY BlockTasksType
  <2> HIDE DEF task, k
  <2>4. ASSUME NEW b \in DOMAIN Tasks', b # block_number
        PROVE  /\ b <= block_number'
               /\ \A i \in DOMAIN Tasks'[b] :
                    /\ Tasks'[b][i].errand_id.seed = b
                    /\ b = block_number' =>
                         Tasks'[b][i].errand_id.index < extrinsic_index'
               /\ \A i, j \in DOMAIN Tasks'[b] :
                    Tasks'[b][i].errand_id.index = Tasks'[b][j].errand_id.index
                      => i = j
    BY <2>2, <2>4
  <2>5. ASSUME NEW i \in DOMAIN Tasks'[block_number]
        PROVE  /\ Tasks'[block_number][i].errand_id.seed = block_number
               /\ Tasks'[block_number][i].errand_id.index < extrinsic_index'
               /\ i # k => Tasks'[block_number][i].errand_id.index
                               < extrinsic_index
    BY <1>0, <2>1, <2>2, <2>3
  <2>6. ASSUME NEW i \in DOMAIN Tasks'[block_number],
               NEW j \in DOMAIN Tasks'[block_number],
               Tasks'[block_number][i].errand_id.index
                 = Tasks'[block_number][j].errand_id.index
        PROVE  i = j
    <3>1. CASE i = k \/ j = k
      BY <1>0, <2>1, <2>2, <2>5, <2>6, <3>1
    <3>2. CASE i # k /\ j # k
      BY <2>2, <2>3, <2>6, <3>2
    <3>3. QED BY <3>1, <3>2
  <2>7. QED
    BY <1>0, <2>2, <2>4, <2>5, <2>6
<1>2. ASSUME NEW a \in AccountIds, NEW n \in DelegatorNames, NEW c \in Cids,
             NEW f \in Fees, begin_task_aborted(a, n, c, f)
      PROVE  IdsFollowTheClock'
  <2>1. /\ DOMAIN Tasks' = DOMAIN Tasks \ {block_number}
        /\ \A b \in DOMAIN Tasks' : Tasks'[b] = Tasks[b]
        /\ block_number' = block_number
    BY <1>2 DEF begin_task_aborted, remove, extrinsic
  <2>2. QED BY <2>1
<1>3. CASE next_block
  <2>1. UNCHANGED Tasks /\ block_number' = block_number + 1
    BY <1>3 DEF next_block, tasking
  <2>2. QED BY <1>0, <2>1
<1>4. CASE /\ UNCHANGED <<Tasks, block_number>>
           /\ extrinsic_index' >= extrinsic_index
  <2>1. extrinsic_index' \in Nat
    BY TypeStep DEF TypeOK
  <2>2. QED BY <1>0, <1>4, <2>1
<1>5. QED BY <1>1, <1>2, <1>3, <1>4, TasksFrame

LEMMA OneTaskStep ==
    TypeOK /\ OneTaskPerCidInBlock /\ [Next]_vars => OneTaskPerCidInBlock'
<1> SUFFICES ASSUME TypeOK, OneTaskPerCidInBlock, [Next]_vars
             PROVE  OneTaskPerCidInBlock'
  OBVIOUS
<1> USE DEF OneTaskPerCidInBlock
<1>1. ASSUME NEW a \in AccountIds, NEW n \in DelegatorNames, NEW c \in Cids,
             NEW f \in Fees, begin_task(a, n, c, f)
      PROVE  OneTaskPerCidInBlock'
  <2> DEFINE k == Len(block_tasks) + 1
  <2>0. new_task(a, n, c, f).description_cid = c
    BY DEF new_task
  <2>1. /\ DOMAIN Tasks' = DOMAIN Tasks \cup {block_number}
        /\ \A b \in DOMAIN Tasks : b # block_number => Tasks'[b] = Tasks[b]
        /\ DOMAIN Tasks'[block_number] = DOMAIN block_tasks \cup {k}
        /\ \A i \in DOMAIN block_tasks :
             Tasks'[block_number][i] = block_tasks[i]
        /\ Tasks'[block_number][k].description_cid = c
    BY <1>1, <2>0, BeginTaskTasks
  <2>2. \A i \in DOMAIN block_tasks :
           /\ block_number \in DOMAIN Tasks
           /\ block_tasks = Tasks[block_number]
           /\ block_tasks[i].description_cid # c
    BY <1>1, BlockTasksType DEF begin_task, task_accepted, begun_in_block
  <2> HIDE DEF k
  <2>3. ASSUME NEW i \in DOMAIN Tasks'[block_number],
               NEW j \in DOMAIN Tasks'[block_number],
               Tasks'[block_number][i].description_cid
                 = Tasks'[block_number][j].description_cid
        PROVE  i = j
    BY <2>1, <2>2, <2>3
  <2>4. QED BY <2>1, <2>3
<1>2. ASSUME NEW a \in AccountIds, NEW n \in DelegatorNames, NEW c \in Cids,
             NEW f \in Fees, begin_task_aborted(a, n, c, f)
      PROVE  OneTaskPerCidInBlock'
  <2>1. /\ DOMAIN Tasks' \subseteq DOMAIN Tasks
        /\ \A b \in DOMAIN Tasks' : Tasks'[b] = Tasks[b]
    BY <1>2 DEF begin_task_aborted, remove
  <2>2. QED BY <2>1
<1>3. CASE UNCHANGED Tasks
  BY <1>3
<1>4. QED BY <1>1, <1>2, <1>3, TasksFrame DEF next_block, tasking

-----------------------------------------------------------------------------
(* Errands and reports.                                                    *)

\* Every step but init_errand and update_errand leaves the errands, their
\* reports and the work list alone.
LEMMA ErrandsFrame ==
    ASSUME [Next]_vars
    PROVE  \/ \E a, b \in AccountIds, id \in ErrandIds, c \in Cids :
                init_errand(a, b, id, c)
           \/ \E a \in AccountIds, c \in Cids, r \in ResultCids :
                update_errand(a, c, r)
           \/ UNCHANGED errandbook
<1>1. CASE UNCHANGED vars
  BY <1>1 DEF vars
<1>2. CASE Next
  BY <1>2, NextCases
     DEF request_delegate, update_delegate_status, begin_task,
         begin_task_aborted, unreserve, refused, next_block
<1>3. QED BY <1>1, <1>2

\* The four outcomes of update_errand, by what they do to the errands.
LEMMA UpdateErrandCases ==
    ASSUME NEW a, NEW c, NEW r, update_errand(a, c, r)
    PROVE  \/ /\ DevelopmentMode
              /\ c \in DOMAIN Errands
              /\ update_errand_result(c, r)
              /\ UNCHANGED CompletedErrands
           \/ /\ report(a, c)
              /\ UNCHANGED <<Errands, ProcessingErrands, balances>>
           \/ /\ report(a, c)
              /\ c \in DOMAIN Errands
              /\ Errands[c].status = "Processing"
              /\ enough_reports(reports_with(a, c))
              /\ update_errand_result(c, r)
BY DEF update_errand, update_errand_dev, update_errand_completed,
       update_errand_wait, update_errand_finish, still_processing, report

LEMMA ProcessingStep ==
    TypeOK /\ ProcessingMatchesErrands /\ [Next]_vars
      => ProcessingMatchesErrands'
<1> SUFFICES ASSUME TypeOK, ProcessingMatchesErrands, [Next]_vars
             PROVE  ProcessingMatchesErrands'
  OBVIOUS
<1> USE DEF ProcessingMatchesErrands
<1>0. ProcessingErrands \in [Cids -> Nat]
  BY DEF TypeOK
<1>1. ASSUME NEW a \in AccountIds, NEW b \in AccountIds,
             NEW id \in ErrandIds, NEW c \in Cids, init_errand(a, b, id, c)
      PROVE  ProcessingMatchesErrands'
  <2>1. /\ DOMAIN Errands' = DOMAIN Errands \cup {c}
        /\ Errands'[c].status = "Processing"
        /\ \A x \in DOMAIN Errands : x # c => Errands'[x] = Errands[x]
    BY <1>1 DEF init_errand, insert
  <2>2. ProcessingErrands' = [ProcessingErrands EXCEPT ![c] = @ + 1]
    BY <1>1 DEF init_errand, add_processing
  <2>3. QED BY <1>0, <2>1, <2>2
<1>2. ASSUME NEW c \in DOMAIN Errands, NEW r \in ResultCids,
             update_errand_result(c, r)
      PROVE  ProcessingMatchesErrands'
  <2>1. /\ c \in Cids
        /\ DOMAIN Errands' = DOMAIN Errands
        /\ Errands'[c].status = "Done"
        /\ \A x \in DOMAIN Errands : x # c => Errands'[x] = Errands[x]
    BY <1>2, UpdateErrandResultType
  <2>2. ProcessingErrands' = [ProcessingErrands EXCEPT ![c] = 0]
    BY <1>2 DEF update_errand_result, remove_processing
  <2>3. QED BY <1>0, <2>1, <2>2
<1>3. ASSUME UNCHANGED <<Errands, ProcessingErrands>>
      PROVE  ProcessingMatchesErrands'
  BY <1>3
<1>4. ASSUME NEW a \in AccountIds, NEW c \in Cids, NEW r \in ResultCids,
             update_errand(a, c, r)
      PROVE  ProcessingMatchesErrands'
  BY <1>2, <1>3, <1>4, UpdateErrandCases
<1>5. QED BY <1>1, <1>3, <1>4, ErrandsFrame DEF errandbook

\* A report adds one authorised account to one errand's reporters.
LEMMA ReportEffect ==
    ASSUME TypeOK, NEW a \in AccountIds, NEW c \in Cids, report(a, c)
    PROVE  LET old == get(CompletedErrands, c, <<>>) IN
           /\ ~DevelopmentMode
           /\ a \in UpdateResultAccounts
           /\ DOMAIN CompletedErrands' = DOMAIN CompletedErrands \cup {c}
           /\ \A x \in DOMAIN CompletedErrands :
                x # c => CompletedErrands'[x] = CompletedErrands[x]
           /\ CompletedErrands'[c] = reports_with(a, c)
           /\ Len(reports_with(a, c)) = Len(old) + 1
           /\ Len(old) \in Nat
           /\ \A i \in DOMAIN reports_with(a, c) :
                \/ reports_with(a, c)[i] = a
                \/ /\ c \in DOMAIN CompletedErrands
                   /\ i \in DOMAIN CompletedErrands[c]
                   /\ reports_with(a, c)[i] = CompletedErrands[c][i]
           /\ c \in DOMAIN CompletedErrands => old = CompletedErrands[c]
<1> DEFINE old == get(CompletedErrands, c, <<>>)
<1>1. /\ ~DevelopmentMode
      /\ a \in UpdateResultAccounts
      /\ CompletedErrands' = insert(CompletedErrands, c, reports_with(a, c))
  BY DEF report, allow_to_update_result
<1>2. /\ DOMAIN CompletedErrands' = DOMAIN CompletedErrands \cup {c}
      /\ \A x \in DOMAIN CompletedErrands :
           x # c => CompletedErrands'[x] = CompletedErrands[x]
      /\ CompletedErrands'[c] = reports_with(a, c)
  BY <1>1 DEF insert
<1>3. old \in Seq(AccountIds) /\ reports_with(a, c) = Append(old, a)
  BY ReportsType DEF reports_with
<1>4. /\ c \in DOMAIN CompletedErrands => old = CompletedErrands[c]
      /\ c \notin DOMAIN CompletedErrands => old = <<>>
  BY DEF get
<1> HIDE DEF old
<1>5. /\ Len(reports_with(a, c)) = Len(old) + 1
      /\ Len(old) \in Nat
      /\ \A i \in DOMAIN reports_with(a, c) :
           \/ reports_with(a, c)[i] = a
           \/ i \in DOMAIN old /\ reports_with(a, c)[i] = old[i]
  BY <1>3
<1>6. QED BY <1>1, <1>2, <1>4, <1>5 DEF old

LEMMA ReportersStep ==
    TypeOK /\ ReportersAuthorised /\ [Next]_vars => ReportersAuthorised'
<1> SUFFICES ASSUME TypeOK, ReportersAuthorised, [Next]_vars
             PROVE  ReportersAuthorised'
  OBVIOUS
<1> USE DEF ReportersAuthorised
<1>1. ASSUME NEW a \in AccountIds, NEW c \in Cids, report(a, c)
      PROVE  ReportersAuthorised'
  <2>1. SUFFICES ASSUME NEW x \in DOMAIN CompletedErrands',
                        NEW i \in DOMAIN CompletedErrands'[x]
                 PROVE  CompletedErrands'[x][i] \in UpdateResultAccounts
    BY <2>1
  <2>2. CASE x = c
    <3>1. CompletedErrands'[c] = reports_with(a, c) /\ a \in UpdateResultAccounts
      BY <1>1, ReportEffect
    <3>2. \/ reports_with(a, c)[i] = a
          \/ /\ c \in DOMAIN CompletedErrands
             /\ i \in DOMAIN CompletedErrands[c]
             /\ reports_with(a, c)[i] = CompletedErrands[c][i]
      BY <1>1, <2>2, <3>1, ReportEffect
    <3>3. QED BY <2>2, <3>1, <3>2
  <2>3. CASE x # c
    <3>1. /\ DOMAIN CompletedErrands' = DOMAIN CompletedErrands \cup {c}
          /\ \A y \in DOMAIN CompletedErrands :
               y # c => CompletedErrands'[y] = CompletedErrands[y]
      BY <1>1, ReportEffect
    <3>2. QED BY <2>1, <2>3, <3>1
  <2>4. QED BY <2>2, <2>3
<1>2. ASSUME UNCHANGED CompletedErrands PROVE ReportersAuthorised'
  BY <1>2
<1>3. QED
  BY <1>1, <1>2, ErrandsFrame, UpdateErrandCases DEF errandbook, init_errand

\* DevelopmentMode is written at genesis only.
LEMMA ModeStep ==
    ASSUME [Next]_vars
    PROVE  DevelopmentMode' = DevelopmentMode
<1>1. CASE UNCHANGED vars
  BY <1>1 DEF vars
<1>2. CASE next_block
  BY <1>2 DEF next_block
<1>3. ASSUME extrinsic PROVE DevelopmentMode' = DevelopmentMode
  BY <1>3 DEF extrinsic
<1>4. CASE Next
  BY <1>2, <1>3, <1>4, NextCases
     DEF request_delegate, update_delegate_status, begin_task,
         begin_task_aborted, init_errand, update_errand, update_errand_dev,
         update_errand_completed, update_errand_wait, update_errand_finish,
         report, unreserve, refused
<1>5. QED BY <1>1, <1>4

LEMMA DoneStep ==
    TypeOK /\ ReportersAuthorised /\ DoneIsReported /\ [Next]_vars
      => DoneIsReported'
<1> SUFFICES ASSUME TypeOK, ReportersAuthorised, DoneIsReported, [Next]_vars,
                    ~DevelopmentMode
             PROVE  DoneIsReported'
  BY ModeStep DEF DoneIsReported
<1>0. ReportersAuthorised'
  BY ReportersStep
<1> DEFINE Reported(c) == /\ c \in DOMAIN CompletedErrands
                          /\ Len(CompletedErrands[c]) >= MIN_UPDATE_RESULT_ACCOUNT
<1>1. SUFFICES \A c \in DOMAIN Errands' :
                 Errands'[c].status = "Done" => Reported(c)'
  BY <1>0, <1>1 DEF DoneIsReported, ReportersAuthorised
<1>2. \A c \in DOMAIN Errands : Errands[c].status = "Done" => Reported(c)
  BY DEF DoneIsReported
<1>3. ASSUME NEW a \in AccountIds, NEW c \in Cids, report(a, c), NEW x,
             Reported(x)
      PROVE  Reported(x)'
  <2>1. x \in DOMAIN CompletedErrands'
    BY <1>3, ReportEffect
  <2>2. CASE x # c
    <3>1. CompletedErrands'[x] = CompletedErrands[x]
      BY <1>3, <2>2, ReportEffect
    <3>2. QED BY <1>3, <2>1, <3>1
  <2>3. CASE x = c
    <3>1. /\ CompletedErrands'[c] = reports_with(a, c)
          /\ Len(reports_with(a, c)) = Len(CompletedErrands[c]) + 1
          /\ Len(CompletedErrands[c]) \in Nat
      BY <1>3, <2>3, ReportEffect
    <3>2. QED BY <1>3, <2>1, <2>3, <3>1 DEF MIN_UPDATE_RESULT_ACCOUNT
  <2>4. QED BY <2>2, <2>3
<1>4. ASSUME NEW a \in AccountIds, NEW b \in AccountIds,
             NEW id \in ErrandIds, NEW c \in Cids, init_errand(a, b, id, c)
      PROVE  \A x \in DOMAIN Errands' :
               Errands'[x].status = "Done" => Reported(x)'
  <2>1. /\ DOMAIN Errands' = DOMAIN Errands \cup {c}
        /\ Errands'[c].status = "Processing"
        /\ \A x \in DOMAIN Errands : x # c => Errands'[x] = Errands[x]
        /\ UNCHANGED CompletedErrands
    BY <1>4 DEF init_errand, insert
  <2>2. QED BY <1>2, <2>1
<1>5. ASSUME NEW a \in AccountIds, NEW c \in Cids, NEW r \in ResultCids,
             update_errand(a, c, r)
      PROVE  \A x \in DOMAIN Errands' :
               Errands'[x].status = "Done" => Reported(x)'
  <2>1. CASE report(a, c) /\ UNCHANGED Errands
    BY <1>2, <1>3, <2>1
  <2>2. CASE /\ report(a, c) /\ c \in DOMAIN Errands
             /\ enough_reports(reports_with(a, c))
             /\ update_errand_result(c, r)
    <3>1. /\ DOMAIN Errands' = DOMAIN Errands
          /\ \A x \in DOMAIN Errands : x # c => Errands'[x] = Errands[x]
      BY <2>2, UpdateErrandResultType
    <3>2. Reported(c)'
      BY <2>2, ReportEffect DEF enough_reports
    <3>3. QED BY <1>2, <1>3, <2>2, <3>1, <3>2
  <2>3. QED BY <1>5, <2>1, <2>2, UpdateErrandCases
<1>6. CASE UNCHANGED errandbook
  BY <1>2, <1>6 DEF errandbook
<1>7. QED BY <1>4, <1>5, <1>6, ErrandsFrame

-----------------------------------------------------------------------------
(* Fees and reserves.                                                      *)

\* The only steps that move money or record a fee: begin_task and a
\* completion.  unreserve may drop a client's delegate, nothing else does.
LEMMA FeesFrame ==
    ASSUME TypeOK, [Next]_vars
    PROVE  \/ \E a \in AccountIds, n \in DelegatorNames, c \in Cids, f \in Fees :
                begin_task(a, n, c, f)
           \/ /\ UNCHANGED ClientTaskFee
              /\ DOMAIN ClientDelegate' \subseteq DOMAIN ClientDelegate
              /\ \/ UNCHANGED balances
                 \/ \E a \in AccountIds, c \in DOMAIN Errands,
                       r \in ResultCids :
                      /\ update_errand(a, c, r)
                      /\ update_errand_result(c, r)
<1>1. CASE UNCHANGED vars
  BY <1>1 DEF vars, tasking, balances
<1>2. ASSUME NEW a \in AccountIds, NEW c \in Cids, NEW r \in ResultCids,
             update_errand(a, c, r)
      PROVE  /\ UNCHANGED <<ClientTaskFee, ClientDelegate>>
             /\ \/ UNCHANGED balances
                \/ c \in DOMAIN Errands /\ update_errand_result(c, r)
  BY <1>2
     DEF update_errand, update_errand_dev, update_errand_completed,
         update_errand_wait, update_errand_finish, report, tasking
<1>3. ASSUME NEW n \in DelegatorNames, NEW a \in AccountIds, unreserve(n, a)
      PROVE  /\ UNCHANGED ClientTaskFee
             /\ UNCHANGED balances
             /\ DOMAIN ClientDelegate' \subseteq DOMAIN ClientDelegate
  BY <1>3 DEF unreserve, remove, balances
<1>4. CASE Next
  <2>1. ASSUME NEW a \in AccountIds, NEW c \in Cids, NEW r \in ResultCids,
               update_errand(a, c, r)
        PROVE  /\ UNCHANGED ClientTaskFee
               /\ DOMAIN ClientDelegate' \subseteq DOMAIN ClientDelegate
               /\ \/ UNCHANGED balances
                  \/ \E x \in AccountIds, y \in DOMAIN Errands,
                        z \in ResultCids :
                       update_errand(x, y, z) /\ update_errand_result(y, z)
    BY <1>2, <2>1
  <2>2. QED
    BY <1>3, <1>4, <2>1, NextCases
       DEF request_delegate, update_delegate_status, begin_task_aborted,
           init_errand, refused, next_block, tasking
<1>5. QED BY <1>1, <1>4

LEMMA FeeStep ==
    TypeOK /\ ReserveIsPayable /\ DelegatedHasFee /\ [Next]_vars
      => ReserveIsPayable' /\ DelegatedHasFee'
<1> SUFFICES ASSUME TypeOK, ReserveIsPayable, DelegatedHasFee, [Next]_vars
             PROVE  ReserveIsPayable' /\ DelegatedHasFee'
  OBVIOUS
<1> DEFINE Payers == {x \in AccountIds : client_task_fee(x) > 0}
<1>0. /\ \A x \in AccountIds : reserved[x] > 0 => x \in Payers
      /\ \A c \in DOMAIN Errands : Errands[c].account_id \in Payers
      /\ DOMAIN ClientDelegate \subseteq Payers
  BY DEF ReserveIsPayable, DelegatedHasFee, TypeOK, IsMap, Errand
<1>1. ASSUME NEW a \in AccountIds, NEW n \in DelegatorNames,
             NEW c \in Cids, NEW f \in Fees, begin_task(a, n, c, f)
      PROVE  /\ Payers' = Payers \cup {a}
             /\ DOMAIN ClientDelegate' = DOMAIN ClientDelegate \cup {a}
             /\ \A x \in AccountIds : x # a => reserved'[x] = reserved[x]
  <2>1. /\ f > 0
        /\ ClientTaskFee' = insert(ClientTaskFee, a, f)
        /\ ClientDelegate' =
             insert(ClientDelegate, a,
                    get(DelegateAccounts, n, DefaultAccount))
    BY <1>1 DEF begin_task, task_accepted, sufficient_fee
  <2>0. reserved' = [reserved EXCEPT ![a] = @ + f]
    BY <1>1, BeginTaskReserves
  <2>2. Payers' = Payers \cup {a}
    BY <2>1 DEF client_task_fee, get, insert
  <2>3. QED BY <2>0, <2>1, <2>2 DEF insert, TypeOK
<1>2. ASSUME UNCHANGED ClientTaskFee PROVE Payers' = Payers
  BY <1>2 DEF client_task_fee
<1> HIDE DEF Payers
<1>3. Payers \subseteq Payers' /\ DOMAIN ClientDelegate' \subseteq Payers'
  <2>1. CASE \E a \in AccountIds, n \in DelegatorNames, c \in Cids,
                f \in Fees : begin_task(a, n, c, f)
    BY <1>0, <1>1, <2>1
  <2>2. CASE /\ UNCHANGED ClientTaskFee
             /\ DOMAIN ClientDelegate' \subseteq DOMAIN ClientDelegate
    BY <1>0, <1>2, <2>2
  <2>3. QED BY <2>1, <2>2, FeesFrame
<1>4. \A x \in AccountIds : reserved'[x] > 0 => x \in Payers'
  <2>1. ASSUME NEW c \in DOMAIN Errands, NEW r \in ResultCids,
               update_errand_result(c, r)
        PROVE  \A x \in AccountIds : reserved'[x] > 0 => reserved[x] > 0
    <3>1. /\ reserved \in [AccountIds -> Nat]
          /\ reserved' \in [AccountIds -> Nat]
          /\ \A x \in AccountIds :
               x # Errands[c].account_id => reserved'[x] = reserved[x]
          /\ reserved'[Errands[c].account_id]
               <= reserved[Errands[c].account_id]
      BY <2>1, UpdateErrandResultType DEF TypeOK
    <3>2. QED BY <3>1
  <2>2. CASE \E a \in AccountIds, n \in DelegatorNames, c \in Cids,
                f \in Fees : begin_task(a, n, c, f)
    BY <1>0, <1>1, <1>3, <2>2
  <2>3. CASE UNCHANGED balances
    BY <1>0, <1>3, <2>3 DEF balances
  <2>4. QED BY <1>0, <1>3, <2>1, <2>2, <2>3, FeesFrame
<1>5. \A c \in DOMAIN Errands' : Errands'[c].account_id \in Payers'
  <2>1. ASSUME NEW a \in AccountIds, NEW b \in AccountIds,
               NEW id \in ErrandIds, NEW c \in Cids, init_errand(a, b, id, c)
        PROVE  \A x \in DOMAIN Errands' : Errands'[x].account_id \in Payers'
    <3>1. /\ DOMAIN Errands' = DOMAIN Errands \cup {c}
          /\ Errands'[c].account_id = b
          /\ \A x \in DOMAIN Errands : x # c => Errands'[x] = Errands[x]
          /\ b \in DOMAIN ClientDelegate
      BY <2>1 DEF init_errand, insert
    <3>2. QED BY <1>0, <1>3, <3>1
  <2>2. ASSUME NEW c \in DOMAIN Errands, NEW r \in ResultCids,
               update_errand_result(c, r)
        PROVE  \A x \in DOMAIN Errands' : Errands'[x].account_id \in Payers'
    <3>1. /\ DOMAIN Errands' = DOMAIN Errands
          /\ Errands'[c].account_id = Errands[c].account_id
          /\ \A x \in DOMAIN Errands : x # c => Errands'[x] = Errands[x]
      BY <2>2, UpdateErrandResultType
    <3>2. QED BY <1>0, <1>3, <3>1
  <2>3. CASE UNCHANGED Errands
    BY <1>0, <1>3, <2>3
  <2>4. ASSUME NEW a \in AccountIds, NEW c \in Cids, NEW r \in ResultCids,
               update_errand(a, c, r)
        PROVE  \A x \in DOMAIN Errands' : Errands'[x].account_id \in Payers'
    BY <2>2, <2>3, <2>4, UpdateErrandCases
  <2>5. QED BY <2>1, <2>3, <2>4, ErrandsFrame DEF errandbook
<1>6. QED
  BY <1>3, <1>4, <1>5 DEF ReserveIsPayable, DelegatedHasFee, Payers

-----------------------------------------------------------------------------
(* The invariant and the properties.                                       *)

LEMMA InvInit == Init => PalletInv
<1> SUFFICES ASSUME Init PROVE PalletInv
  OBVIOUS
<1>1. /\ DOMAIN Errands = {} /\ DOMAIN Tasks = {}
      /\ DOMAIN CompletedErrands = {} /\ DOMAIN ClientDelegate = {}
      /\ ProcessingErrands = [c \in Cids |-> 0]
      /\ reserved = [a \in AccountIds |-> 0]
  BY DEF Init, EmptyMap
<1>2. QED
  BY <1>1, TypeInit
     DEF PalletInv, IdsFollowTheClock, OneTaskPerCidInBlock,
         ProcessingMatchesErrands, DoneIsReported, ReportersAuthorised,
         ReserveIsPayable, DelegatedHasFee

LEMMA InvStep == PalletInv /\ [Next]_vars => PalletInv'
BY TypeStep, IdsStep, OneTaskStep, ProcessingStep, ReportersStep, DoneStep,
   FeeStep
   DEF PalletInv

\* PalletInv is an inductive invariant of the pallet.
THEOREM PalletInvariant == Spec => []PalletInv
BY InvInit, InvStep, PTL DEF Spec

\* Errand ids are unique among all recorded tasks (ErrandIdsUnique): ids of
\* two blocks differ in their seed, ids of one block in the extrinsic index.
THEOREM IdsAreUnique == Spec => []ErrandIdsUnique
<1>1. PalletInv => ErrandIdsUnique
  BY DEF PalletInv, IdsFollowTheClock, ErrandIdsUnique
<1>2. QED BY <1>1, PalletInvariant, PTL

\* No block's task list names a cid twice (OneTaskPerCidInBlock).
THEOREM OneTaskPerCid == Spec => []OneTaskPerCidInBlock
<1>1. PalletInv => OneTaskPerCidInBlock
  BY DEF PalletInv
<1>2. QED BY <1>1, PalletInvariant, PTL

\* The work list holds exactly the errands in progress
\* (ProcessingMatchesErrands), in both modes.
THEOREM WorkListIsExact == Spec => []ProcessingMatchesErrands
<1>1. PalletInv => ProcessingMatchesErrands
  BY DEF PalletInv
<1>2. QED BY <1>1, PalletInvariant, PTL

\* Outside development mode every completed errand has enough reports, all
\* authorised (DoneIsReported).
THEOREM CompletionIsReported == Spec => []DoneIsReported
<1>1. PalletInv => DoneIsReported
  BY DEF PalletInv
<1>2. QED BY <1>1, PalletInvariant, PTL

\* Every reserve and every errand has a positive fee on record
\* (ReserveIsPayable).
THEOREM ReservesArePayable == Spec => []ReserveIsPayable
<1>1. PalletInv => ReserveIsPayable
  BY DEF PalletInv
<1>2. QED BY <1>1, PalletInvariant, PTL

\* Outside development mode money leaves a client's reserve only when one of
\* its errands in progress is completed (PaidOnlyOnCompletion).
THEOREM PaymentNeedsCompletion == Spec => PaidOnlyOnCompletion
<1> DEFINE Paid == ~DevelopmentMode =>
             \A a \in AccountIds : reserved'[a] < reserved[a] =>
               \E c \in DOMAIN Errands :
                 /\ Errands[c].account_id = a
                 /\ Errands[c].status = "Processing"
                 /\ Errands'[c].status = "Done"
<1>1. PalletInv /\ [Next]_vars => [Paid]_vars
  <2>1. SUFFICES ASSUME TypeOK, [Next]_vars, ~DevelopmentMode,
                        NEW a \in AccountIds, reserved'[a] < reserved[a]
                 PROVE  \E c \in DOMAIN Errands :
                           /\ Errands[c].account_id = a
                           /\ Errands[c].status = "Processing"
                           /\ Errands'[c].status = "Done"
    BY DEF PalletInv
  <2>2. reserved \in [AccountIds -> Nat]
    BY <2>1 DEF TypeOK
  <2>3. ASSUME NEW x \in AccountIds, NEW n \in DelegatorNames,
               NEW c \in Cids, NEW f \in Fees, begin_task(x, n, c, f)
        PROVE  FALSE
    <3>1. f \in Nat /\ reserved' = [reserved EXCEPT ![x] = @ + f]
      BY <2>3, PalletAssumption, BeginTaskReserves
    <3>2. QED BY <2>1, <2>2, <3>1
  <2>4. ASSUME UNCHANGED balances PROVE FALSE
    BY <2>1, <2>2, <2>4 DEF balances
  <2>5. PICK x \in AccountIds, c \in DOMAIN Errands, r \in ResultCids :
               update_errand(x, c, r) /\ update_errand_result(c, r)
    BY <2>1, <2>3, <2>4, FeesFrame
  <2>6. /\ Errands[c].account_id = a
        /\ Errands'[c].status = "Done"
    BY <2>1, <2>2, <2>5, UpdateErrandResultType
  <2>7. Errands[c].status = "Processing"
    BY <2>1, <2>4, <2>5, UpdateErrandCases
  <2>8. QED BY <2>6, <2>7
<1>2. QED BY <1>1, PalletInvariant, PTL DEF Spec, PaidOnlyOnCompletion

=============================================================================
