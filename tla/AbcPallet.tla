------------------------------ MODULE AbcPallet ------------------------------
(***************************************************************************)
(* The on-chain half of pallets/abc-demo: the storage declared by          *)
(* decl_storage! and the dispatchables of decl_module! (src/pallets/       *)
(* abc-demo/src/lib.rs).  Delegates register under a name, a client begins *)
(* a task with a delegate and reserves a fee, the delegate turns the task  *)
(* into an errand, and authorised accounts report its result, which pays   *)
(* the delegate out of the client's reserve.                               *)
(*                                                                         *)
(* One action is one extrinsic.  FRAME 2.0.0 does not roll storage back    *)
(* when a dispatchable returns an error, so a call that fails after a      *)
(* write has an action of its own that keeps the write.  A call that fails *)
(* before its first write only consumes an extrinsic index (`refused`).    *)
(***************************************************************************)
EXTENDS Naturals, Sequences, StorageMap
LOCAL INSTANCE FiniteSetsExt

CONSTANTS
    AccountIds,             \* accounts that sign extrinsics
    DelegatorNames,         \* names a delegate may register under
    NetAddresses,           \* addresses of the delegates' services
    Cids,                   \* description cids of tasks
    ResultCids,             \* results reported for errands
    Fees,                   \* fees a client may offer (u32, zero included)
    ErrandIds,              \* errand ids passed to init_errand
    DefaultAccount,         \* the all-zero account a missing map entry reads as
    NoResult,               \* the empty result of a new errand
    Modes,                  \* genesis: values of DevelopmentMode considered
    UpdateResultAccounts,   \* genesis: accounts that may report results
    Endowment,              \* genesis: free balance of each account
    ExistentialDeposit,     \* an account below this total is reaped
    MaxBlock,               \* bound: last block
    MaxExtrinsics           \* bound: extrinsics in one block

MIN_UPDATE_RESULT_ACCOUNT == 2

ASSUME PalletAssumption ==
    /\ DefaultAccount \notin AccountIds
    /\ Modes \subseteq BOOLEAN
    /\ UpdateResultAccounts \subseteq AccountIds
    /\ Fees \subseteq Nat
    /\ ExistentialDeposit \in Nat
    /\ Endowment \in [AccountIds -> Nat]
    /\ MaxBlock \in Nat \ {0}
    /\ MaxExtrinsics \in Nat

VARIABLES
    Errands,             \* cid -> errand
    Delegates,           \* account -> TRUE once its service has accepted it
    CompletedErrands,    \* cid -> accounts that reported a result, in order
    ClientTaskFee,       \* client -> fee of its latest task
    ClientDelegate,      \* client -> delegate of its latest task
    DelegateNetAddress,  \* delegate -> address
    DelegateAccounts,    \* name -> delegate
    Tasks,               \* block -> tasks begun in it, in order
    DelegatesApplys,     \* block -> (name, account) requests of it, in order
    ProcessingErrands,   \* cid -> number of its occurrences in the Vec
    DevelopmentMode,     \* one report completes an errand; set at genesis
    free, reserved,      \* pallet_balances: the two balances of an account
    block_number,
    extrinsic_index      \* extrinsics applied in the current block

registry == <<Delegates, DelegateNetAddress, DelegateAccounts, DelegatesApplys>>
errandbook == <<Errands, CompletedErrands, ProcessingErrands>>
tasking == <<Tasks, ClientTaskFee, ClientDelegate>>
balances == <<free, reserved>>
clock == <<block_number, extrinsic_index>>
vars == <<registry, errandbook, tasking, balances, clock, DevelopmentMode>>

ErrandStatus == {"Processing", "Done"}

Errand == [account_id : AccountIds, errand_id : ErrandIds,
           status : ErrandStatus, result : ResultCids \cup {NoResult}]

\* The uuid of a task is a hash of these three values.
Uuid == [seed : 1 .. MaxBlock, sender : AccountIds, index : 0 .. MaxExtrinsics]

TaskInfo == [client : AccountIds, delegator : DelegatorNames,
             description_cid : Cids, errand_id : Uuid, fee : Nat]

\* The storage items keep their types (decl_storage!), balances are never
\* negative, and every account stored is a real one: no default account that
\* a missing entry reads as is ever written back (begin_task).
TypeOK ==
    /\ IsMap(Errands, Cids, Errand)
    /\ IsMap(Delegates, AccountIds, BOOLEAN)
    /\ IsMap(CompletedErrands, Cids, Seq(AccountIds))
    /\ IsMap(ClientTaskFee, AccountIds, Nat)
    /\ IsMap(ClientDelegate, AccountIds, AccountIds)
    /\ IsMap(DelegateNetAddress, AccountIds, NetAddresses)
    /\ IsMap(DelegateAccounts, DelegatorNames, AccountIds)
    /\ IsMap(Tasks, Nat, Seq(TaskInfo))
    /\ IsMap(DelegatesApplys, Nat, Seq(DelegatorNames \X AccountIds))
    /\ ProcessingErrands \in [Cids -> Nat]
    /\ DevelopmentMode \in BOOLEAN
    /\ free \in [AccountIds -> Nat]
    /\ reserved \in [AccountIds -> Nat]
    /\ block_number \in 1 .. MaxBlock
    /\ extrinsic_index \in 0 .. MaxExtrinsics

Init ==
    /\ Errands = EmptyMap
    /\ Delegates = EmptyMap
    /\ CompletedErrands = EmptyMap
    /\ ClientTaskFee = EmptyMap
    /\ ClientDelegate = EmptyMap
    /\ DelegateNetAddress = EmptyMap
    /\ DelegateAccounts = EmptyMap
    /\ Tasks = EmptyMap
    /\ DelegatesApplys = EmptyMap
    /\ ProcessingErrands = [c \in Cids |-> 0]
    /\ DevelopmentMode \in Modes
    /\ free = Endowment
    /\ reserved = [a \in AccountIds |-> 0]
    /\ block_number = 1
    /\ extrinsic_index = 0

-----------------------------------------------------------------------------
(* pallet_balances, external: reserve and repatriate_reserved of 2.0.0.    *)

\* `reserve` fails exactly when the free balance does not cover the value.
can_reserve(who, value) == free[who] >= value

\* A reserve that fails changes no balance.
reserve(who, value) ==
    \/ /\ can_reserve(who, value)
       /\ free' = [free EXCEPT ![who] = @ - value]
       /\ reserved' = [reserved EXCEPT ![who] = @ + value]
    \/ /\ ~can_reserve(who, value)
       /\ UNCHANGED balances

account_exists(who) == who \in AccountIds /\ free[who] + reserved[who] > 0

\* What a move of `value` out of a reserve really moves.
movable(who, value) == IF reserved[who] < value THEN reserved[who] ELSE value

\* An account whose total falls below the existential deposit is reaped.
reaped(who, value) ==
    free[who] + reserved[who] - movable(who, value) < ExistentialDeposit

\* Moves up to `value` from who's reserve to the free balance of
\* beneficiary; to itself it is unreserve; to a dead account it fails.
repatriate_reserved(who, beneficiary, value) ==
    \/ /\ value > 0
       /\ who = beneficiary
       /\ free' = [free EXCEPT ![who] = @ + movable(who, value)]
       /\ reserved' = [reserved EXCEPT ![who] = @ - movable(who, value)]
    \/ /\ value > 0
       /\ who # beneficiary
       /\ account_exists(beneficiary)
       /\ free' = [free EXCEPT
                     ![beneficiary] = @ + movable(who, value),
                     ![who] = IF reaped(who, value) THEN 0 ELSE @]
       /\ reserved' = [reserved EXCEPT
                         ![who] = IF reaped(who, value)
                                    THEN 0 ELSE @ - movable(who, value)]
    \/ /\ value = 0 \/ (who # beneficiary /\ ~account_exists(beneficiary))
       /\ UNCHANGED balances

-----------------------------------------------------------------------------
(* Helpers of impl<T: Trait> Module<T>.                                    *)

\* Every extrinsic, failed or not, takes the next index of its block.
extrinsic ==
    /\ extrinsic_index < MaxExtrinsics
    /\ extrinsic_index' = extrinsic_index + 1
    /\ UNCHANGED <<block_number, DevelopmentMode>>

\* Seeded fault: the extrinsic index is left out of the hashed payload.
generate_errand_id_without_index(sender) ==
    [seed |-> block_number, sender |-> sender, index |-> 0]

\* blake2_128 of (random seed, sender, extrinsic index), formatted as a
\* uuid: distinct payloads are taken to have distinct hashes, and the
\* random seed of collective-flip to differ from block to block.
generate_errand_id(sender) ==
    [seed |-> block_number, sender |-> sender, index |-> extrinsic_index]

\* The fee and delegate recorded for a client's latest task.
client_task_fee(client) == get(ClientTaskFee, client, 0)
client_delegate(client) == get(ClientDelegate, client, DefaultAccount)

\* Seeded fault: the checks of the name and of the delegate are dropped.
delegate_ready_unchecked(delegator_name) == TRUE

\* The name resolves to a registered delegate whose service accepted it.
delegate_ready(delegator_name) ==
    /\ delegator_name \in DOMAIN DelegateAccounts
    /\ DelegateAccounts[delegator_name] \in DOMAIN Delegates
    /\ Delegates[DelegateAccounts[delegator_name]]

block_tasks == get(Tasks, block_number, <<>>)

\* Seeded fault: the scan of the block's tasks is dropped.
begun_in_block_unchecked(description_cid) == FALSE

begun_in_block(description_cid) ==
    \E i \in DOMAIN block_tasks :
        block_tasks[i].description_cid = description_cid

\* Seeded fault: zero fees pass.
sufficient_fee_or_zero(fee) == fee >= 0

sufficient_fee(fee) == fee > 0

allow_to_update_result(account) == account \in UpdateResultAccounts

add_processing(description_cid) ==
    ProcessingErrands' = [ProcessingErrands EXCEPT ![description_cid] = @ + 1]

\* Seeded fault: only the first occurrence is removed.
remove_processing_once(description_cid) ==
    ProcessingErrands' = [ProcessingErrands EXCEPT
                            ![description_cid] = IF @ = 0 THEN 0 ELSE @ - 1]

\* retain drops every occurrence.
remove_processing(description_cid) ==
    ProcessingErrands' = [ProcessingErrands EXCEPT ![description_cid] = 0]

update_errand_result(description_cid, new_result) ==
    LET client == Errands[description_cid].account_id IN
    /\ Errands' = [Errands EXCEPT ![description_cid].status = "Done",
                                  ![description_cid].result = new_result]
    /\ remove_processing(description_cid)
    /\ repatriate_reserved(client, client_delegate(client),
                           client_task_fee(client))

-----------------------------------------------------------------------------
(* Dispatchables.                                                          *)

request_delegate(sender, delegator_name, net_address) ==
    /\ extrinsic
    /\ sender \notin DOMAIN Delegates
    /\ DelegatesApplys' =
         insert(DelegatesApplys, block_number,
                Append(get(DelegatesApplys, block_number, <<>>),
                       <<delegator_name, sender>>))
    /\ Delegates' = insert(Delegates, sender, FALSE)
    /\ DelegateNetAddress' = insert(DelegateNetAddress, sender, net_address)
    /\ DelegateAccounts' = insert(DelegateAccounts, delegator_name, sender)
    /\ UNCHANGED <<errandbook, tasking, balances>>

update_delegate_status(sender, updater) ==
    /\ extrinsic
    /\ sender = updater
    /\ sender \in DOMAIN Delegates
    /\ Delegates' = [Delegates EXCEPT ![sender] = TRUE]
    /\ UNCHANGED <<DelegateNetAddress, DelegateAccounts, DelegatesApplys,
                   errandbook, tasking, balances>>

\* The checks of begin_task that run before Tasks::take.
may_begin(delegator_name, description_cid) ==
    /\ delegate_ready(delegator_name)
    /\ description_cid \notin DOMAIN Errands

\* Seeded fault: the error of T::Currency::reserve is ignored.
task_accepted_unpaid(client, description_cid, fee) ==
    /\ ~begun_in_block(description_cid)
    /\ sufficient_fee(fee)

\* The checks of begin_task that run after Tasks::take.
task_accepted(client, description_cid, fee) ==
    /\ ~begun_in_block(description_cid)
    /\ sufficient_fee(fee)
    /\ can_reserve(client, fee)

begin_task(client, delegator_name, description_cid, fee) ==
    LET delegator == get(DelegateAccounts, delegator_name, DefaultAccount)
        task_info == [client |-> client, delegator |-> delegator_name,
                      description_cid |-> description_cid,
                      errand_id |-> generate_errand_id(delegator),
                      fee |-> fee]
    IN
    /\ extrinsic
    /\ may_begin(delegator_name, description_cid)
    /\ task_accepted(client, description_cid, fee)
    /\ reserve(client, fee)
    /\ ClientTaskFee' = insert(ClientTaskFee, client, fee)
    /\ Tasks' = insert(Tasks, block_number, Append(block_tasks, task_info))
    /\ ClientDelegate' = insert(ClientDelegate, client, delegator)
    /\ UNCHANGED <<registry, errandbook>>

\* A check fails after Tasks::take: the block's tasks are not put back.
begin_task_aborted(client, delegator_name, description_cid, fee) ==
    /\ extrinsic
    /\ may_begin(delegator_name, description_cid)
    /\ block_number \in DOMAIN Tasks
    /\ ~task_accepted(client, description_cid, fee)
    /\ Tasks' = remove(Tasks, block_number)
    /\ UNCHANGED <<ClientTaskFee, ClientDelegate, registry, errandbook,
                   balances>>

init_errand(sender, client, errand_id, description_cid) ==
    /\ extrinsic
    /\ client \in DOMAIN ClientDelegate
    /\ sender = ClientDelegate[client]
    /\ Errands' = insert(Errands, description_cid,
                         [account_id |-> client, errand_id |-> errand_id,
                          status |-> "Processing", result |-> NoResult])
    /\ add_processing(description_cid)
    /\ UNCHANGED <<CompletedErrands, registry, tasking, balances>>

\* Development mode: every report completes the errand, again if need be.
update_errand_dev(sender, description_cid, new_result) ==
    /\ DevelopmentMode
    /\ extrinsic
    /\ description_cid \in DOMAIN Errands
    /\ allow_to_update_result(sender)
    /\ update_errand_result(description_cid, new_result)
    /\ UNCHANGED <<CompletedErrands, registry, tasking>>

\* The reports for an errand once sender has added its own.
reports_with(sender, description_cid) ==
    Append(get(CompletedErrands, description_cid, <<>>), sender)

\* Seeded fault: one report too few is enough.
enough_reports_early(reports) == Len(reports) + 1 >= MIN_UPDATE_RESULT_ACCOUNT

enough_reports(reports) == Len(reports) >= MIN_UPDATE_RESULT_ACCOUNT

\* Seeded fault: the status of the errand is not looked at.
still_processing_unchecked(description_cid) == TRUE

still_processing(description_cid) ==
    Errands[description_cid].status = "Processing"

\* Otherwise the report is added, whatever becomes of the call.
report(sender, description_cid) ==
    /\ ~DevelopmentMode
    /\ extrinsic
    /\ description_cid \in DOMAIN Errands
    /\ allow_to_update_result(sender)
    /\ CompletedErrands' = insert(CompletedErrands, description_cid,
                                  reports_with(sender, description_cid))
    /\ UNCHANGED <<registry, tasking>>

\* The report of a completed errand fails, and stays in CompletedErrands.
update_errand_completed(sender, description_cid) ==
    /\ report(sender, description_cid)
    /\ ~still_processing(description_cid)
    /\ UNCHANGED <<Errands, ProcessingErrands, balances>>

update_errand_wait(sender, description_cid) ==
    /\ report(sender, description_cid)
    /\ still_processing(description_cid)
    /\ ~enough_reports(reports_with(sender, description_cid))
    /\ UNCHANGED <<Errands, ProcessingErrands, balances>>

update_errand_finish(sender, description_cid, new_result) ==
    /\ report(sender, description_cid)
    /\ still_processing(description_cid)
    /\ enough_reports(reports_with(sender, description_cid))
    /\ update_errand_result(description_cid, new_result)

update_errand(sender, description_cid, new_result) ==
    \/ update_errand_dev(sender, description_cid, new_result)
    \/ update_errand_completed(sender, description_cid)
    \/ update_errand_wait(sender, description_cid)
    \/ update_errand_finish(sender, description_cid, new_result)

\* Any origin may call it, for any client.
unreserve(delegator_name, client) ==
    /\ extrinsic
    /\ Delegates' = remove(Delegates, client)
    /\ ClientDelegate' = remove(ClientDelegate, client)
    /\ DelegateNetAddress' =
         remove(DelegateNetAddress,
                get(DelegateAccounts, delegator_name, DefaultAccount))
    /\ DelegateAccounts' = remove(DelegateAccounts, delegator_name)
    /\ UNCHANGED <<DelegatesApplys, errandbook, Tasks, ClientTaskFee,
                   balances>>

\* A call whose ensure! fails before anything is written.
refused ==
    /\ extrinsic
    /\ UNCHANGED <<registry, errandbook, tasking, balances>>

request_delegate_refused(sender) ==
    /\ sender \in DOMAIN Delegates
    /\ refused

update_delegate_status_refused(sender, updater) ==
    /\ ~(sender = updater /\ sender \in DOMAIN Delegates)
    /\ refused

begin_task_refused(client, delegator_name, description_cid, fee) ==
    /\ may_begin(delegator_name, description_cid) =>
         /\ block_number \notin DOMAIN Tasks
         /\ ~task_accepted(client, description_cid, fee)
    /\ refused

init_errand_refused(sender, client) ==
    /\ ~(client \in DOMAIN ClientDelegate /\ sender = ClientDelegate[client])
    /\ refused

update_errand_refused(sender, description_cid) ==
    /\ ~(description_cid \in DOMAIN Errands /\ allow_to_update_result(sender))
    /\ refused

next_block ==
    /\ block_number < MaxBlock
    /\ block_number' = block_number + 1
    /\ extrinsic_index' = 0
    /\ UNCHANGED <<registry, errandbook, tasking, balances, DevelopmentMode>>

Next ==
    \/ \E a \in AccountIds, n \in DelegatorNames, addr \in NetAddresses :
         request_delegate(a, n, addr)
    \/ \E a \in AccountIds : request_delegate_refused(a)
    \/ \E a, b \in AccountIds :
         \/ update_delegate_status(a, b)
         \/ update_delegate_status_refused(a, b)
    \/ \E a \in AccountIds, n \in DelegatorNames, c \in Cids, f \in Fees :
         \/ begin_task(a, n, c, f)
         \/ begin_task_aborted(a, n, c, f)
         \/ begin_task_refused(a, n, c, f)
    \/ \E a, b \in AccountIds, id \in ErrandIds, c \in Cids :
         init_errand(a, b, id, c)
    \/ \E a, b \in AccountIds : init_errand_refused(a, b)
    \/ \E a \in AccountIds, c \in Cids, r \in ResultCids :
         update_errand(a, c, r)
    \/ \E a \in AccountIds, c \in Cids : update_errand_refused(a, c)
    \/ \E n \in DelegatorNames, a \in AccountIds : unreserve(n, a)
    \/ next_block

Spec == Init /\ [][Next]_vars

-----------------------------------------------------------------------------
(* Properties.                                                             *)

\* No two recorded tasks, of any blocks, carry the same errand id
\* (generate_errand_id): a delegate's service is asked for results by that
\* id alone.
ErrandIdsUnique ==
    \A b1, b2 \in DOMAIN Tasks :
      \A i \in DOMAIN Tasks[b1], j \in DOMAIN Tasks[b2] :
        Tasks[b1][i].errand_id = Tasks[b2][j].errand_id => b1 = b2 /\ i = j

\* A block's task list never names one description cid twice (begin_task,
\* the scan of task_array): send_errand_tasks would start it twice.
OneTaskPerCidInBlock ==
    \A b \in DOMAIN Tasks : \A i, j \in DOMAIN Tasks[b] :
        Tasks[b][i].description_cid = Tasks[b][j].description_cid => i = j

\* The work list of query_errand_task_results is exactly the set of errands
\* that are not done, however often an errand was started or reported
\* (add_processing, remove_processing against the errand's status).
ProcessingMatchesErrands ==
    \A c \in Cids :
        ProcessingErrands[c] > 0 <=>
            (c \in DOMAIN Errands /\ Errands[c].status = "Processing")

\* Outside development mode a completed errand has the reports it needs,
\* all of them from authorised accounts (update_errand).
DoneIsReported ==
    \A c \in DOMAIN Errands :
        ~DevelopmentMode /\ Errands[c].status = "Done" =>
            /\ c \in DOMAIN CompletedErrands
            /\ Len(CompletedErrands[c]) >= MIN_UPDATE_RESULT_ACCOUNT
            /\ \A i \in DOMAIN CompletedErrands[c] :
                 CompletedErrands[c][i] \in UpdateResultAccounts

\* Reserved money can be paid out: whoever holds a reserve, and the client of
\* every errand, has a positive fee on record (begin_task, init_errand).  With
\* a fee of zero repatriate_reserved in update_errand_result moves nothing,
\* and no other call releases a reserve.
ReserveIsPayable ==
    /\ \A a \in AccountIds : reserved[a] > 0 => client_task_fee(a) > 0
    /\ \A c \in DOMAIN Errands : client_task_fee(Errands[c].account_id) > 0

\* Outside development mode a client's reserve only shrinks in a step that
\* takes one of its own errands from Processing to Done: no other call, and
\* no report of an errand already done, pays (update_errand_result).
PaidOnlyOnCompletion ==
    [][ ~DevelopmentMode =>
          \A a \in AccountIds : reserved'[a] < reserved[a] =>
            \E c \in DOMAIN Errands :
               /\ Errands[c].account_id = a
               /\ Errands[c].status = "Processing"
               /\ Errands'[c].status = "Done" ]_vars

recorded_tasks ==
    UNION {{Tasks[b][i] : i \in DOMAIN Tasks[b]} : b \in DOMAIN Tasks}

\* The fees of all tasks on record for the client.
owed(client) ==
    MapThenSumSet(LAMBDA t : t.fee, {t \in recorded_tasks : t.client = client})

\* The step completes an errand of the client; in development mode perhaps
\* one that was done before.
completes_errand_of(client) ==
    \E c \in DOMAIN Errands :
        /\ Errands[c].account_id = client
        /\ Errands[c].status = "Processing" \/ DevelopmentMode
        /\ Errands'[c].status = "Done"

\* No task is on record unpaid: the fees of a client's recorded tasks outgrow
\* its reserve only in a step that completes one of its errands.  begin_task
\* records a task with its fee reserved or not at all, and no refused or
\* aborted call, other client or unreserve takes from the reserve.
TasksArePaidFor ==
    [][ \A a \in AccountIds :
          \/ owed(a)' + reserved[a] <= owed(a) + reserved'[a]
          \/ completes_errand_of(a) ]_vars

-----------------------------------------------------------------------------
(* The inductive strengthening the proofs of AbcPalletProofs rest on.      *)

\* Every recorded id was made in its block by an extrinsic already applied,
\* one id per extrinsic.
IdsFollowTheClock ==
    \A b \in DOMAIN Tasks :
        /\ b <= block_number
        /\ \A i \in DOMAIN Tasks[b] :
             /\ Tasks[b][i].errand_id.seed = b
             /\ b = block_number =>
                    Tasks[b][i].errand_id.index < extrinsic_index
        /\ \A i, j \in DOMAIN Tasks[b] :
             Tasks[b][i].errand_id.index = Tasks[b][j].errand_id.index => i = j

\* Only authorised accounts are ever recorded as reporters.
ReportersAuthorised ==
    \A c \in DOMAIN CompletedErrands : \A i \in DOMAIN CompletedErrands[c] :
        CompletedErrands[c][i] \in UpdateResultAccounts

\* A client with a delegate has a fee on record.
DelegatedHasFee ==
    \A a \in DOMAIN ClientDelegate : client_task_fee(a) > 0

PalletInv ==
    /\ TypeOK
    /\ IdsFollowTheClock
    /\ OneTaskPerCidInBlock
    /\ ProcessingMatchesErrands
    /\ DoneIsReported
    /\ ReportersAuthorised
    /\ ReserveIsPayable
    /\ DelegatedHasFee

-----------------------------------------------------------------------------
(* What the repository says of the pallet and its code does not do.        *)

\* What the name of MIN_UPDATE_RESULT_ACCOUNT says of update_errand: outside
\* development mode that many different accounts stand behind a result.
DoneByDistinctAccounts ==
    \A c \in DOMAIN Errands :
        ~DevelopmentMode /\ Errands[c].status = "Done" =>
            \E i, j \in DOMAIN CompletedErrands[c] :
                CompletedErrands[c][i] # CompletedErrands[c][j]

\* What begin_task_works tests for a successful call, of every call: the tasks
\* recorded for a height stay recorded.
RecordedTasksStay ==
    [][ \A b \in DOMAIN Tasks :
          /\ b \in DOMAIN Tasks'
          /\ \A i \in DOMAIN Tasks[b] :
               i \in DOMAIN Tasks'[b] /\ Tasks'[b][i] = Tasks[b][i] ]_vars

=============================================================================
