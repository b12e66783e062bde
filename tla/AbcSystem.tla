------------------------------ MODULE AbcSystem ------------------------------
(***************************************************************************)
(* The whole system: the chain (AbcPallet), the offchain workers of its    *)
(* nodes (OffchainWorker), the transaction pool between them, and users    *)
(* who call request_delegate and begin_task and nothing else.  Every other *)
(* dispatchable is called by the workers' transactions.                    *)
(***************************************************************************)
EXTENDS OffchainWorker

CONSTANTS
    Delegators,     \* accounts whose owners ask to become delegates
    Clients,        \* accounts whose owners begin tasks
    MaxCalls        \* bound: calls made by users

ASSUME SystemAssumption ==
    /\ Uuid \subseteq ErrandIds            \* errands are made from tasks,
    /\ Uuid \X Cids \subseteq ResultCids   \* results are named by tasks
    /\ Delegators \subseteq AccountIds
    /\ Clients \subseteq AccountIds
    /\ MaxCalls \in Nat

VARIABLE calls      \* calls made by users so far

system_vars == <<vars, worker_vars, calls>>

SystemInit ==
    /\ Init
    /\ WorkerInit
    /\ calls = 0

\* CheckNonce: a signed extrinsic in a block uses up its signer's nonce, and
\* pooled transactions with a nonce already used are dropped.
use_nonce(a) ==
    /\ nonces' = [nonces EXCEPT ![a] = @ + 1]
    /\ pool' = {t \in pool : t.signer = a => t.nonce > nonces[a]}

-----------------------------------------------------------------------------
user_call(a) ==
    /\ calls < MaxCalls
    /\ calls' = calls + 1
    /\ use_nonce(a)
    /\ UNCHANGED <<workers, delegate_info, results, stuck, services, executed>>

user_request_delegate(a, name, addr) ==
    /\ \/ request_delegate(a, name, addr)
       \/ request_delegate_refused(a)
    /\ user_call(a)

user_begin_task(a, name, cid, fee) ==
    /\ \/ begin_task(a, name, cid, fee)
       \/ begin_task_aborted(a, name, cid, fee)
       \/ begin_task_refused(a, name, cid, fee)
    /\ user_call(a)

-----------------------------------------------------------------------------
(* A pooled transaction whose nonce is due gets into the block.            *)

include(tx, fn) ==
    /\ tx.call.fn = fn
    /\ tx.nonce = nonces[tx.signer]
    /\ use_nonce(tx.signer)
    /\ UNCHANGED <<workers, delegate_info, results, stuck, services, executed,
                   calls>>

include_update_delegate_status(tx) ==
    /\ include(tx, "update_delegate_status")
    /\ \/ update_delegate_status(tx.signer, tx.call.updater)
       \/ update_delegate_status_refused(tx.signer, tx.call.updater)

include_unreserve(tx) ==
    /\ include(tx, "unreserve")
    /\ unreserve(tx.call.name, tx.call.client)

include_init_errand(tx) ==
    /\ include(tx, "init_errand")
    /\ \/ init_errand(tx.signer, tx.call.client, tx.call.errand_id, tx.call.cid)
       \/ init_errand_refused(tx.signer, tx.call.client)

include_update_errand(tx) ==
    /\ include(tx, "update_errand")
    /\ \/ update_errand(tx.signer, tx.call.cid, tx.call.result)
       \/ update_errand_refused(tx.signer, tx.call.cid)

include_tx(tx) ==
    \/ include_update_delegate_status(tx)
    \/ include_unreserve(tx)
    \/ include_init_errand(tx)
    \/ include_update_errand(tx)

-----------------------------------------------------------------------------
\* The block ends, and the nodes S, which import it as their best block,
\* start their workers for it.
end_block(S) ==
    /\ next_block
    /\ start_workers(S)
    /\ UNCHANGED <<delegate_info, results, stuck, services, executed, pool,
                   nonces, calls>>

run_worker(w, job) ==
    /\ worker_step(w, job)
    /\ UNCHANGED <<vars, calls>>

run_service(addr, task) ==
    /\ service_completes(addr, task)
    /\ UNCHANGED <<vars, calls>>

user_step ==
    \/ \E a \in Delegators, n \in DelegatorNames, addr \in NetAddresses :
         user_request_delegate(a, n, addr)
    \/ \E a \in Clients, n \in DelegatorNames, c \in Cids, f \in Fees :
         user_begin_task(a, n, c, f)

offchain_step ==
    \/ \E w \in DOMAIN workers : \E job \in workers[w].jobs :
         run_worker(w, job)
    \/ \E addr \in NetAddresses : \E task \in services[addr] :
         run_service(addr, task)

SystemNext ==
    \/ user_step
    \/ \E tx \in pool : include_tx(tx)
    \/ end_block(Nodes)
    \/ offchain_step

SystemSpec == SystemInit /\ [][SystemNext]_system_vars

-----------------------------------------------------------------------------
(* Properties.                                                             *)

\* The node with account a's key can load the answer of a's service.
known(a) ==
    \E n \in Nodes : a \in Keystore[n] /\ load_delegate_info(n, a)

\* A restart has left the lock of that answer held, for good.
lock_left(a) ==
    \E n \in Nodes : a \in Keystore[n] /\ <<n, a>> \in stuck_info

\* Some service has got the task.
sent(id, cid) ==
    \E addr \in NetAddresses : <<id, cid>> \in services[addr]

\* A service has completed this task, and its cid is the one given.
was_run(task, cid) ==
    /\ \E addr \in NetAddresses : task \in executed[addr]
    /\ task[2] = cid

\* Every errand goes back to a task of its own client and cid, with that
\* task's id (send_errand_tasks to init_errand): however late the worker of
\* a block submits, it does not mix up the tasks of its block.
ErrandsComeFromTasks ==
    \A c \in DOMAIN Errands :
        \E b \in DOMAIN Tasks : \E i \in DOMAIN Tasks[b] :
            /\ Tasks[b][i].errand_id = Errands[c].errand_id
            /\ Tasks[b][i].description_cid = c
            /\ Tasks[b][i].client = Errands[c].account_id

\* A delegate that is marked ready on chain can be served: the node with its
\* key can load the info send_task_internal needs (apply_delegates submits
\* update_delegate_status only after save_delegate_info).  No restart has
\* happened: see ReadyUnlessLockLeft.
ReadyDelegatesAreKnown ==
    \A a \in DOMAIN Delegates : Delegates[a] => known(a)

\* With restarts it is true but for one case: the node stopped inside the
\* lock of the delegate's info, and load_delegate_info fails from then on.
\* The delegate stays ready on chain, and all its tasks are dropped.  Nothing
\* else makes a ready delegate's info unavailable.
ReadyUnlessLockLeft ==
    \A a \in DOMAIN Delegates : Delegates[a] => known(a) \/ lock_left(a)

\* An errand is put on chain only for a task that a delegate's service has
\* got (send_errand_tasks): whoever polls the services for its result can
\* get one.
ErrandsAreSent ==
    \A c \in DOMAIN Errands : sent(Errands[c].errand_id, c)

\* The result of a completed errand is that of a task with the errand's cid
\* which a delegate's service has completed (fetch_errand_result_info to
\* update_errand): no failed query, lost transaction or late worker completes
\* an errand that was not run, or with the result of another.
ResultsAreExecuted ==
    \A c \in DOMAIN Errands :
        Errands[c].status = "Done" => was_run(Errands[c].result, c)

\* The life of tasks and errands as a client sees it (module ErrandService).
as_task(t) ==
    [id |-> t.errand_id, cid |-> t.description_cid, client |-> t.client]

as_errand(e) ==
    [id |-> e.errand_id, client |-> e.account_id, result |-> e.result]

client_tasks == {as_task(t) : t \in recorded_tasks}
client_sent == UNION {services[addr] : addr \in NetAddresses}
client_runs == UNION {executed[addr] : addr \in NetAddresses}
client_errands == [c \in DOMAIN Errands |-> as_errand(Errands[c])]

Service == INSTANCE ErrandService WITH
    tasks <- client_tasks, received <- client_sent,
    run <- client_runs, errands <- client_errands

\* Chain, workers, pool and services together implement the errand service:
\* a task is begun, then sent, and after that run and put on chain, in either
\* order; an errand gets the result of a task that was run.  A task is lost
\* only before it is sent, and nothing else becomes of it.
ImplementsService == Service!Spec

-----------------------------------------------------------------------------
(* The inductive strengthening for AbcSystemProofs: what is true of errands *)
(* on chain is true of everything on the way there.                        *)

\* A task of a block that has ended.  Only the tasks of the current block can
\* still be dropped (begin_task_aborted), and no worker has seen those.
begun(id, cid, client) ==
    \E b \in DOMAIN Tasks : \E i \in DOMAIN Tasks[b] :
        /\ b < block_number
        /\ Tasks[b][i].errand_id = id
        /\ Tasks[b][i].description_cid = cid
        /\ Tasks[b][i].client = client

\* The jobs of the worker of node n.
job_typed(n, job) ==
    /\ job.kind \in {"apply", "send"} => job.account \in Keystore[n]
    /\ job.kind = "apply" => job.name \in DelegatorNames
    /\ job.kind = "send" => /\ job.client \in AccountIds
                           /\ job.errand_id \in Uuid
                           /\ job.cid \in Cids
    /\ job.kind = "query" => job.cid \in Cids
    /\ job.kind = "report" => /\ job.account \in AccountIds
                             /\ job.cid \in Cids
                             /\ job.result \in Uuid \X Cids

call_typed(call) ==
    \/ call \in [fn : {"update_delegate_status"}, updater : AccountIds]
    \/ call \in [fn : {"unreserve"}, name : DelegatorNames,
                 client : AccountIds]
    \/ call \in [fn : {"init_errand"}, client : AccountIds,
                 errand_id : Uuid, cid : Cids]
    \/ call \in [fn : {"update_errand"}, cid : Cids, result : Uuid \X Cids]

\* Types of the state outside the chain, and of what is submitted to it.
WorkerTypeOK ==
    /\ DOMAIN workers \subseteq Nodes \X Nat
    /\ \A w \in DOMAIN workers : \A job \in workers[w].jobs :
         job_typed(w[1], job)
    /\ \A tx \in pool : tx.signer \in AccountIds /\ call_typed(tx.call)
    /\ delegate_info \in [Nodes -> SUBSET AccountIds]
    /\ results \in [Nodes -> Seq(Cids \X (Uuid \X Cids))]
    /\ services \in [NetAddresses -> SUBSET (Uuid \X Cids)]
    /\ executed \in [NetAddresses -> SUBSET (Uuid \X Cids)]

\* The answer of account a's service is stored, loadable or not.
has_info(a) == \E n \in Nodes : a \in Keystore[n] /\ a \in delegate_info[n]

ready_have_info == \A a \in DOMAIN Delegates : Delegates[a] => has_info(a)

\* A delegate's status is only submitted once its info is stored.
KnownInv ==
    /\ ready_have_info
    /\ \A tx \in pool :
         tx.call.fn = "update_delegate_status" => has_info(tx.signer)

\* An errand is only submitted once a service has got its task.
SentInv ==
    /\ ErrandsAreSent
    /\ \A tx \in pool :
         tx.call.fn = "init_errand" => sent(tx.call.errand_id, tx.call.cid)

\* Whatever carries an errand id has it from a task of an ended block.
OriginInv ==
    /\ \A c \in DOMAIN Errands :
         begun(Errands[c].errand_id, c, Errands[c].account_id)
    /\ \A w \in DOMAIN workers : \A job \in workers[w].jobs :
         /\ job.kind = "send" => begun(job.errand_id, job.cid, job.client)
         /\ job.kind = "query" =>
              \E client \in AccountIds : begun(job.errand_id, job.cid, client)
    /\ \A tx \in pool :
         tx.call.fn = "init_errand" =>
           begun(tx.call.errand_id, tx.call.cid, tx.call.client)
    /\ \A addr \in NetAddresses : \A task \in services[addr] :
         \E client \in AccountIds : begun(task[1], task[2], client)

\* Every result on its way is one of the cid it is reported for.
RunInv ==
    /\ ResultsAreExecuted
    /\ \A addr \in NetAddresses : executed[addr] \subseteq services[addr]
    /\ \A n \in Nodes : \A i \in DOMAIN results[n] :
         was_run(results[n][i][2], results[n][i][1])
    /\ \A w \in DOMAIN workers : \A job \in workers[w].jobs :
         job.kind = "report" => was_run(job.result, job.cid)
    /\ \A tx \in pool :
         tx.call.fn = "update_errand" => was_run(tx.call.result, tx.call.cid)

SystemInv ==
    /\ PalletInv
    /\ WorkerTypeOK
    /\ KnownInv
    /\ SentInv
    /\ OriginInv
    /\ RunInv

-----------------------------------------------------------------------------
(* What the repository says of the system and its code does not do.        *)

\* What "revert changes" in apply_delegates says of unreserve: it undoes the
\* request that failed, so whoever is still registered keeps its address.
RevertsOnlyItsRequest == DOMAIN Delegates \subseteq DOMAIN DelegateNetAddress

\* What begin_task says of the reserve, "reserve fee for commit errand
\* delegator": the fee of an errand goes to the delegate that committed it.
CommittingDelegateIsPaid ==
    [][ \A c \in DOMAIN Errands :
          Errands[c].status = "Processing" /\ Errands'[c].status = "Done" =>
            client_delegate(Errands[c].account_id)
              = Errands[c].errand_id.sender ]_system_vars

=============================================================================
