--------------------------- MODULE OffchainWorker ---------------------------
(***************************************************************************)
(* The off-chain half of pallets/abc-demo: offchain_worker and what it     *)
(* calls in lib.rs, delegate.rs, task.rs and http.rs (under src/pallets/   *)
(* abc-demo/src/), run by every node for every block it imports.           *)
(*                                                                         *)
(* A worker reads the chain at its own block only, and that state never    *)
(* changes again.  What it is going to do is therefore fixed when the      *)
(* block ends: it is the set of jobs `jobs`.  When it does it is not: the  *)
(* workers of several blocks and nodes interleave, an HTTP request takes   *)
(* up to three minutes, and a job's transaction reaches the chain later or *)
(* never.  The shared list of results behaves as the queue of ResultQueue  *)
(* (module LocalStorage); a lock found held fails the job.  A lock held by *)
(* a worker that is gone with its node stays held: `stuck_results` and     *)
(* `stuck_info` are set by the restarts of AbcFaults.                      *)
(*                                                                         *)
(* This is the worker as the node runs it by default, natively.  The calls *)
(* of apply_single_delegate, send_task_to_tea_network and                  *)
(* fetch_single_task_result exist only with the feature `std`; the same    *)
(* code run as wasm would submit its transactions with nothing requested,  *)
(* sent, stored or asked for.                                              *)
(***************************************************************************)
EXTENDS AbcPallet

CONSTANTS
    Nodes,
    Keystore,       \* node -> accounts whose keys it holds
    NoAddress,      \* the empty address a missing entry reads as
    QueryPeriod     \* results are queried in every QueryPeriod-th block

ASSUME WorkerAssumption ==
    /\ Keystore \in [Nodes -> SUBSET AccountIds]
    /\ NoAddress \notin NetAddresses
    /\ QueryPeriod \in Nat \ {0}

VARIABLES
    workers,        \* (node, block) -> jobs left, and next nonce per account
    delegate_info,  \* node -> delegates whose info is in its local storage
    results,        \* node -> (cid, result) pairs in its local storage
    stuck_results,  \* nodes whose lock of the results is left held
    stuck_info,     \* (node, account) whose lock of the info is left held
    services,       \* address -> (errand id, cid) its service has been sent
    executed,       \* address -> (errand id, cid) its service has completed
    pool,           \* submitted transactions that are not yet in a block
    nonces          \* frame_system: next nonce of each account

stuck == <<stuck_results, stuck_info>>
worker_vars == <<workers, delegate_info, results, stuck, services, executed,
                 pool, nonces>>

WorkerInit ==
    /\ workers = EmptyMap
    /\ delegate_info = [n \in Nodes |-> {}]
    /\ results = [n \in Nodes |-> <<>>]
    /\ stuck_results = {}
    /\ stuck_info = {}
    /\ services = [addr \in NetAddresses |-> {}]
    /\ executed = [addr \in NetAddresses |-> {}]
    /\ pool = {}
    /\ nonces = [a \in AccountIds |-> 0]

net_address(a) == get(DelegateNetAddress, a, NoAddress)

\* The accounts node n can sign for.
get_accounts(n) == Keystore[n]

\* One of them is authorised to report results.
may_report(n) == \E a \in get_accounts(n) : allow_to_update_result(a)

\* A request is answered by the service at an address, or by nobody; whether
\* it is answered in time and well is left open by the steps below.
http_post(addr) == addr \in NetAddresses

-----------------------------------------------------------------------------
(* The jobs of the worker of node n for the block that is ending.          *)

\* Requests of the block whose account has its key on this node.
apply_delegates(n) ==
    LET applies == get(DelegatesApplys, block_number, <<>>)
        mine == {i \in DOMAIN applies : applies[i][2] \in get_accounts(n)}
    IN  {[kind |-> "apply", pos |-> i, name |-> applies[i][1],
          account |-> applies[i][2], addr |-> net_address(applies[i][2])] :
           i \in mine}

\* Seeded fault: every task is sent under the id of the block's first.
errand_id_of_first(task) == block_tasks[1].errand_id

errand_id_of(task) == task.errand_id

\* Tasks of the block before the first whose delegator name is gone, those
\* with a delegate of this node.
send_errand_tasks(n) ==
    LET delegator(i) == DelegateAccounts[block_tasks[i].delegator]
        reached == {i \in DOMAIN block_tasks : \A j \in 1 .. i :
                      block_tasks[j].delegator \in DOMAIN DelegateAccounts}
        mine == {i \in reached : delegator(i) \in get_accounts(n)}
    IN  {[kind |-> "send", pos |-> i, account |-> delegator(i),
          client |-> block_tasks[i].client,
          cid |-> block_tasks[i].description_cid,
          errand_id |-> errand_id_of(block_tasks[i]),
          addr |-> net_address(delegator(i))] : i \in mine}

\* One query for each occurrence in ProcessingErrands, sent to the delegate
\* the errand's client has now.  The order of the Vec is left open.
query_errand_task_results(n) ==
    LET due == block_number % QueryPeriod = 0 /\ may_report(n)
        queries(c) ==
          {[kind |-> "query", pos |-> 0, nth |-> i, cid |-> c,
            errand_id |-> Errands[c].errand_id,
            addr |-> net_address(client_delegate(Errands[c].account_id))] :
             i \in 1 .. ProcessingErrands[c]}
    IN  IF due THEN UNION {queries(c) : c \in DOMAIN Errands} ELSE {}

update_errand_task_results(n) ==
    IF may_report(n) THEN {[kind |-> "update", pos |-> 0]} ELSE {}

\* The four phases of offchain_worker; without a key there are none.
offchain_worker(n) ==
    IF get_accounts(n) = {} THEN {}
    ELSE apply_delegates(n) \cup send_errand_tasks(n)
         \cup query_errand_task_results(n) \cup update_errand_task_results(n)

\* The phases come one after the other, and reports after the update.
phase == [apply |-> 1, send |-> 2, query |-> 3, update |-> 4, report |-> 5]

before(j, k) ==
    \/ phase[j.kind] < phase[k.kind]
    \/ j.kind = k.kind /\ j.pos < k.pos

\* The jobs worker w may do next: one, unless the order is left open.
next_jobs(w) ==
    {j \in workers[w].jobs : \A k \in workers[w].jobs : ~before(k, j)}

\* Those of the nodes S that have something to do for the ending block start
\* on it.
start_workers(S) ==
    LET busy == {n \in S : offchain_worker(n) # {}} IN
    workers' = [w \in DOMAIN workers \cup (busy \X {block_number}) |->
                  IF w \in DOMAIN workers THEN workers[w]
                  ELSE [jobs |-> offchain_worker(w[1]), nonces |-> nonces]]

-----------------------------------------------------------------------------
(* Transactions.                                                           *)

\* The worker goes on with the jobs `todo`, its next nonces being `next`.
continue(w, todo, next) ==
    workers' = IF todo = {} THEN remove(workers, w)
               ELSE [workers EXCEPT ![w] = [jobs |-> todo, nonces |-> next]]

\* send_signed_transaction by account a.  The nonce is the one of the
\* worker's block plus its own successful submissions since.  It may be
\* behind the chain's, and the transaction is then never included; or the
\* transaction of another worker may have it, and the pool then refuses the
\* one of lower priority.
submit(w, a, call, todo) ==
    LET next == workers[w].nonces
        tx == [signer |-> a, nonce |-> next[a], call |-> call]
        stale == next[a] < nonces[a]
        rivals == {t \in pool : t.signer = a /\ t.nonce = next[a]}
    IN
    \/ /\ pool' = IF stale THEN pool ELSE (pool \ rivals) \cup {tx}
       /\ continue(w, todo, [next EXCEPT ![a] = @ + 1])
    \/ /\ stale \/ rivals # {}
       /\ UNCHANGED pool
       /\ continue(w, todo, next)

-----------------------------------------------------------------------------
(* The steps of worker w: its next job, up to and with its transaction.    *)

at_job(w, job, kind) ==
    /\ w \in DOMAIN workers
    /\ job \in next_jobs(w)
    /\ job.kind = kind

at_kind(w, kind) == \E job \in next_jobs(w) : at_job(w, job, kind)

\* The jobs left after this one.
rest(w, job) == workers[w].jobs \ {job}

\* Another worker of w's node is at a job of one of these kinds.
other_worker_at(w, kinds) ==
    \E v \in DOMAIN workers :
        /\ v # w
        /\ v[1] = w[1]
        /\ \E kind \in kinds : at_kind(v, kind)

\* The lock of the node's results is held by a worker that submits them, or
\* by one that is gone.
lock_held(w) == other_worker_at(w, {"report"}) \/ w[1] \in stuck_results

\* It is held, or a worker that stores or loads results may have it.
lock_may_be_held(w) == lock_held(w) \/ other_worker_at(w, {"query", "update"})

\* Seeded fault: the answer of the service is not stored.
save_delegate_info_skipped(n, a) == UNCHANGED delegate_info

\* The answer takes the place of an earlier one.  It does not say which
\* service gave it, and load_delegate_info does not ask.
save_delegate_info(n, a) ==
    /\ <<n, a>> \notin stuck_info
    /\ delegate_info' = [delegate_info EXCEPT ![n] = @ \cup {a}]

\* The service takes the delegate on and its answer is stored.
request_single_delegate(w, job) ==
    /\ at_job(w, job, "apply")
    /\ http_post(job.addr)
    /\ save_delegate_info(w[1], job.account)
    /\ submit(w, job.account,
              [fn |-> "update_delegate_status", updater |-> job.account],
              rest(w, job))
    /\ UNCHANGED <<results, services, nonces>>

\* The request, its answer or the local storage fails: revert changes.
request_single_delegate_failed(w, job) ==
    /\ at_job(w, job, "apply")
    /\ submit(w, job.account,
              [fn |-> "unreserve", name |-> job.name, client |-> job.account],
              rest(w, job))
    /\ UNCHANGED <<delegate_info, results, services, nonces>>

\* load_delegate_info finds the delegate's signature.
load_delegate_info(n, a) ==
    /\ <<n, a>> \notin stuck_info
    /\ a \in delegate_info[n]

\* The service at the job's address gets its task.
send_task_internal(job) ==
    services' = [services EXCEPT
                   ![job.addr] = @ \cup {<<job.errand_id, job.cid>>}]

\* init_errand is submitted for the task of the job.
init_single_errand_task(w, job) ==
    submit(w, job.account,
           [fn |-> "init_errand", client |-> job.client,
            errand_id |-> job.errand_id, cid |-> job.cid],
           rest(w, job))

\* The service has the task, and init_errand is submitted.
send_task_to_tea_network(w, job) ==
    /\ at_job(w, job, "send")
    /\ http_post(job.addr)
    /\ load_delegate_info(w[1], job.account)
    /\ send_task_internal(job)
    /\ init_single_errand_task(w, job)
    /\ UNCHANGED <<delegate_info, results, nonces>>

\* Seeded fault: the worker goes on to init_errand after a failed request.
give_up_and_init(w, job) == init_single_errand_task(w, job)

\* The task is dropped.  The unreserve before it in the code changes nothing:
\* what an offchain worker writes to the chain's storage is discarded.
give_up(w, job) ==
    /\ continue(w, rest(w, job), workers[w].nonces)
    /\ UNCHANGED pool

\* No info, no answer in time, or a bad one, whether or not the service has
\* got the task.
send_task_failed(w, job) ==
    /\ at_job(w, job, "send")
    /\ \/ UNCHANGED services
       \/ /\ http_post(job.addr)
          /\ load_delegate_info(w[1], job.account)
          /\ send_task_internal(job)
    /\ give_up(w, job)
    /\ UNCHANGED <<delegate_info, results, nonces>>

\* Seeded fault: the `completed` flag of the answer is not looked at.
has_result_unchecked(job, task) ==
    /\ task \in services[job.addr]
    /\ task[1] = job.errand_id

\* The service, asked by errand id, says that it has completed a task.
has_result(job, task) ==
    /\ task \in executed[job.addr]
    /\ task[1] = job.errand_id

\* The result of a completed task is stored for the cid asked about.  A
\* result is named by the task the service has run.
fetch_single_task_result(w, job) ==
    /\ at_job(w, job, "query")
    /\ ~lock_held(w)
    /\ http_post(job.addr)
    /\ \E task \in services[job.addr] :
         /\ has_result(job, task)
         /\ results' = [results EXCEPT
                          ![w[1]] = Append(@, <<job.cid, task>>)]
    /\ continue(w, rest(w, job), workers[w].nonces)
    /\ UNCHANGED <<delegate_info, services, pool, nonces>>

\* Not completed, no answer, or the lock is held: asked again next time.
fetch_no_result(w, job) ==
    /\ at_job(w, job, "query")
    /\ continue(w, rest(w, job), workers[w].nonces)
    /\ UNCHANGED <<delegate_info, results, services, pool, nonces>>

\* One transaction per stored result and local account.
reports(n) ==
    {[kind |-> "report", pos |-> i, account |-> a,
      cid |-> results[n][i][1], result |-> results[n][i][2]] :
        i \in DOMAIN results[n], a \in get_accounts(n)}

\* The stored results are taken, to be reported one after the other.
load_tasks_results_info(w, job) ==
    /\ at_job(w, job, "update")
    /\ ~lock_held(w)
    /\ continue(w, reports(w[1]), workers[w].nonces)
    /\ results' = [results EXCEPT ![w[1]] = <<>>]
    /\ UNCHANGED <<delegate_info, services, pool, nonces>>

\* The lock of the results is held by another worker: the next block tries.
load_tasks_results_locked(w, job) ==
    /\ at_job(w, job, "update")
    /\ lock_may_be_held(w)
    /\ continue(w, {}, workers[w].nonces)
    /\ UNCHANGED <<delegate_info, results, services, pool, nonces>>

update_single_errand(w, job) ==
    /\ at_job(w, job, "report")
    /\ submit(w, job.account,
              [fn |-> "update_errand", cid |-> job.cid, result |-> job.result],
              rest(w, job))
    /\ UNCHANGED <<delegate_info, results, services, nonces>>

worker_step(w, job) ==
    /\ \/ request_single_delegate(w, job)
       \/ request_single_delegate_failed(w, job)
       \/ send_task_to_tea_network(w, job)
       \/ send_task_failed(w, job)
       \/ fetch_single_task_result(w, job)
       \/ fetch_no_result(w, job)
       \/ load_tasks_results_info(w, job)
       \/ load_tasks_results_locked(w, job)
       \/ update_single_errand(w, job)
    /\ UNCHANGED <<stuck, executed>>

\* A service completes a task it has been sent.
service_completes(addr, task) ==
    /\ task \in services[addr] \ executed[addr]
    /\ executed' = [executed EXCEPT ![addr] = @ \cup {task}]
    /\ UNCHANGED <<workers, delegate_info, results, stuck, services, pool,
                   nonces>>

=============================================================================
