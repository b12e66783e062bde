--------------------------- MODULE AbcSystemProofs ---------------------------
(***************************************************************************)
(* Proofs about AbcSystem for every value of its constants: the inductive  *)
(* invariant SystemInv, the safety properties it implies, and that the     *)
(* system implements ErrandService and the pallet alone.                   *)
(*                                                                         *)
(* The lemmas are about `system_step`, in which any nodes may import a     *)
(* block as their best: AbcFaultsProofs uses them too.                     *)
(***************************************************************************)
EXTENDS AbcSystem, AbcPalletProofs

\* A step of the system, whichever nodes start a worker for an ending block.
system_step ==
    \/ user_step
    \/ \E tx \in pool : include_tx(tx)
    \/ \E S \in SUBSET Nodes : end_block(S)
    \/ offchain_step

-----------------------------------------------------------------------------
(* The chain: every step of the system is one of the pallet, or none.      *)

LEMMA CallTypes ==
    ASSUME NEW call, call_typed(call)
    PROVE  /\ call.fn = "update_delegate_status" => call.updater \in AccountIds
           /\ call.fn = "unreserve" => /\ call.name \in DelegatorNames
                                       /\ call.client \in AccountIds
           /\ call.fn = "init_errand" => /\ call.client \in AccountIds
                                         /\ call.errand_id \in Uuid
                                         /\ call.cid \in Cids
           /\ call.fn = "update_errand" => /\ call.cid \in Cids
                                           /\ call.result \in Uuid \X Cids
BY DEF call_typed

LEMMA UserIsPallet ==
    ASSUME user_step
    PROVE  Next
<1>1. ASSUME NEW a \in Delegators, NEW n \in DelegatorNames,
             NEW addr \in NetAddresses, user_request_delegate(a, n, addr)
      PROVE  Next
  <2>1. a \in AccountIds
    BY SystemAssumption
  <2>2. request_delegate(a, n, addr) \/ request_delegate_refused(a)
    BY <1>1 DEF user_request_delegate
  <2>3. QED BY <2>1, <2>2 DEF Next
<1>2. ASSUME NEW a \in Clients, NEW n \in DelegatorNames, NEW c \in Cids,
             NEW f \in Fees, user_begin_task(a, n, c, f)
      PROVE  Next
  <2>1. a \in AccountIds
    BY SystemAssumption
  <2>2. \/ begin_task(a, n, c, f)
        \/ begin_task_aborted(a, n, c, f)
        \/ begin_task_refused(a, n, c, f)
    BY <1>2 DEF user_begin_task
  <2>3. QED BY <2>1, <2>2 DEF Next
<1>3. QED BY <1>1, <1>2 DEF user_step

LEMMA IncludeIsPallet ==
    ASSUME WorkerTypeOK, NEW tx \in pool, include_tx(tx)
    PROVE  Next
<1>1. tx.signer \in AccountIds /\ call_typed(tx.call)
  BY DEF WorkerTypeOK
<1>2. CASE include_update_delegate_status(tx)
  <2>1. tx.call.updater \in AccountIds
    BY <1>1, <1>2, CallTypes DEF include_update_delegate_status, include
  <2>2. \/ update_delegate_status(tx.signer, tx.call.updater)
        \/ update_delegate_status_refused(tx.signer, tx.call.updater)
    BY <1>2 DEF include_update_delegate_status
  <2>3. QED BY <1>1, <2>1, <2>2 DEF Next
<1>3. CASE include_unreserve(tx)
  <2>1. tx.call.name \in DelegatorNames /\ tx.call.client \in AccountIds
    BY <1>1, <1>3, CallTypes DEF include_unreserve, include
  <2>2. unreserve(tx.call.name, tx.call.client)
    BY <1>3 DEF include_unreserve
  <2>3. QED BY <2>1, <2>2 DEF Next
<1>4. CASE include_init_errand(tx)
  <2>1. /\ tx.call.client \in AccountIds
        /\ tx.call.errand_id \in ErrandIds
        /\ tx.call.cid \in Cids
    BY <1>1, <1>4, CallTypes, SystemAssumption
       DEF include_init_errand, include
  <2>2. \/ init_errand(tx.signer, tx.call.client, tx.call.errand_id,
                       tx.call.cid)
        \/ init_errand_refused(tx.signer, tx.call.client)
    BY <1>4 DEF include_init_errand
  <2>3. QED BY <1>1, <2>1, <2>2 DEF Next
<1>5. CASE include_update_errand(tx)
  <2>1. tx.call.cid \in Cids /\ tx.call.result \in ResultCids
    BY <1>1, <1>5, CallTypes, SystemAssumption
       DEF include_update_errand, include
  <2>2. \/ update_errand(tx.signer, tx.call.cid, tx.call.result)
        \/ update_errand_refused(tx.signer, tx.call.cid)
    BY <1>5 DEF include_update_errand
  <2>3. QED BY <1>1, <2>1, <2>2 DEF Next
<1>6. QED BY <1>2, <1>3, <1>4, <1>5 DEF include_tx

\* The pallet's specification allows every step of the system.
LEMMA PalletStep ==
    ASSUME WorkerTypeOK, system_step
    PROVE  [Next]_vars
<1>1. CASE \E S \in SUBSET Nodes : end_block(S)
  BY <1>1 DEF end_block, Next
<1>2. CASE offchain_step
  BY <1>2 DEF offchain_step, run_worker, run_service
<1>3. QED
  BY <1>1, <1>2, UserIsPallet, IncludeIsPallet DEF system_step

-----------------------------------------------------------------------------
(* What each kind of step does to the state outside the chain.             *)

\* Calls of users and of workers only use up nonces.
LEMMA CallFrame ==
    ASSUME user_step \/ \E tx \in pool : include_tx(tx)
    PROVE  /\ pool' \subseteq pool
           /\ UNCHANGED <<workers, delegate_info, results, stuck, services,
                          executed>>
<1>1. ASSUME NEW a, use_nonce(a) PROVE pool' \subseteq pool
  BY <1>1 DEF use_nonce
<1>2. CASE user_step
  BY <1>1, <1>2
     DEF user_step, user_request_delegate, user_begin_task, user_call
<1>3. CASE \E tx \in pool : include_tx(tx)
  BY <1>1, <1>3
     DEF include_tx, include_update_delegate_status, include_unreserve,
         include_init_errand, include_update_errand, include
<1>4. QED BY <1>2, <1>3

\* Worker w has the jobs `todo` left, the others what they had.
jobs_become(w, todo) ==
    /\ DOMAIN workers' \subseteq DOMAIN workers
    /\ \A v \in DOMAIN workers' :
         workers'[v].jobs = IF v = w THEN todo ELSE workers[v].jobs

\* No transaction but this one is new.
pool_gets(a, call) ==
    \A tx \in pool' : tx \in pool \/ (tx.signer = a /\ tx.call = call)

LEMMA ContinueEffect ==
    ASSUME NEW w \in DOMAIN workers, NEW todo, NEW next,
           continue(w, todo, next)
    PROVE  jobs_become(w, todo)
<1>1. CASE todo = {}
  BY <1>1 DEF continue, remove, jobs_become
<1>2. CASE todo # {}
  BY <1>2 DEF continue, jobs_become
<1>3. QED BY <1>1, <1>2

LEMMA SubmitEffect ==
    ASSUME NEW w \in DOMAIN workers, NEW a, NEW call, NEW todo,
           submit(w, a, call, todo)
    PROVE  jobs_become(w, todo) /\ pool_gets(a, call)
<1> DEFINE next == workers[w].nonces
           tx == [signer |-> a, nonce |-> next[a], call |-> call]
           stale == next[a] < nonces[a]
           rivals == {t \in pool : t.signer = a /\ t.nonce = next[a]}
<1>1. \E n : continue(w, todo, n)
  BY DEF submit
<1>2. \/ pool' = IF stale THEN pool ELSE (pool \ rivals) \cup {tx}
      \/ UNCHANGED pool
  BY DEF submit
<1>3. tx.signer = a /\ tx.call = call
  OBVIOUS
<1> HIDE DEF tx, stale
<1>4. pool_gets(a, call)
  BY <1>2, <1>3 DEF pool_gets
<1>5. QED BY <1>1, <1>4, ContinueEffect

\* A worker's jobs only become fewer, until it takes up the stored results.
LEMMA NewJobs ==
    ASSUME NEW w \in DOMAIN workers, NEW job \in workers[w].jobs,
           worker_step(w, job)
    PROVE  /\ DOMAIN workers' \subseteq DOMAIN workers
           /\ \A v \in DOMAIN workers' : \A j \in workers'[v].jobs :
                \/ j \in workers[v].jobs
                \/ v = w /\ j \in reports(w[1])
<1>1. \E todo : /\ jobs_become(w, todo)
                /\ todo \subseteq workers[w].jobs \cup reports(w[1])
  <2>1. rest(w, job) \subseteq workers[w].jobs
    BY DEF rest
  <2>2. CASE \/ request_single_delegate(w, job)
             \/ request_single_delegate_failed(w, job)
             \/ send_task_to_tea_network(w, job)
             \/ update_single_errand(w, job)
    <3>1. \E a, call : submit(w, a, call, rest(w, job))
      BY <2>2
         DEF request_single_delegate, request_single_delegate_failed,
             send_task_to_tea_network, init_single_errand_task,
             update_single_errand
    <3>2. QED BY <2>1, <3>1, SubmitEffect
  <2>3. CASE \/ send_task_failed(w, job)
             \/ fetch_single_task_result(w, job)
             \/ fetch_no_result(w, job)
    <3>1. continue(w, rest(w, job), workers[w].nonces)
      BY <2>3
         DEF send_task_failed, give_up, fetch_single_task_result,
             fetch_no_result
    <3>2. QED BY <2>1, <3>1, ContinueEffect
  <2>4. CASE \/ load_tasks_results_info(w, job)
             \/ load_tasks_results_locked(w, job)
    <3>1. \/ continue(w, reports(w[1]), workers[w].nonces)
          \/ continue(w, {}, workers[w].nonces)
      BY <2>4 DEF load_tasks_results_info, load_tasks_results_locked
    <3>2. QED BY <3>1, ContinueEffect
  <2>5. QED BY <2>2, <2>3, <2>4 DEF worker_step
<1>2. QED BY <1>1 DEF jobs_become

\* What a new transaction of a worker says, and what its node has done first.
LEMMA NewTxs ==
    ASSUME NEW w \in DOMAIN workers, NEW job \in workers[w].jobs,
           worker_step(w, job), NEW tx \in pool', tx \notin pool
    PROVE  /\ tx.signer = job.account
           /\ \/ /\ job.kind = "apply"
                 /\ tx.call = [fn |-> "update_delegate_status",
                               updater |-> job.account]
                 /\ save_delegate_info(w[1], job.account)
              \/ /\ job.kind = "apply"
                 /\ tx.call = [fn |-> "unreserve", name |-> job.name,
                               client |-> job.account]
              \/ /\ job.kind = "send"
                 /\ tx.call = [fn |-> "init_errand", client |-> job.client,
                               errand_id |-> job.errand_id, cid |-> job.cid]
                 /\ job.addr \in NetAddresses
                 /\ send_task_internal(job)
              \/ /\ job.kind = "report"
                 /\ tx.call = [fn |-> "update_errand", cid |-> job.cid,
                               result |-> job.result]
<1>1. CASE request_single_delegate(w, job)
  BY <1>1, SubmitEffect DEF request_single_delegate, at_job, pool_gets
<1>2. CASE request_single_delegate_failed(w, job)
  BY <1>2, SubmitEffect
     DEF request_single_delegate_failed, at_job, pool_gets
<1>3. CASE send_task_to_tea_network(w, job)
  BY <1>3, SubmitEffect
     DEF send_task_to_tea_network, init_single_errand_task, at_job, pool_gets,
         http_post
<1>4. CASE update_single_errand(w, job)
  BY <1>4, SubmitEffect DEF update_single_errand, at_job, pool_gets
<1>5. CASE \/ send_task_failed(w, job)
           \/ fetch_single_task_result(w, job)
           \/ fetch_no_result(w, job)
           \/ load_tasks_results_info(w, job)
           \/ load_tasks_results_locked(w, job)
  BY <1>5
     DEF send_task_failed, give_up, fetch_single_task_result, fetch_no_result,
         load_tasks_results_info, load_tasks_results_locked
<1>6. QED BY <1>1, <1>2, <1>3, <1>4, <1>5 DEF worker_step

\* The infos and the services' tasks only become more, by what is in the job.
LEMMA NewInfo ==
    ASSUME NEW w, NEW job, worker_step(w, job)
    PROVE  /\ \/ UNCHANGED delegate_info
              \/ /\ job.kind = "apply"
                 /\ delegate_info' = [delegate_info EXCEPT
                                        ![w[1]] = @ \cup {job.account}]
           /\ \/ UNCHANGED services
              \/ /\ job.kind = "send"
                 /\ job.addr \in NetAddresses
                 /\ send_task_internal(job)
           /\ UNCHANGED executed
BY DEF worker_step, request_single_delegate, request_single_delegate_failed,
       send_task_to_tea_network, send_task_failed, fetch_single_task_result,
       fetch_no_result, load_tasks_results_info, load_tasks_results_locked,
       update_single_errand, save_delegate_info, at_job, http_post

\* What becomes of the stored results.
LEMMA NewResults ==
    ASSUME NEW w, NEW job, worker_step(w, job)
    PROVE  \/ UNCHANGED results
           \/ results' = [results EXCEPT ![w[1]] = <<>>]
           \/ /\ job.kind = "query"
              /\ job.addr \in NetAddresses
              /\ \E task \in executed[job.addr] :
                   /\ task[1] = job.errand_id
                   /\ results' = [results EXCEPT
                                    ![w[1]] = Append(@, <<job.cid, task>>)]
BY DEF worker_step, request_single_delegate, request_single_delegate_failed,
       send_task_to_tea_network, send_task_failed, fetch_single_task_result,
       fetch_no_result, load_tasks_results_info, load_tasks_results_locked,
       update_single_errand, at_job, http_post, has_result

-----------------------------------------------------------------------------
(* The jobs of a new worker.                                               *)

\* They are those of the ending block, or the worker is an old one.
LEMMA StartEffect ==
    ASSUME TypeOK, NEW S \in SUBSET Nodes, start_workers(S),
           NEW v \in DOMAIN workers', NEW j \in workers'[v].jobs
    PROVE  \/ v \in DOMAIN workers /\ j \in workers[v].jobs
           \/ /\ v \in Nodes \X Nat
              /\ v[1] \in S
              /\ j \in offchain_worker(v[1])
<1> DEFINE busy == {n \in S : offchain_worker(n) # {}}
<1>1. workers' = [w \in DOMAIN workers \cup (busy \X {block_number}) |->
                    IF w \in DOMAIN workers THEN workers[w]
                    ELSE [jobs |-> offchain_worker(w[1]), nonces |-> nonces]]
  BY DEF start_workers
<1>2. block_number \in Nat
  BY DEF TypeOK
<1> HIDE DEF busy
<1>3. CASE v \in DOMAIN workers
  BY <1>1, <1>3
<1>4. CASE v \notin DOMAIN workers
  <2>1. v \in busy \X {block_number} /\ j \in offchain_worker(v[1])
    BY <1>1, <1>4
  <2>2. QED BY <1>2, <2>1 DEF busy
<1>5. QED BY <1>3, <1>4

\* What a job of the ending block has from the chain.
LEMMA JobOfBlock ==
    ASSUME TypeOK, NEW n \in Nodes, NEW j \in offchain_worker(n)
    PROVE  /\ job_typed(n, j)
           /\ j.kind # "report"
           /\ j.kind = "send" =>
                \E i \in DOMAIN block_tasks :
                  /\ j.errand_id = block_tasks[i].errand_id
                  /\ j.cid = block_tasks[i].description_cid
                  /\ j.client = block_tasks[i].client
           /\ j.kind = "send" =>
                \E name \in DOMAIN DelegateAccounts :
                  j.account = DelegateAccounts[name]
           /\ j.kind = "query" =>
                /\ j.cid \in DOMAIN Errands
                /\ j.errand_id = Errands[j.cid].errand_id
<1>1. CASE j \in apply_delegates(n)
  <2> DEFINE applies == get(DelegatesApplys, block_number, <<>>)
  <2>1. applies \in Seq(DelegatorNames \X AccountIds)
    BY DEF TypeOK, IsMap, get
  <2>2. PICK i \in DOMAIN applies :
               /\ applies[i][2] \in get_accounts(n)
               /\ j = [kind |-> "apply", pos |-> i, name |-> applies[i][1],
                       account |-> applies[i][2],
                       addr |-> net_address(applies[i][2])]
    BY <1>1 DEF apply_delegates
  <2>3. applies[i] \in DelegatorNames \X AccountIds
    BY <2>1
  <2> HIDE DEF applies
  <2>4. QED BY <2>2, <2>3 DEF job_typed, get_accounts
<1>2. CASE j \in send_errand_tasks(n)
  <2> DEFINE delegator(i) == DelegateAccounts[block_tasks[i].delegator]
  <2>1. PICK i \in DOMAIN block_tasks :
               /\ delegator(i) \in get_accounts(n)
               /\ j = [kind |-> "send", pos |-> i, account |-> delegator(i),
                       client |-> block_tasks[i].client,
                       cid |-> block_tasks[i].description_cid,
                       errand_id |-> block_tasks[i].errand_id,
                       addr |-> net_address(delegator(i))]
               /\ \A k \in 1 .. i :
                    block_tasks[k].delegator \in DOMAIN DelegateAccounts
    BY <1>2 DEF send_errand_tasks, errand_id_of
  <2>2. block_tasks[i] \in TaskInfo /\ i \in 1 .. i
    BY BlockTasksType
  <2>3. block_tasks[i].delegator \in DOMAIN DelegateAccounts
    BY <2>1, <2>2
  <2>4. j.account = DelegateAccounts[block_tasks[i].delegator]
    BY <2>1
  <2> HIDE DEF delegator
  <2>5. QED BY <2>1, <2>2, <2>3, <2>4 DEF job_typed, get_accounts, TaskInfo
<1>3. CASE j \in query_errand_task_results(n)
  <2>1. PICK c \in DOMAIN Errands :
               /\ j.kind = "query"
               /\ j.cid = c
               /\ j.errand_id = Errands[c].errand_id
    BY <1>3 DEF query_errand_task_results
  <2>2. c \in Cids
    BY DEF TypeOK, IsMap
  <2>3. QED BY <2>1, <2>2 DEF job_typed
<1>4. CASE j \in update_errand_task_results(n)
  <2>1. j.kind = "update"
    BY <1>4 DEF update_errand_task_results
  <2>2. QED BY <2>1 DEF job_typed
<1>5. QED BY <1>1, <1>2, <1>3, <1>4 DEF offchain_worker

\* What a report has from the stored results.
LEMMA JobOfResults ==
    ASSUME WorkerTypeOK, NEW n \in Nodes, NEW j \in reports(n)
    PROVE  /\ job_typed(n, j)
           /\ j.kind = "report"
           /\ \E i \in DOMAIN results[n] :
                /\ j.cid = results[n][i][1]
                /\ j.result = results[n][i][2]
<1>1. PICK i \in DOMAIN results[n], a \in get_accounts(n) :
             j = [kind |-> "report", pos |-> i, account |-> a,
                  cid |-> results[n][i][1], result |-> results[n][i][2]]
  BY DEF reports
<1>2. a \in AccountIds
  BY WorkerAssumption DEF get_accounts
<1>3. results[n][i] \in Cids \X (Uuid \X Cids)
  BY DEF WorkerTypeOK
<1>4. QED BY <1>1, <1>2, <1>3 DEF job_typed

-----------------------------------------------------------------------------
(* Types.                                                                  *)

LEMMA WorkerTypeInit == SystemInit => WorkerTypeOK
<1>1. DOMAIN EmptyMap = {}
  BY EmptyMapType
<1>2. QED BY <1>1 DEF SystemInit, WorkerInit, WorkerTypeOK

\* A worker's transaction is typed as its job is.
LEMMA NewTxType ==
    ASSUME WorkerTypeOK, NEW w \in DOMAIN workers,
           NEW job \in workers[w].jobs, worker_step(w, job),
           NEW tx \in pool', tx \notin pool
    PROVE  tx.signer \in AccountIds /\ call_typed(tx.call)
<1>1. w[1] \in Nodes /\ job_typed(w[1], job)
  BY DEF WorkerTypeOK
<1>2. Keystore[w[1]] \subseteq AccountIds
  BY <1>1, WorkerAssumption
<1>3. job.kind \in {"apply", "send", "report"} /\ tx.signer = job.account
  BY NewTxs
<1>4. tx.signer \in AccountIds
  BY <1>1, <1>2, <1>3 DEF job_typed
<1>5. CASE /\ job.kind = "apply"
           /\ \/ tx.call = [fn |-> "update_delegate_status",
                            updater |-> job.account]
              \/ tx.call = [fn |-> "unreserve", name |-> job.name,
                            client |-> job.account]
  BY <1>1, <1>3, <1>4, <1>5 DEF job_typed, call_typed
<1>6. CASE /\ job.kind = "send"
           /\ tx.call = [fn |-> "init_errand", client |-> job.client,
                         errand_id |-> job.errand_id, cid |-> job.cid]
  BY <1>1, <1>4, <1>6 DEF job_typed, call_typed
<1>7. CASE /\ job.kind = "report"
           /\ tx.call = [fn |-> "update_errand", cid |-> job.cid,
                         result |-> job.result]
  BY <1>1, <1>4, <1>7 DEF job_typed, call_typed
<1>8. QED BY <1>4, <1>5, <1>6, <1>7, NewTxs

LEMMA WorkerStepType ==
    ASSUME WorkerTypeOK, NEW w \in DOMAIN workers,
           NEW job \in workers[w].jobs, worker_step(w, job)
    PROVE  WorkerTypeOK'
<1>0. w[1] \in Nodes /\ job_typed(w[1], job)
  BY DEF WorkerTypeOK
<1>1. DOMAIN workers' \subseteq Nodes \X Nat
  BY NewJobs DEF WorkerTypeOK
<1>2. \A v \in DOMAIN workers' : \A j \in workers'[v].jobs :
        job_typed(v[1], j)
  BY <1>0, NewJobs, JobOfResults DEF WorkerTypeOK
<1>3. \A tx \in pool' : tx.signer \in AccountIds /\ call_typed(tx.call)
  BY NewTxType DEF WorkerTypeOK
<1>4. delegate_info' \in [Nodes -> SUBSET AccountIds]
  <2>1. job.kind = "apply" => job.account \in AccountIds
    BY <1>0, WorkerAssumption DEF job_typed
  <2>2. QED BY <1>0, <2>1, NewInfo DEF WorkerTypeOK
<1>5. results' \in [Nodes -> Seq(Cids \X (Uuid \X Cids))]
  <2>1. results \in [Nodes -> Seq(Cids \X (Uuid \X Cids))]
    BY DEF WorkerTypeOK
  <2>2. CASE results' = [results EXCEPT ![w[1]] = <<>>]
    <3>1. <<>> \in Seq(Cids \X (Uuid \X Cids))
      OBVIOUS
    <3>2. QED BY <2>1, <2>2, <3>1
  <2>3. CASE /\ job.kind = "query"
             /\ job.addr \in NetAddresses
             /\ \E task \in executed[job.addr] :
                  results' = [results EXCEPT
                                ![w[1]] = Append(@, <<job.cid, task>>)]
    <3>1. PICK task \in executed[job.addr] :
                 results' = [results EXCEPT
                               ![w[1]] = Append(@, <<job.cid, task>>)]
      BY <2>3
    <3>2. <<job.cid, task>> \in Cids \X (Uuid \X Cids)
      BY <1>0, <2>3 DEF job_typed, WorkerTypeOK
    <3>3. Append(results[w[1]], <<job.cid, task>>)
            \in Seq(Cids \X (Uuid \X Cids))
      BY <1>0, <2>1, <3>2
    <3>4. QED BY <1>0, <2>1, <3>1, <3>3
  <2>4. CASE UNCHANGED results
    BY <2>1, <2>4
  <2> DEFINE Empty == results' = [results EXCEPT ![w[1]] = <<>>]
             Fetch(task) == results' = [results EXCEPT
                              ![w[1]] = Append(@, <<job.cid, task>>)]
  <2>5. \/ UNCHANGED results
        \/ Empty
        \/ /\ job.kind = "query"
           /\ job.addr \in NetAddresses
           /\ \E task \in executed[job.addr] : Fetch(task)
    <3>1. \/ UNCHANGED results
          \/ Empty
          \/ /\ job.kind = "query"
             /\ job.addr \in NetAddresses
             /\ \E task \in executed[job.addr] :
                  task[1] = job.errand_id /\ Fetch(task)
      BY NewResults
    <3> HIDE DEF Empty, Fetch
    <3>2. QED BY <3>1
  <2>6. QED BY <2>2, <2>3, <2>4, <2>5, Zenon
<1>6. services' \in [NetAddresses -> SUBSET (Uuid \X Cids)]
  <2>1. services \in [NetAddresses -> SUBSET (Uuid \X Cids)]
    BY DEF WorkerTypeOK
  <2>2. CASE UNCHANGED services
    BY <2>1, <2>2
  <2>3. CASE /\ job.kind = "send"
             /\ job.addr \in NetAddresses
             /\ send_task_internal(job)
    <3>1. <<job.errand_id, job.cid>> \in Uuid \X Cids
      BY <1>0, <2>3 DEF job_typed
    <3>2. services' = [services EXCEPT
                         ![job.addr] = @ \cup {<<job.errand_id, job.cid>>}]
      BY <2>3 DEF send_task_internal
    <3>3. services[job.addr] \cup {<<job.errand_id, job.cid>>}
            \in SUBSET (Uuid \X Cids)
      BY <2>1, <2>3, <3>1
    <3>4. QED BY <2>1, <2>3, <3>2, <3>3
  <2>4. QED BY <2>2, <2>3, NewInfo
<1>7. executed' \in [NetAddresses -> SUBSET (Uuid \X Cids)]
  BY NewInfo DEF WorkerTypeOK
<1>8. QED
  BY <1>1, <1>2, <1>3, <1>4, <1>5, <1>6, <1>7 DEF WorkerTypeOK

LEMMA ServiceStepType ==
    ASSUME WorkerTypeOK, NEW addr \in NetAddresses,
           NEW task \in services[addr], service_completes(addr, task)
    PROVE  WorkerTypeOK'
<1>1. /\ executed' = [executed EXCEPT ![addr] = @ \cup {task}]
      /\ UNCHANGED <<workers, delegate_info, results, services, pool>>
  BY DEF service_completes
<1>2. executed' \in [NetAddresses -> SUBSET (Uuid \X Cids)]
  BY <1>1 DEF WorkerTypeOK
<1>3. QED BY <1>1, <1>2 DEF WorkerTypeOK, job_typed, call_typed

LEMMA WorkerTypeStep ==
    ASSUME TypeOK, WorkerTypeOK, system_step
    PROVE  WorkerTypeOK'
<1>1. CASE user_step \/ \E tx \in pool : include_tx(tx)
  BY <1>1, CallFrame DEF WorkerTypeOK, job_typed, call_typed
<1>2. ASSUME NEW S \in SUBSET Nodes, end_block(S) PROVE WorkerTypeOK'
  <2>1. UNCHANGED <<delegate_info, results, services, executed, pool>>
    BY <1>2 DEF end_block
  <2>2. start_workers(S)
    BY <1>2 DEF end_block
  <2>3. DOMAIN workers' \subseteq Nodes \X Nat
    BY <2>2 DEF start_workers, WorkerTypeOK, TypeOK
  <2>4. \A v \in DOMAIN workers' : \A j \in workers'[v].jobs :
          job_typed(v[1], j)
    BY <2>2, StartEffect, JobOfBlock DEF WorkerTypeOK
  <2>5. QED BY <2>1, <2>3, <2>4 DEF WorkerTypeOK, call_typed, job_typed
<1>3. CASE offchain_step
  BY <1>3, WorkerStepType, ServiceStepType
     DEF offchain_step, run_worker, run_service
<1>4. QED BY <1>1, <1>2, <1>3 DEF system_step

-----------------------------------------------------------------------------
(* What stays true, and where what is new on the chain comes from.         *)

\* The tasks of ended blocks are never touched again.
LEMMA BegunStays ==
    ASSUME TypeOK, [Next]_vars, NEW id, NEW c, NEW client,
           begun(id, c, client)
    PROVE  begun(id, c, client)'
<1>1. PICK b \in DOMAIN Tasks :
             /\ b < block_number
             /\ \E i \in DOMAIN Tasks[b] :
                  /\ Tasks[b][i].errand_id = id
                  /\ Tasks[b][i].description_cid = c
                  /\ Tasks[b][i].client = client
  BY DEF begun
<1>2. b \in Nat /\ block_number \in Nat
  BY DEF TypeOK, IsMap
<1>3. b # block_number
  BY <1>1, <1>2
<1>4. ASSUME b \in DOMAIN Tasks', Tasks'[b] = Tasks[b], b < block_number'
      PROVE  begun(id, c, client)'
  BY <1>1, <1>4 DEF begun
<1>5. CASE \E a \in AccountIds, n \in DelegatorNames, x \in Cids, f \in Fees :
             begin_task(a, n, x, f)
  BY <1>1, <1>3, <1>4, <1>5, BeginTaskTasks
<1>6. CASE \E a \in AccountIds, n \in DelegatorNames, x \in Cids, f \in Fees :
             begin_task_aborted(a, n, x, f)
  <2>1. Tasks' = remove(Tasks, block_number) /\ block_number' = block_number
    BY <1>6 DEF begin_task_aborted, extrinsic
  <2>2. QED BY <1>1, <1>3, <1>4, <2>1 DEF remove
<1>7. CASE next_block
  <2>1. Tasks' = Tasks /\ block_number' = block_number + 1
    BY <1>7 DEF next_block, tasking
  <2>2. QED BY <1>1, <1>2, <1>4, <2>1
<1>8. CASE UNCHANGED <<Tasks, block_number>>
  BY <1>1, <1>4, <1>8
<1>9. QED BY <1>5, <1>6, <1>7, <1>8, TasksFrame

\* What a node knows and what a service has got or run stays.
LEMMA ServicesGrow ==
    ASSUME WorkerTypeOK, system_step
    PROVE  /\ \A n \in Nodes : delegate_info[n] \subseteq delegate_info'[n]
           /\ \A addr \in NetAddresses : services[addr] \subseteq services'[addr]
           /\ \A addr \in NetAddresses : executed[addr] \subseteq executed'[addr]
<1>1. /\ delegate_info \in [Nodes -> SUBSET AccountIds]
      /\ services \in [NetAddresses -> SUBSET (Uuid \X Cids)]
      /\ executed \in [NetAddresses -> SUBSET (Uuid \X Cids)]
  BY DEF WorkerTypeOK
<1>2. CASE user_step \/ \E tx \in pool : include_tx(tx)
  BY <1>2, CallFrame
<1>3. CASE \E S \in SUBSET Nodes : end_block(S)
  BY <1>3 DEF end_block
<1>4. CASE \E w \in DOMAIN workers : \E job \in workers[w].jobs :
             run_worker(w, job)
  BY <1>1, <1>4, NewInfo DEF run_worker, send_task_internal
<1>5. CASE \E addr \in NetAddresses : \E task \in services[addr] :
             run_service(addr, task)
  BY <1>1, <1>5 DEF run_service, service_completes
<1>6. QED BY <1>2, <1>3, <1>4, <1>5 DEF system_step, offchain_step

\* Nothing the invariants say of a delegate or a task is ever undone.
LEMMA Grows ==
    ASSUME TypeOK, WorkerTypeOK, system_step
    PROVE  /\ \A a : has_info(a) => has_info(a)'
           /\ \A id, c : sent(id, c) => sent(id, c)'
           /\ \A task, c : was_run(task, c) => was_run(task, c)'
           /\ \A id, c, client : begun(id, c, client) => begun(id, c, client)'
<1>1. \A a : has_info(a) => has_info(a)'
  BY ServicesGrow DEF has_info
<1>2. \A id, c : sent(id, c) => sent(id, c)'
  BY ServicesGrow DEF sent
<1>3. \A task, c : was_run(task, c) => was_run(task, c)'
  BY ServicesGrow DEF was_run
<1>4. \A id, c, client : begun(id, c, client) => begun(id, c, client)'
  BY PalletStep, BegunStays
<1>5. QED BY <1>1, <1>2, <1>3, <1>4

\* A delegate becomes ready only by a transaction of its own.
LEMMA ReadyOrigin ==
    ASSUME system_step, NEW a \in DOMAIN Delegates', Delegates'[a]
    PROVE  \/ a \in DOMAIN Delegates /\ Delegates[a]
           \/ \E tx \in pool : /\ tx.call.fn = "update_delegate_status"
                               /\ tx.signer = a
<1>1. CASE UNCHANGED Delegates
  BY <1>1
<1>2. ASSUME NEW b, NEW n, NEW addr, request_delegate(b, n, addr)
      PROVE  a \in DOMAIN Delegates /\ Delegates[a]
  <2>1. Delegates' = insert(Delegates, b, FALSE)
    BY <1>2 DEF request_delegate
  <2>2. QED BY <2>1 DEF insert
<1>3. CASE user_step
  <2>1. \/ \E b, n, addr : request_delegate(b, n, addr)
        \/ UNCHANGED Delegates
    <3>1. ASSUME NEW b, NEW n, NEW addr, user_request_delegate(b, n, addr)
          PROVE  request_delegate(b, n, addr) \/ UNCHANGED Delegates
      BY <3>1
         DEF user_request_delegate, request_delegate_refused, refused,
             registry
    <3>2. ASSUME NEW b, NEW n, NEW c, NEW f, user_begin_task(b, n, c, f)
          PROVE  UNCHANGED Delegates
      BY <3>2
         DEF user_begin_task, begin_task, begin_task_aborted,
             begin_task_refused, refused, registry
    <3>3. QED BY <1>3, <3>1, <3>2 DEF user_step
  <2>2. QED BY <1>1, <1>2, <2>1
<1>4. ASSUME NEW tx \in pool, include_update_delegate_status(tx)
      PROVE  \/ a \in DOMAIN Delegates /\ Delegates[a]
             \/ /\ tx.call.fn = "update_delegate_status"
                /\ tx.signer = a
  <2>1. /\ tx.call.fn = "update_delegate_status"
        /\ \/ Delegates' = [Delegates EXCEPT ![tx.signer] = TRUE]
           \/ UNCHANGED Delegates
    BY <1>4
       DEF include_update_delegate_status, include, update_delegate_status,
           update_delegate_status_refused, refused, registry
  <2>2. QED BY <2>1
<1>5. ASSUME NEW tx \in pool, include_unreserve(tx)
      PROVE  a \in DOMAIN Delegates /\ Delegates[a]
  <2>1. Delegates' = remove(Delegates, tx.call.client)
    BY <1>5 DEF include_unreserve, unreserve
  <2>2. QED BY <2>1 DEF remove
<1>6. ASSUME NEW tx \in pool, include_init_errand(tx)
      PROVE  UNCHANGED Delegates
  BY <1>6
     DEF include_init_errand, init_errand, init_errand_refused, refused,
         registry
<1>7. ASSUME NEW tx \in pool, include_update_errand(tx)
      PROVE  UNCHANGED Delegates
  BY <1>7
     DEF include_update_errand, update_errand, update_errand_dev,
         update_errand_completed, update_errand_wait, update_errand_finish,
         report, update_errand_refused, refused, registry
<1>8. CASE (\E S \in SUBSET Nodes : end_block(S)) \/ offchain_step
  BY <1>1, <1>8
     DEF end_block, next_block, offchain_step, run_worker, run_service, vars,
         registry
<1>9. QED
  BY <1>1, <1>3, <1>4, <1>5, <1>6, <1>7, <1>8 DEF system_step, include_tx

\* What a client sees of a step: at most one of tasks, services, runs and
\* errands changes, and in one of six ways.
LEMMA ClientCases ==
    ASSUME WorkerTypeOK, system_step
    PROVE  \/ /\ \E a \in AccountIds, n \in DelegatorNames, c \in Cids,
                     f \in Fees :
                   begin_task(a, n, c, f) \/ begin_task_aborted(a, n, c, f)
              /\ UNCHANGED <<Errands, services, executed>>
           \/ /\ \E tx \in pool :
                   /\ tx.call.fn = "init_errand"
                   /\ Errands' = insert(Errands, tx.call.cid,
                                        [account_id |-> tx.call.client,
                                         errand_id |-> tx.call.errand_id,
                                         status |-> "Processing",
                                         result |-> NoResult])
              /\ UNCHANGED <<Tasks, services, executed>>
           \/ /\ \E tx \in pool :
                   /\ tx.call.fn = "update_errand"
                   /\ tx.call.cid \in DOMAIN Errands
                   /\ update_errand_result(tx.call.cid, tx.call.result)
              /\ UNCHANGED <<Tasks, services, executed>>
           \/ /\ \E addr \in NetAddresses : \E task \in services[addr] :
                   executed' = [executed EXCEPT ![addr] = @ \cup {task}]
              /\ UNCHANGED <<Tasks, Errands, services>>
           \/ /\ \E w \in DOMAIN workers : \E job \in workers[w].jobs :
                   /\ job.kind = "send"
                   /\ job.addr \in NetAddresses
                   /\ send_task_internal(job)
              /\ UNCHANGED <<Tasks, Errands, executed>>
           \/ UNCHANGED <<Tasks, Errands, services, executed>>
<1>1. CASE user_step
  <2>1. UNCHANGED <<services, executed>>
    BY <1>1, CallFrame
  <2>2. ASSUME NEW a \in Delegators, NEW n \in DelegatorNames,
               NEW addr \in NetAddresses, user_request_delegate(a, n, addr)
        PROVE  UNCHANGED <<Tasks, Errands>>
    BY <2>2
       DEF user_request_delegate, request_delegate, request_delegate_refused,
           refused, tasking, errandbook
  <2>3. ASSUME NEW a \in Clients, NEW n \in DelegatorNames, NEW c \in Cids,
               NEW f \in Fees, user_begin_task(a, n, c, f)
        PROVE  /\ a \in AccountIds
               /\ \/ begin_task(a, n, c, f)
                  \/ begin_task_aborted(a, n, c, f)
                  \/ UNCHANGED Tasks
               /\ UNCHANGED Errands
    BY <2>3, SystemAssumption
       DEF user_begin_task, begin_task, begin_task_aborted,
           begin_task_refused, refused, tasking, errandbook
  <2>4. QED BY <1>1, <2>1, <2>2, <2>3 DEF user_step
<1>2. ASSUME NEW tx \in pool, include_tx(tx)
      PROVE  /\ \/ /\ tx.call.fn = "init_errand"
                   /\ Errands' = insert(Errands, tx.call.cid,
                                        [account_id |-> tx.call.client,
                                         errand_id |-> tx.call.errand_id,
                                         status |-> "Processing",
                                         result |-> NoResult])
                \/ /\ tx.call.fn = "update_errand"
                   /\ tx.call.cid \in DOMAIN Errands
                   /\ update_errand_result(tx.call.cid, tx.call.result)
                \/ UNCHANGED Errands
             /\ UNCHANGED <<Tasks, services, executed>>
  <2>1. UNCHANGED <<services, executed>>
    BY <1>2, CallFrame
  <2>2. CASE include_update_delegate_status(tx) \/ include_unreserve(tx)
    BY <2>1, <2>2
       DEF include_update_delegate_status, update_delegate_status,
           update_delegate_status_refused, include_unreserve, unreserve,
           refused, tasking, errandbook
  <2>3. CASE include_init_errand(tx)
    BY <2>1, <2>3
       DEF include_init_errand, include, init_errand, init_errand_refused,
           refused, tasking, errandbook
  <2>4. CASE include_update_errand(tx)
    <3>1. tx.call.fn = "update_errand"
      BY <2>4 DEF include_update_errand, include
    <3>2. UNCHANGED Tasks
      BY <2>4
         DEF include_update_errand, update_errand, update_errand_dev,
             update_errand_completed, update_errand_wait,
             update_errand_finish, report, update_errand_refused, refused,
             tasking
    <3>3. \/ UNCHANGED Errands
          \/ /\ tx.call.cid \in DOMAIN Errands
             /\ update_errand_result(tx.call.cid, tx.call.result)
      BY <2>4, UpdateErrandCases
         DEF include_update_errand, update_errand_refused, refused, errandbook
    <3>4. QED BY <2>1, <3>1, <3>2, <3>3
  <2>5. QED BY <1>2, <2>2, <2>3, <2>4 DEF include_tx
<1>3. CASE \E S \in SUBSET Nodes : end_block(S)
  BY <1>3 DEF end_block, next_block, tasking, errandbook
<1>4. CASE \E w \in DOMAIN workers : \E job \in workers[w].jobs :
             run_worker(w, job)
  BY <1>4, NewInfo DEF run_worker, vars, tasking, errandbook
<1>5. CASE \E addr \in NetAddresses : \E task \in services[addr] :
             run_service(addr, task)
  BY <1>5 DEF run_service, service_completes, vars, tasking, errandbook
<1>6. QED
  BY <1>1, <1>2, <1>3, <1>4, <1>5 DEF system_step, offchain_step

\* An errand is new or completed only by a transaction that says so.
LEMMA ErrandOrigin ==
    ASSUME TypeOK, WorkerTypeOK, system_step, NEW c \in DOMAIN Errands'
    PROVE  \/ c \in DOMAIN Errands /\ Errands'[c] = Errands[c]
           \/ \E tx \in pool :
                /\ tx.call.fn = "init_errand"
                /\ tx.call.cid = c
                /\ Errands'[c] = [account_id |-> tx.call.client,
                                  errand_id |-> tx.call.errand_id,
                                  status |-> "Processing",
                                  result |-> NoResult]
           \/ \E tx \in pool :
                /\ tx.call.fn = "update_errand"
                /\ tx.call.cid = c
                /\ c \in DOMAIN Errands
                /\ Errands'[c].account_id = Errands[c].account_id
                /\ Errands'[c].errand_id = Errands[c].errand_id
                /\ Errands'[c].result = tx.call.result
<1>1. CASE UNCHANGED Errands
  BY <1>1
<1>2. ASSUME NEW tx \in pool,
             tx.call.fn = "init_errand",
             Errands' = insert(Errands, tx.call.cid,
                               [account_id |-> tx.call.client,
                                errand_id |-> tx.call.errand_id,
                                status |-> "Processing",
                                result |-> NoResult])
      PROVE  \/ c \in DOMAIN Errands /\ Errands'[c] = Errands[c]
             \/ /\ tx.call.fn = "init_errand"
                /\ tx.call.cid = c
                /\ Errands'[c] = [account_id |-> tx.call.client,
                                  errand_id |-> tx.call.errand_id,
                                  status |-> "Processing",
                                  result |-> NoResult]
  BY <1>2 DEF insert
<1>3. ASSUME NEW tx \in pool,
             tx.call.fn = "update_errand",
             tx.call.cid \in DOMAIN Errands,
             update_errand_result(tx.call.cid, tx.call.result)
      PROVE  \/ c \in DOMAIN Errands /\ Errands'[c] = Errands[c]
             \/ /\ tx.call.fn = "update_errand"
                /\ tx.call.cid = c
                /\ c \in DOMAIN Errands
                /\ Errands'[c].account_id = Errands[c].account_id
                /\ Errands'[c].errand_id = Errands[c].errand_id
                /\ Errands'[c].result = tx.call.result
  <2>1. tx.call.result \in ResultCids
    BY <1>3, CallTypes, SystemAssumption DEF WorkerTypeOK
  <2>2. /\ DOMAIN Errands' = DOMAIN Errands
        /\ \A x \in DOMAIN Errands :
             x # tx.call.cid => Errands'[x] = Errands[x]
        /\ Errands'[tx.call.cid].account_id = Errands[tx.call.cid].account_id
        /\ Errands'[tx.call.cid].errand_id = Errands[tx.call.cid].errand_id
        /\ Errands'[tx.call.cid].result = tx.call.result
    BY <1>3, <2>1, UpdateErrandResultType
  <2>3. QED BY <1>3, <2>2
<1>4. QED BY <1>1, <1>2, <1>3, ClientCases

\* A transaction is new only by a step of a worker.
LEMMA NewTx ==
    ASSUME system_step, NEW tx \in pool', tx \notin pool
    PROVE  \E w \in DOMAIN workers : \E job \in workers[w].jobs :
             worker_step(w, job)
<1>1. CASE user_step \/ \E t \in pool : include_tx(t)
  BY <1>1, CallFrame
<1>2. CASE \E S \in SUBSET Nodes : end_block(S)
  BY <1>2 DEF end_block
<1>3. CASE \E addr \in NetAddresses : \E task \in services[addr] :
             run_service(addr, task)
  BY <1>3 DEF run_service, service_completes
<1>4. QED BY <1>1, <1>2, <1>3 DEF system_step, offchain_step, run_worker

\* So is a task at a service.
LEMMA NewTask ==
    ASSUME system_step, NEW addr, NEW task \in services'[addr],
           task \notin services[addr]
    PROVE  \E w \in DOMAIN workers : \E job \in workers[w].jobs :
             worker_step(w, job)
<1>1. CASE user_step \/ \E t \in pool : include_tx(t)
  BY <1>1, CallFrame
<1>2. CASE \E S \in SUBSET Nodes : end_block(S)
  BY <1>2 DEF end_block
<1>3. CASE \E a \in NetAddresses : \E t \in services[a] : run_service(a, t)
  BY <1>3 DEF run_service, service_completes
<1>4. QED BY <1>1, <1>2, <1>3 DEF system_step, offchain_step, run_worker

\* By its call, what its worker has done first.
LEMMA NewTxCalls ==
    ASSUME NEW w \in DOMAIN workers, NEW job \in workers[w].jobs,
           worker_step(w, job), NEW tx \in pool', tx \notin pool
    PROVE  /\ tx.signer = job.account
           /\ tx.call.fn = "update_delegate_status" =>
                /\ job.kind = "apply"
                /\ save_delegate_info(w[1], job.account)
           /\ tx.call.fn = "init_errand" =>
                /\ job.kind = "send"
                /\ tx.call.errand_id = job.errand_id
                /\ tx.call.cid = job.cid
                /\ tx.call.client = job.client
                /\ job.addr \in NetAddresses
                /\ send_task_internal(job)
           /\ tx.call.fn = "update_errand" =>
                /\ job.kind = "report"
                /\ tx.call.cid = job.cid
                /\ tx.call.result = job.result
<1>0. tx.signer = job.account
  BY NewTxs
<1>1. CASE /\ job.kind = "apply"
           /\ tx.call = [fn |-> "update_delegate_status",
                         updater |-> job.account]
           /\ save_delegate_info(w[1], job.account)
  BY <1>0, <1>1
<1>2. CASE tx.call = [fn |-> "unreserve", name |-> job.name,
                      client |-> job.account]
  BY <1>0, <1>2
<1>3. CASE /\ job.kind = "send"
           /\ tx.call = [fn |-> "init_errand", client |-> job.client,
                         errand_id |-> job.errand_id, cid |-> job.cid]
           /\ job.addr \in NetAddresses
           /\ send_task_internal(job)
  BY <1>0, <1>3
<1>4. CASE /\ job.kind = "report"
           /\ tx.call = [fn |-> "update_errand", cid |-> job.cid,
                         result |-> job.result]
  BY <1>0, <1>4
<1>5. QED BY <1>1, <1>2, <1>3, <1>4, NewTxs

-----------------------------------------------------------------------------
(* The conjuncts of SystemInv, one by one.                                 *)

LEMMA KnownStep ==
    ASSUME TypeOK, WorkerTypeOK, KnownInv, system_step
    PROVE  KnownInv'
<1>1. \A a : has_info(a) => has_info(a)'
  BY Grows
<1>2. ready_have_info'
  BY <1>1, ReadyOrigin DEF KnownInv, ready_have_info
<1>3. ASSUME NEW tx \in pool', tx.call.fn = "update_delegate_status"
      PROVE  has_info(tx.signer)'
  <2>1. CASE tx \in pool
    BY <1>1, <1>3, <2>1 DEF KnownInv
  <2>2. CASE tx \notin pool
    <3>1. PICK w \in DOMAIN workers : \E job \in workers[w].jobs :
                 worker_step(w, job)
      BY <2>2, NewTx
    <3>2. PICK job \in workers[w].jobs : worker_step(w, job)
      BY <3>1
    <3>3. w[1] \in Nodes /\ job_typed(w[1], job)
      BY DEF WorkerTypeOK
    <3>4. /\ tx.signer = job.account
          /\ job.kind = "apply"
          /\ save_delegate_info(w[1], job.account)
      BY <1>3, <2>2, <3>2, NewTxCalls
    <3>5. job.account \in Keystore[w[1]]
      BY <3>3, <3>4 DEF job_typed
    <3>6. job.account \in delegate_info'[w[1]]
      BY <3>3, <3>4 DEF save_delegate_info, WorkerTypeOK
    <3>7. QED BY <3>3, <3>4, <3>5, <3>6 DEF has_info
  <2>3. QED BY <2>1, <2>2
<1>4. QED BY <1>2, <1>3 DEF KnownInv

LEMMA SentStep ==
    ASSUME TypeOK, WorkerTypeOK, SentInv, system_step
    PROVE  SentInv'
<1>1. \A id, c : sent(id, c) => sent(id, c)'
  BY Grows
<1>2. ErrandsAreSent'
  <2> SUFFICES ASSUME NEW c \in DOMAIN Errands', NEW id,
                      id = Errands'[c].errand_id
               PROVE  sent(id, c)'
    BY DEF ErrandsAreSent, sent
  <2>1. CASE /\ c \in DOMAIN Errands
             /\ Errands'[c].errand_id = Errands[c].errand_id
    BY <1>1, <2>1 DEF SentInv, ErrandsAreSent
  <2>2. ASSUME NEW tx \in pool,
               tx.call.fn = "init_errand",
               tx.call.cid = c,
               Errands'[c].errand_id = tx.call.errand_id
        PROVE  sent(id, c)'
    BY <1>1, <2>2 DEF SentInv
  <2>3. QED BY <2>1, <2>2, ErrandOrigin
<1>3. ASSUME NEW tx \in pool', tx.call.fn = "init_errand"
      PROVE  sent(tx.call.errand_id, tx.call.cid)'
  <2>1. CASE tx \in pool
    BY <1>1, <1>3, <2>1 DEF SentInv
  <2>2. CASE tx \notin pool
    <3>1. PICK w \in DOMAIN workers : \E job \in workers[w].jobs :
                 worker_step(w, job)
      BY <2>2, NewTx
    <3>2. PICK job \in workers[w].jobs : worker_step(w, job)
      BY <3>1
    <3>3. /\ tx.call.errand_id = job.errand_id
          /\ tx.call.cid = job.cid
          /\ job.addr \in NetAddresses
          /\ send_task_internal(job)
      BY <1>3, <2>2, <3>2, NewTxCalls
    <3>4. <<job.errand_id, job.cid>> \in services'[job.addr]
      BY <3>3 DEF send_task_internal, WorkerTypeOK
    <3>5. QED BY <3>3, <3>4 DEF sent
  <2>3. QED BY <2>1, <2>2
<1>4. QED BY <1>2, <1>3 DEF SentInv

\* A job is an old one, or one of the ending block, or a report.
LEMMA NewJob ==
    ASSUME TypeOK, WorkerTypeOK, system_step,
           NEW v \in DOMAIN workers', NEW j \in workers'[v].jobs
    PROVE  \/ v \in DOMAIN workers /\ j \in workers[v].jobs
           \/ next_block /\ v[1] \in Nodes /\ j \in offchain_worker(v[1])
           \/ v[1] \in Nodes /\ j \in reports(v[1])
<1>1. CASE user_step \/ \E tx \in pool : include_tx(tx)
  BY <1>1, CallFrame
<1>2. ASSUME NEW S \in SUBSET Nodes, end_block(S)
      PROVE  \/ v \in DOMAIN workers /\ j \in workers[v].jobs
             \/ next_block /\ v[1] \in Nodes /\ j \in offchain_worker(v[1])
  BY <1>2, StartEffect DEF end_block
<1>3. ASSUME NEW w \in DOMAIN workers, NEW job \in workers[w].jobs,
             run_worker(w, job)
      PROVE  \/ v \in DOMAIN workers /\ j \in workers[v].jobs
             \/ v[1] \in Nodes /\ j \in reports(v[1])
  BY <1>3, NewJobs DEF run_worker, WorkerTypeOK
<1>4. CASE \E addr \in NetAddresses : \E task \in services[addr] :
             run_service(addr, task)
  BY <1>4 DEF run_service, service_completes
<1>5. QED BY <1>1, <1>2, <1>3, <1>4 DEF system_step, offchain_step

\* The tasks of the ending block are from now on tasks of an ended block.
LEMMA BlockTaskBegun ==
    ASSUME TypeOK, next_block, NEW i \in DOMAIN block_tasks,
           NEW id, id = block_tasks[i].errand_id,
           NEW c, c = block_tasks[i].description_cid,
           NEW client, client = block_tasks[i].client
    PROVE  begun(id, c, client)'
<1>1. block_number \in DOMAIN Tasks /\ block_tasks = Tasks[block_number]
  BY BlockTasksType
<1>2. /\ Tasks' = Tasks
      /\ block_number' = block_number + 1
      /\ block_number < block_number'
  BY DEF next_block, tasking, TypeOK
<1>3. QED BY <1>1, <1>2 DEF begun

LEMMA OriginStep ==
    ASSUME TypeOK, WorkerTypeOK, OriginInv, system_step
    PROVE  OriginInv'
<1>1. \A id, c, client : begun(id, c, client) => begun(id, c, client)'
  BY Grows
<1>2. ASSUME NEW c \in DOMAIN Errands', NEW id, id = Errands'[c].errand_id,
             NEW client, client = Errands'[c].account_id
      PROVE  begun(id, c, client)'
  <2>1. CASE /\ c \in DOMAIN Errands
             /\ Errands'[c].errand_id = Errands[c].errand_id
             /\ Errands'[c].account_id = Errands[c].account_id
    BY <1>1, <1>2, <2>1 DEF OriginInv
  <2>2. ASSUME NEW tx \in pool,
               tx.call.fn = "init_errand",
               tx.call.cid = c,
               Errands'[c].errand_id = tx.call.errand_id,
               Errands'[c].account_id = tx.call.client
        PROVE  begun(id, c, client)'
    BY <1>1, <1>2, <2>2 DEF OriginInv
  <2>3. QED BY <2>1, <2>2, ErrandOrigin
<1>3. ASSUME NEW v \in DOMAIN workers', NEW j \in workers'[v].jobs
      PROVE  /\ j.kind = "send" => begun(j.errand_id, j.cid, j.client)'
             /\ j.kind = "query" =>
                  \E client \in AccountIds :
                    begun(j.errand_id, j.cid, client)'
  <2>1. CASE v \in DOMAIN workers /\ j \in workers[v].jobs
    BY <1>1, <2>1 DEF OriginInv
  <2>2. CASE next_block /\ v[1] \in Nodes /\ j \in offchain_worker(v[1])
    <3>1. j.kind = "send" => begun(j.errand_id, j.cid, j.client)'
      BY <2>2, JobOfBlock, BlockTaskBegun
    <3>2. ASSUME j.kind = "query"
          PROVE  \E client \in AccountIds : begun(j.errand_id, j.cid, client)'
      <4>1. j.cid \in DOMAIN Errands /\ j.errand_id = Errands[j.cid].errand_id
        BY <2>2, <3>2, JobOfBlock
      <4>2. Errands[j.cid].account_id \in AccountIds
        BY <4>1 DEF TypeOK, IsMap, Errand
      <4>3. begun(j.errand_id, j.cid, Errands[j.cid].account_id)
        BY <4>1 DEF OriginInv
      <4>4. QED BY <1>1, <4>2, <4>3
    <3>3. QED BY <3>1, <3>2
  <2>3. CASE v[1] \in Nodes /\ j \in reports(v[1])
    BY <2>3, JobOfResults
  <2>4. QED BY <2>1, <2>2, <2>3, NewJob
<1>4. ASSUME NEW tx \in pool', tx.call.fn = "init_errand"
      PROVE  begun(tx.call.errand_id, tx.call.cid, tx.call.client)'
  <2>1. CASE tx \in pool
    BY <1>1, <1>4, <2>1 DEF OriginInv
  <2>2. CASE tx \notin pool
    <3>1. PICK w \in DOMAIN workers : \E job \in workers[w].jobs :
                 worker_step(w, job)
      BY <2>2, NewTx
    <3>2. PICK job \in workers[w].jobs : worker_step(w, job)
      BY <3>1
    <3>3. /\ job.kind = "send"
          /\ tx.call.errand_id = job.errand_id
          /\ tx.call.cid = job.cid
          /\ tx.call.client = job.client
      BY <1>4, <2>2, <3>2, NewTxCalls
    <3>4. begun(job.errand_id, job.cid, job.client)
      BY <3>3 DEF OriginInv
    <3>5. QED BY <1>1, <3>3, <3>4
  <2>3. QED BY <2>1, <2>2
<1>5. ASSUME NEW addr \in NetAddresses, NEW task \in services'[addr]
      PROVE  \E client \in AccountIds : begun(task[1], task[2], client)'
  <2>1. CASE task \in services[addr]
    BY <1>1, <2>1 DEF OriginInv
  <2>2. CASE task \notin services[addr]
    <3>1. PICK w \in DOMAIN workers : \E job \in workers[w].jobs :
                 worker_step(w, job)
      BY <2>2, NewTask
    <3>2. PICK job \in workers[w].jobs : worker_step(w, job)
      BY <3>1
    <3>3. job.kind = "send" /\ send_task_internal(job)
      BY <2>2, <3>2, NewInfo
    <3>4. task = <<job.errand_id, job.cid>>
      BY <2>2, <3>3 DEF send_task_internal, WorkerTypeOK
    <3>5. /\ begun(job.errand_id, job.cid, job.client)
          /\ job.client \in AccountIds
      BY <3>3 DEF OriginInv, WorkerTypeOK, job_typed
    <3>6. QED BY <1>1, <3>4, <3>5
  <2>3. QED BY <2>1, <2>2
<1>6. QED BY <1>2, <1>3, <1>4, <1>5 DEF OriginInv

\* What a service has run, it had been sent.
LEMMA NewRun ==
    ASSUME WorkerTypeOK, system_step, NEW addr \in NetAddresses,
           NEW task \in executed'[addr]
    PROVE  task \in executed[addr] \/ task \in services[addr]
<1>1. CASE user_step \/ \E tx \in pool : include_tx(tx)
  BY <1>1, CallFrame
<1>2. CASE \E S \in SUBSET Nodes : end_block(S)
  BY <1>2 DEF end_block
<1>3. CASE \E w \in DOMAIN workers : \E job \in workers[w].jobs :
             run_worker(w, job)
  BY <1>3, NewInfo DEF run_worker
<1>4. CASE \E a \in NetAddresses : \E t \in services[a] : run_service(a, t)
  BY <1>4 DEF run_service, service_completes, WorkerTypeOK
<1>5. QED BY <1>1, <1>2, <1>3, <1>4 DEF system_step, offchain_step

LEMMA AppendAt ==
    ASSUME NEW T, NEW s \in Seq(T), NEW x, NEW i \in DOMAIN Append(s, x)
    PROVE  \/ i \in DOMAIN s /\ Append(s, x)[i] = s[i]
           \/ Append(s, x)[i] = x
OBVIOUS

\* A stored result is an old one, or a completed task that was asked for.
LEMMA NewResult ==
    ASSUME WorkerTypeOK, system_step, NEW n \in Nodes,
           NEW i \in DOMAIN results'[n]
    PROVE  \/ i \in DOMAIN results[n] /\ results'[n][i] = results[n][i]
           \/ \E w \in DOMAIN workers : \E job \in workers[w].jobs :
                /\ job.kind = "query"
                /\ job.addr \in NetAddresses
                /\ \E task \in executed[job.addr] :
                     /\ task[1] = job.errand_id
                     /\ results'[n][i] = <<job.cid, task>>
<1>1. CASE UNCHANGED results
  BY <1>1
<1>2. CASE user_step \/ \E tx \in pool : include_tx(tx)
  BY <1>1, <1>2, CallFrame
<1>3. CASE \E S \in SUBSET Nodes : end_block(S)
  BY <1>1, <1>3 DEF end_block
<1>4. ASSUME NEW w \in DOMAIN workers, NEW job \in workers[w].jobs,
             worker_step(w, job)
      PROVE  \/ i \in DOMAIN results[n] /\ results'[n][i] = results[n][i]
             \/ /\ job.kind = "query"
                /\ job.addr \in NetAddresses
                /\ \E task \in executed[job.addr] :
                     /\ task[1] = job.errand_id
                     /\ results'[n][i] = <<job.cid, task>>
  <2>1. CASE results' = [results EXCEPT ![w[1]] = <<>>]
    BY <2>1 DEF WorkerTypeOK
  <2>2. ASSUME NEW task \in executed[job.addr],
               results' = [results EXCEPT
                             ![w[1]] = Append(@, <<job.cid, task>>)]
        PROVE  \/ i \in DOMAIN results[n] /\ results'[n][i] = results[n][i]
               \/ results'[n][i] = <<job.cid, task>>
    <3>1. results[n] \in Seq(Cids \X (Uuid \X Cids))
      BY DEF WorkerTypeOK
    <3>2. \/ results'[n] = results[n]
          \/ results'[n] = Append(results[n], <<job.cid, task>>)
      BY <2>2 DEF WorkerTypeOK
    <3>3. QED BY <3>1, <3>2, AppendAt
  <2>3. QED BY <1>1, <1>4, <2>1, <2>2, NewResults
<1>5. CASE \E addr \in NetAddresses : \E task \in services[addr] :
             run_service(addr, task)
  BY <1>1, <1>5 DEF run_service, service_completes
<1>6. QED
  BY <1>2, <1>3, <1>4, <1>5 DEF system_step, offchain_step, run_worker

\* An id names one task, so one cid and one client.
LEMMA BegunUnique ==
    ASSUME IdsFollowTheClock, NEW id, NEW c1, NEW c2, NEW a1, NEW a2,
           begun(id, c1, a1), begun(id, c2, a2)
    PROVE  c1 = c2 /\ a1 = a2
BY DEF begun, IdsFollowTheClock

\* Whatever task a service answers a query with is one of the cid asked about.
answers_match ==
    \A w \in DOMAIN workers : \A job \in workers[w].jobs :
      job.kind = "query" =>
        \A addr \in NetAddresses : \A task \in services[addr] :
          task[1] = job.errand_id => task[2] = job.cid

LEMMA AnswersMatch ==
    ASSUME IdsFollowTheClock, OriginInv
    PROVE  answers_match
<1> SUFFICES ASSUME NEW w \in DOMAIN workers, NEW job \in workers[w].jobs,
                    job.kind = "query", NEW addr \in NetAddresses,
                    NEW task \in services[addr], task[1] = job.errand_id
             PROVE  task[2] = job.cid
  BY DEF answers_match
<1>1. PICK a1 \in AccountIds : begun(task[1], task[2], a1)
  BY DEF OriginInv
<1>2. PICK a2 \in AccountIds : begun(job.errand_id, job.cid, a2)
  BY DEF OriginInv
<1>3. QED BY <1>1, <1>2, BegunUnique

LEMMA RunStep ==
    ASSUME TypeOK, WorkerTypeOK, answers_match, RunInv, system_step
    PROVE  RunInv'
<1>1. \A task, c : was_run(task, c) => was_run(task, c)'
  BY Grows
<1>2. ASSUME NEW c \in DOMAIN Errands', Errands'[c].status = "Done",
             NEW r, r = Errands'[c].result
      PROVE  was_run(r, c)'
  <2>1. CASE c \in DOMAIN Errands /\ Errands'[c] = Errands[c]
    BY <1>1, <1>2, <2>1 DEF RunInv, ResultsAreExecuted
  <2>2. ASSUME NEW tx \in pool,
               tx.call.fn = "update_errand",
               tx.call.cid = c,
               Errands'[c].result = tx.call.result
        PROVE  was_run(r, c)'
    BY <1>1, <1>2, <2>2 DEF RunInv
  <2>3. QED BY <1>2, <2>1, <2>2, ErrandOrigin
<1>3. ASSUME NEW addr \in NetAddresses, NEW task \in executed'[addr]
      PROVE  task \in services'[addr]
  <2>1. services[addr] \subseteq services'[addr]
    BY ServicesGrow
  <2>2. task \in services[addr]
    BY NewRun DEF RunInv
  <2>3. QED BY <2>1, <2>2
<1>4. ASSUME NEW n \in Nodes, NEW i \in DOMAIN results'[n],
             NEW c, c = results'[n][i][1], NEW r, r = results'[n][i][2]
      PROVE  was_run(r, c)'
  <2>1. CASE i \in DOMAIN results[n] /\ results'[n][i] = results[n][i]
    BY <1>1, <1>4, <2>1 DEF RunInv
  <2>2. ASSUME NEW w \in DOMAIN workers, NEW job \in workers[w].jobs,
               job.kind = "query", job.addr \in NetAddresses,
               NEW task \in executed[job.addr],
               task[1] = job.errand_id,
               results'[n][i] = <<job.cid, task>>
        PROVE  was_run(r, c)'
    <3>1. was_run(task, job.cid)
      BY <2>2 DEF RunInv, answers_match, was_run
    <3>2. c = job.cid /\ r = task
      BY <1>4, <2>2
    <3>3. QED BY <1>1, <3>1, <3>2
  <2>3. QED BY <2>1, <2>2, NewResult
<1>5. ASSUME NEW v \in DOMAIN workers', NEW j \in workers'[v].jobs,
             j.kind = "report"
      PROVE  was_run(j.result, j.cid)'
  <2>1. CASE v \in DOMAIN workers /\ j \in workers[v].jobs
    BY <1>1, <1>5, <2>1 DEF RunInv
  <2>2. CASE v[1] \in Nodes /\ j \in offchain_worker(v[1])
    BY <1>5, <2>2, JobOfBlock
  <2>3. CASE v[1] \in Nodes /\ j \in reports(v[1])
    <3>1. PICK i \in DOMAIN results[v[1]] :
                 /\ j.cid = results[v[1]][i][1]
                 /\ j.result = results[v[1]][i][2]
      BY <2>3, JobOfResults
    <3>2. was_run(j.result, j.cid)
      BY <2>3, <3>1 DEF RunInv
    <3>3. QED BY <1>1, <3>2
  <2>4. QED BY <2>1, <2>2, <2>3, NewJob
<1>6. ASSUME NEW tx \in pool', tx.call.fn = "update_errand"
      PROVE  was_run(tx.call.result, tx.call.cid)'
  <2>1. CASE tx \in pool
    BY <1>1, <1>6, <2>1 DEF RunInv
  <2>2. CASE tx \notin pool
    <3>1. PICK w \in DOMAIN workers : \E job \in workers[w].jobs :
                 worker_step(w, job)
      BY <2>2, NewTx
    <3>2. PICK job \in workers[w].jobs : worker_step(w, job)
      BY <3>1
    <3>3. /\ job.kind = "report"
          /\ tx.call.cid = job.cid
          /\ tx.call.result = job.result
      BY <1>6, <2>2, <3>2, NewTxCalls
    <3>4. was_run(job.result, job.cid)
      BY <3>3 DEF RunInv
    <3>5. QED BY <1>1, <3>3, <3>4
  <2>3. QED BY <2>1, <2>2
<1>7. QED
  BY <1>2, <1>3, <1>4, <1>5, <1>6 DEF RunInv, ResultsAreExecuted

-----------------------------------------------------------------------------
(* The invariant and the properties.                                       *)

LEMMA SystemInvInit == SystemInit => SystemInv
<1> SUFFICES ASSUME SystemInit PROVE SystemInv
  OBVIOUS
<1>1. /\ DOMAIN Errands = {} /\ DOMAIN Delegates = {} /\ DOMAIN workers = {}
  BY EmptyMapType DEF SystemInit, Init, WorkerInit
<1>2. /\ pool = {}
      /\ \A n \in Nodes : DOMAIN results[n] = {}
      /\ \A addr \in NetAddresses : services[addr] = {} /\ executed[addr] = {}
  BY DEF SystemInit, WorkerInit
<1>3. PalletInv /\ WorkerTypeOK
  BY InvInit, WorkerTypeInit DEF SystemInit
<1>4. KnownInv /\ SentInv
  BY <1>1, <1>2 DEF KnownInv, SentInv, ready_have_info, ErrandsAreSent
<1>5. OriginInv /\ RunInv
  BY <1>1, <1>2 DEF OriginInv, RunInv, ResultsAreExecuted
<1>6. QED BY <1>3, <1>4, <1>5 DEF SystemInv

LEMMA SystemInvStep ==
    ASSUME SystemInv, system_step
    PROVE  SystemInv'
<1>1. PalletInv'
  BY PalletStep, InvStep DEF SystemInv
<1>2. TypeOK /\ answers_match
  BY AnswersMatch DEF SystemInv, PalletInv
<1>3. WorkerTypeOK' /\ KnownInv' /\ SentInv' /\ OriginInv' /\ RunInv'
  BY <1>2, WorkerTypeStep, KnownStep, SentStep, OriginStep, RunStep
     DEF SystemInv
<1>4. QED BY <1>1, <1>3 DEF SystemInv

LEMMA SystemInvStutter ==
    ASSUME SystemInv, UNCHANGED system_vars
    PROVE  SystemInv'
<1>1. UNCHANGED <<vars, workers, delegate_info, results, services, executed,
                  pool>>
  BY DEF system_vars, worker_vars
<1>2. PalletInv'
  BY <1>1, InvStep DEF SystemInv
<1>3. WorkerTypeOK'
  BY <1>1 DEF SystemInv, WorkerTypeOK, job_typed, call_typed
<1>4. UNCHANGED <<Errands, Delegates, Tasks, block_number>>
  BY <1>1 DEF vars, errandbook, registry, tasking, clock
<1>5. KnownInv' /\ SentInv'
  BY <1>1, <1>4
     DEF SystemInv, KnownInv, SentInv, ready_have_info, ErrandsAreSent,
         has_info, sent
<1>6. OriginInv'
  BY <1>1, <1>4 DEF SystemInv, OriginInv, begun
<1>7. RunInv'
  BY <1>1, <1>4 DEF SystemInv, RunInv, ResultsAreExecuted, was_run
<1>8. QED BY <1>2, <1>3, <1>5, <1>6, <1>7 DEF SystemInv

\* SystemNext is system_step for all nodes.
LEMMA SystemNextStep == SystemNext => system_step
BY DEF SystemNext, system_step

\* SystemInv is an inductive invariant of the system.
THEOREM SystemInvariant == SystemSpec => []SystemInv
<1>1. SystemInv /\ [SystemNext]_system_vars => SystemInv'
  BY SystemInvStep, SystemInvStutter, SystemNextStep
<1>2. QED BY <1>1, SystemInvInit, PTL DEF SystemSpec

\* The system implements the pallet alone, called in every way: all that
\* AbcPalletProofs proves of the pallet holds of it under the calls that
\* users and offchain workers make.
THEOREM SystemImplementsPallet == SystemSpec => Spec
<1>1. SystemInit => Init
  BY DEF SystemInit
<1>2. SystemInv /\ [SystemNext]_system_vars => [Next]_vars
  BY PalletStep, SystemNextStep DEF SystemInv, system_vars
<1>3. QED BY <1>1, <1>2, SystemInvariant, PTL DEF SystemSpec, Spec

\* Every errand has the id, cid and client of one recorded task
\* (ErrandsComeFromTasks).
THEOREM ErrandsHaveTasks == SystemSpec => []ErrandsComeFromTasks
<1>1. SystemInv => ErrandsComeFromTasks
  BY DEF SystemInv, OriginInv, begun, ErrandsComeFromTasks
<1>2. QED BY <1>1, SystemInvariant, PTL

\* No step of the system leaves a lock held.
LEMMA NoLockLeft == [SystemNext]_system_vars => UNCHANGED stuck_info
BY CallFrame
   DEF SystemNext, end_block, offchain_step, run_worker, worker_step,
       run_service, service_completes, system_vars, worker_vars, stuck

\* What is stored can be loaded unless the lock was left held.
LEMMA InfoIsKnown ==
    ready_have_info =>
        /\ ReadyUnlessLockLeft
        /\ stuck_info = {} => ReadyDelegatesAreKnown
BY DEF ready_have_info, has_info, known, lock_left, load_delegate_info,
       ReadyUnlessLockLeft, ReadyDelegatesAreKnown

\* The node of a ready delegate can load its service's answer
\* (ReadyDelegatesAreKnown).
THEOREM ReadyIsKnown == SystemSpec => []ReadyDelegatesAreKnown
<1>1. SystemInit => stuck_info = {}
  BY DEF SystemInit, WorkerInit
<1>2. stuck_info = {} /\ [SystemNext]_system_vars => (stuck_info = {})'
  BY NoLockLeft
<1>3. SystemInv /\ stuck_info = {} => ReadyDelegatesAreKnown
  BY InfoIsKnown DEF SystemInv, KnownInv
<1>4. QED BY <1>1, <1>2, <1>3, SystemInvariant, PTL DEF SystemSpec

\* A service has got the task of every errand on chain (ErrandsAreSent).
THEOREM ErrandsReachServices == SystemSpec => []ErrandsAreSent
<1>1. SystemInv => ErrandsAreSent
  BY DEF SystemInv, SentInv
<1>2. QED BY <1>1, SystemInvariant, PTL

\* A completed errand has the result of a completed task of its cid
\* (ResultsAreExecuted).
THEOREM ResultsComeFromRuns == SystemSpec => []ResultsAreExecuted
<1>1. SystemInv => ResultsAreExecuted
  BY DEF SystemInv, RunInv
<1>2. QED BY <1>1, SystemInvariant, PTL

-----------------------------------------------------------------------------
(* The refinement of ErrandService.                                        *)

LEMMA ClientTask ==
    ASSUME NEW t
    PROVE  t \in client_tasks <=>
             \E b \in DOMAIN Tasks : \E i \in DOMAIN Tasks[b] :
               t = as_task(Tasks[b][i])
BY DEF client_tasks, recorded_tasks

\* The same after the step.
LEMMA ClientTaskNext ==
    ASSUME NEW t
    PROVE  t \in client_tasks' <=>
             \E b \in DOMAIN Tasks' : \E i \in DOMAIN Tasks'[b] :
               t = as_task(Tasks'[b][i])
BY DEF client_tasks, recorded_tasks, as_task

LEMMA BeginRefines ==
    ASSUME TypeOK, IdsFollowTheClock, NEW a \in AccountIds,
           NEW n \in DelegatorNames, NEW c \in Cids, NEW f \in Fees,
           begin_task(a, n, c, f),
           UNCHANGED <<client_sent, client_runs, client_errands>>
    PROVE  Service!Begin
<1> DEFINE k == Len(block_tasks) + 1
           t == as_task(new_task(a, n, c, f))
<1>1. /\ DOMAIN Tasks' = DOMAIN Tasks \cup {block_number}
      /\ \A b \in DOMAIN Tasks : b # block_number => Tasks'[b] = Tasks[b]
      /\ DOMAIN Tasks'[block_number] = DOMAIN block_tasks \cup {k}
      /\ \A i \in DOMAIN block_tasks :
           Tasks'[block_number][i] = block_tasks[i]
      /\ Tasks'[block_number][k] = new_task(a, n, c, f)
  BY BeginTaskTasks
<1>2. /\ block_number \in DOMAIN Tasks => block_tasks = Tasks[block_number]
      /\ block_number \notin DOMAIN Tasks => DOMAIN block_tasks = {}
  BY BlockTasksType
<1>3. t.id.seed = block_number /\ t.id.index = extrinsic_index
  BY DEF as_task, new_task, generate_errand_id
<1>4. ASSUME NEW u \in client_tasks PROVE u.id # t.id
  <2>1. PICK b \in DOMAIN Tasks : \E i \in DOMAIN Tasks[b] :
               u = as_task(Tasks[b][i])
    BY ClientTask
  <2>2. PICK i \in DOMAIN Tasks[b] : u = as_task(Tasks[b][i])
    BY <2>1
  <2>3. u.id.seed = b /\ (b = block_number => u.id.index < extrinsic_index)
    BY <2>2 DEF IdsFollowTheClock, as_task
  <2>4. extrinsic_index \in Nat
    BY DEF TypeOK
  <2> HIDE DEF t
  <2>5. QED BY <1>3, <2>3, <2>4
<1> HIDE DEF k
<1>5. client_tasks' = client_tasks \cup {t}
  <2>1. ASSUME NEW u \in client_tasks' PROVE u \in client_tasks \cup {t}
    BY <1>1, <1>2, <2>1, ClientTask, ClientTaskNext
  <2>2. t \in client_tasks'
    BY <1>1, ClientTaskNext
  <2>3. ASSUME NEW u \in client_tasks PROVE u \in client_tasks'
    BY <1>1, <1>2, <2>3, ClientTask, ClientTaskNext
  <2> HIDE DEF t
  <2>4. QED BY <2>1, <2>2, <2>3
<1> HIDE DEF t
<1>6. t \in client_tasks' \ client_tasks
  BY <1>4, <1>5
<1>7. QED BY <1>4, <1>5, <1>6 DEF Service!Begin

\* A task that is lost is one of the current block, and nothing that has been
\* worked on is.
LEMMA LoseRefines ==
    ASSUME TypeOK, IdsFollowTheClock, OriginInv,
           Tasks' = remove(Tasks, block_number),
           UNCHANGED <<client_sent, client_runs, client_errands>>
    PROVE  Service!Lose
<1>1. ASSUME NEW u \in client_tasks' PROVE u \in client_tasks
  BY ClientTask, ClientTaskNext DEF remove
<1>2. ASSUME NEW u \in client_tasks, u \notin client_tasks'
      PROVE  u.id.seed = block_number
  <2>1. PICK b \in DOMAIN Tasks : \E i \in DOMAIN Tasks[b] :
               u = as_task(Tasks[b][i])
    BY ClientTask
  <2>2. PICK i \in DOMAIN Tasks[b] : u = as_task(Tasks[b][i])
    BY <2>1
  <2>3. b = block_number
    BY <1>2, <2>2, ClientTaskNext DEF remove
  <2>4. QED BY <2>2, <2>3 DEF IdsFollowTheClock, as_task
<1>3. ASSUME NEW id, NEW c, NEW client, begun(id, c, client)
      PROVE  id.seed # block_number
  BY <1>3 DEF begun, IdsFollowTheClock, TypeOK, IsMap
<1>4. ASSUME NEW u, u.id.seed = block_number PROVE Service!untouched(u)
  <2>1. ASSUME <<u.id, u.cid>> \in client_sent PROVE FALSE
    <3>1. PICK addr \in NetAddresses : <<u.id, u.cid>> \in services[addr]
      BY <2>1 DEF client_sent
    <3>2. \E client \in AccountIds : begun(u.id, u.cid, client)
      BY <3>1 DEF OriginInv
    <3>3. QED BY <1>3, <1>4, <3>2
  <2>2. ASSUME NEW c \in DOMAIN client_errands, client_errands[c].id = u.id
        PROVE  FALSE
    <3>1. begun(u.id, c, Errands[c].account_id)
      BY <2>2 DEF client_errands, as_errand, OriginInv
    <3>2. QED BY <1>3, <1>4, <3>1
  <2>3. QED BY <2>1, <2>2 DEF Service!untouched, Service!key
<1>5. QED BY <1>1, <1>2, <1>4 DEF Service!Lose

\* A task of an ended block is one the client sees.
LEMMA BegunIsTask ==
    ASSUME NEW id, NEW c, NEW client, begun(id, c, client)
    PROVE  [id |-> id, cid |-> c, client |-> client] \in client_tasks
BY ClientTask DEF begun, as_task

\* A worker that sends a task sends one the client sees.
LEMMA SendRefines ==
    ASSUME WorkerTypeOK, OriginInv, NEW w \in DOMAIN workers,
           NEW job \in workers[w].jobs, job.kind = "send",
           job.addr \in NetAddresses, send_task_internal(job),
           UNCHANGED <<client_tasks, client_runs, client_errands>>
    PROVE  \E t \in client_tasks : Service!Send(t)
<1> DEFINE t == [id |-> job.errand_id, cid |-> job.cid, client |-> job.client]
<1>1. t \in client_tasks
  BY BegunIsTask DEF OriginInv
<1>2. client_sent' = client_sent \cup {<<job.errand_id, job.cid>>}
  BY DEF client_sent, send_task_internal, WorkerTypeOK
<1>3. Service!Send(t)
  BY <1>2 DEF Service!Send, Service!key
<1>4. QED BY <1>1, <1>3

LEMMA StartRefines ==
    ASSUME OriginInv, SentInv, NEW tx \in pool, tx.call.fn = "init_errand",
           Errands' = insert(Errands, tx.call.cid,
                             [account_id |-> tx.call.client,
                              errand_id |-> tx.call.errand_id,
                              status |-> "Processing",
                              result |-> NoResult]),
           UNCHANGED <<client_tasks, client_sent, client_runs>>
    PROVE  \E t \in client_tasks : Service!Start(t)
<1> DEFINE t == [id |-> tx.call.errand_id, cid |-> tx.call.cid,
                 client |-> tx.call.client]
           e == [id |-> t.id, client |-> t.client, result |-> NoResult]
<1>1. t \in client_tasks
  BY BegunIsTask DEF OriginInv
<1>2. client_errands' = insert(client_errands, t.cid, e)
  BY DEF client_errands, as_errand, insert
<1>3. <<t.id, t.cid>> \in client_sent
  BY DEF SentInv, sent, client_sent
<1>4. Service!Start(t)
  BY <1>2, <1>3 DEF Service!Start, Service!key, Service!insert, insert
<1>5. QED BY <1>1, <1>4

LEMMA FinishRefines ==
    ASSUME TypeOK, WorkerTypeOK, RunInv, NEW tx \in pool,
           tx.call.fn = "update_errand", tx.call.cid \in DOMAIN Errands,
           update_errand_result(tx.call.cid, tx.call.result),
           UNCHANGED <<client_tasks, client_sent, client_runs>>
    PROVE  \E c \in DOMAIN client_errands, done \in client_runs :
             Service!Finish(c, done)
<1> DEFINE c == tx.call.cid
           done == tx.call.result
<1>1. was_run(done, c)
  BY DEF RunInv
<1>2. done \in client_runs /\ done[2] = c
  BY <1>1 DEF was_run, client_runs
<1>3. done \in ResultCids
  BY CallTypes, SystemAssumption DEF WorkerTypeOK
<1>4. /\ DOMAIN Errands' = DOMAIN Errands
      /\ \A x \in DOMAIN Errands : x # c => Errands'[x] = Errands[x]
      /\ Errands'[c].account_id = Errands[c].account_id
      /\ Errands'[c].errand_id = Errands[c].errand_id
      /\ Errands'[c].result = done
  BY <1>3, UpdateErrandResultType
<1>5. c \in DOMAIN client_errands
  BY DEF client_errands
<1> HIDE DEF c, done
<1>6. client_errands' = [client_errands EXCEPT ![c].result = done]
  BY <1>4, <1>5 DEF client_errands, as_errand
<1>7. Service!Finish(c, done)
  BY <1>2, <1>6 DEF Service!Finish
<1>8. QED BY <1>2, <1>5, <1>7

LEMMA RunRefines ==
    ASSUME WorkerTypeOK, OriginInv, NEW addr \in NetAddresses,
           NEW task \in services[addr],
           executed' = [executed EXCEPT ![addr] = @ \cup {task}],
           UNCHANGED <<client_tasks, client_sent, client_errands>>
    PROVE  \E t \in client_tasks : Service!Run(t)
<1>1. PICK client \in AccountIds : begun(task[1], task[2], client)
  BY DEF OriginInv
<1> DEFINE t == [id |-> task[1], cid |-> task[2], client |-> client]
<1>2. t \in client_tasks
  BY <1>1, BegunIsTask
<1>3. task = <<t.id, t.cid>>
  BY DEF WorkerTypeOK
<1> HIDE DEF t
<1>4. client_runs' = client_runs \cup {task}
  BY DEF client_runs, WorkerTypeOK
<1>5. task \in client_sent
  BY DEF client_sent
<1>6. Service!Run(t)
  BY <1>3, <1>4, <1>5 DEF Service!Run, Service!key
<1>7. QED BY <1>2, <1>6

\* Every step of the system is one of the errand service, or none.
LEMMA ServiceStep ==
    ASSUME SystemInv, system_step
    PROVE  [Service!ServiceNext]_(Service!service_vars)
<1>0. /\ TypeOK /\ IdsFollowTheClock /\ WorkerTypeOK
      /\ SentInv /\ OriginInv /\ RunInv
  BY DEF SystemInv, PalletInv
<1>1. UNCHANGED Tasks => UNCHANGED client_tasks
  BY DEF client_tasks, recorded_tasks
<1>2. UNCHANGED Errands => UNCHANGED client_errands
  BY DEF client_errands
<1>3. /\ UNCHANGED services => UNCHANGED client_sent
      /\ UNCHANGED executed => UNCHANGED client_runs
  BY DEF client_sent, client_runs
<1>4. ASSUME NEW a \in AccountIds, NEW n \in DelegatorNames, NEW c \in Cids,
             NEW f \in Fees, UNCHANGED <<Errands, services, executed>>,
             begin_task(a, n, c, f) \/ begin_task_aborted(a, n, c, f)
      PROVE  Service!Begin \/ Service!Lose
  <2>1. CASE begin_task(a, n, c, f)
    BY <1>0, <1>2, <1>3, <1>4, <2>1, BeginRefines
  <2>2. CASE begin_task_aborted(a, n, c, f)
    <3>1. Tasks' = remove(Tasks, block_number)
      BY <2>2 DEF begin_task_aborted
    <3>2. QED BY <1>0, <1>2, <1>3, <1>4, <3>1, LoseRefines
  <2>3. QED BY <1>4, <2>1, <2>2
<1>5. ASSUME NEW tx \in pool, UNCHANGED <<Tasks, services, executed>>,
             tx.call.fn = "init_errand",
             Errands' = insert(Errands, tx.call.cid,
                               [account_id |-> tx.call.client,
                                errand_id |-> tx.call.errand_id,
                                status |-> "Processing",
                                result |-> NoResult])
      PROVE  \E t \in client_tasks : Service!Start(t)
  BY <1>0, <1>1, <1>3, <1>5, StartRefines
<1>6. ASSUME NEW tx \in pool, UNCHANGED <<Tasks, services, executed>>,
             tx.call.fn = "update_errand", tx.call.cid \in DOMAIN Errands,
             update_errand_result(tx.call.cid, tx.call.result)
      PROVE  \E c \in DOMAIN client_errands, done \in client_runs :
               Service!Finish(c, done)
  BY <1>0, <1>1, <1>3, <1>6, FinishRefines
<1>7. ASSUME NEW addr \in NetAddresses, NEW task \in services[addr],
             executed' = [executed EXCEPT ![addr] = @ \cup {task}],
             UNCHANGED <<Tasks, Errands, services>>
      PROVE  \E t \in client_tasks : Service!Run(t)
  BY <1>0, <1>1, <1>2, <1>3, <1>7, RunRefines
<1>8. ASSUME NEW w \in DOMAIN workers, NEW job \in workers[w].jobs,
             job.kind = "send", job.addr \in NetAddresses,
             send_task_internal(job), UNCHANGED <<Tasks, Errands, executed>>
      PROVE  \E t \in client_tasks : Service!Send(t)
  BY <1>0, <1>1, <1>2, <1>3, <1>8, SendRefines
<1>9. CASE UNCHANGED <<Tasks, Errands, services, executed>>
  BY <1>1, <1>2, <1>3, <1>9 DEF Service!service_vars
<1>10. QED
  BY <1>0, <1>4, <1>5, <1>6, <1>7, <1>8, <1>9, ClientCases
     DEF Service!ServiceNext

LEMMA ServiceInits == SystemInit => Service!ServiceInit
<1> SUFFICES ASSUME SystemInit PROVE Service!ServiceInit
  OBVIOUS
<1>1. DOMAIN Tasks = {} /\ DOMAIN Errands = {}
  BY EmptyMapType DEF SystemInit, Init
<1>2. client_tasks = {}
  BY <1>1 DEF client_tasks, recorded_tasks
<1>3. client_sent = {} /\ client_runs = {}
  BY DEF client_sent, client_runs, SystemInit, WorkerInit
<1>4. client_errands = Service!EmptyMap
  BY <1>1 DEF client_errands, Service!EmptyMap
<1>5. QED BY <1>2, <1>3, <1>4 DEF Service!ServiceInit

\* Chain, workers, pool and services implement the errand service
\* (ImplementsService): every step of theirs, seen as a client sees it,
\* begins, loses, sends, runs, starts or finishes a task as ErrandService
\* allows.
THEOREM SystemImplementsService == SystemSpec => ImplementsService
<1>1. SystemInv /\ [SystemNext]_system_vars
        => [Service!ServiceNext]_(Service!service_vars)
  <2>1. SystemInv /\ SystemNext => [Service!ServiceNext]_(Service!service_vars)
    BY ServiceStep, SystemNextStep
  <2>2. ASSUME UNCHANGED system_vars PROVE UNCHANGED Service!service_vars
    BY <2>2
       DEF system_vars, vars, worker_vars, tasking, errandbook,
           Service!service_vars, client_tasks, recorded_tasks, client_sent,
           client_runs, client_errands
  <2>3. QED BY <2>1, <2>2
<1>2. QED
  BY <1>1, ServiceInits, SystemInvariant, PTL
     DEF SystemSpec, ImplementsService, Service!Spec

=============================================================================
