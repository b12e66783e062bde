----------------------------- MODULE ReportLoop -----------------------------
(***************************************************************************)
(* How results get on chain, for ever: query_errand_task_results and       *)
(* update_errand_task_results of the workers of all nodes, their lists of  *)
(* results with the lock, the reports in the pool, and update_errand       *)
(* (src/pallets/abc-demo/src/lib.rs), on a chain and with nodes as module  *)
(* Node starts them.                                                       *)
(*                                                                         *)
(* Nothing here repeats what failed.  A query that is not answered, a lock *)
(* found held and a report that is lost are made good only because the     *)
(* errand is still in progress and is asked for again QueryPeriod blocks   *)
(* later.  The module asks whether that is enough.  It therefore has no    *)
(* last block: the height counts modulo QueryPeriod, and only that an      *)
(* errand is on a list matters, not how often.                             *)
(***************************************************************************)
EXTENDS Naturals, FiniteSetsExt, Node

CONSTANTS
    ChainId,        \* the chain specification all nodes are started with
    Nodes,
    Config,         \* node -> its configuration
    MayCrash,       \* nodes that may stop and start again
    Cids,           \* errands
    QueryPeriod,    \* results are queried in every QueryPeriod-th block
    MaxWorkers      \* bound: node -> workers of it that overlap

MIN_UPDATE_RESULT_ACCOUNT == 2

Genesis == load_spec(ChainId)

ASSUME LoopAssumption ==
    /\ Config \in [Nodes -> Configuration(Genesis.endowed)]
    /\ MayCrash \subseteq Nodes
    /\ QueryPeriod \in Nat \ {0}
    /\ MaxWorkers \in [Nodes -> Nat \ {0}]

VARIABLES
    height,         \* block number modulo QueryPeriod
    status,         \* cid -> status of its errand
    reports,        \* cid -> entries of CompletedErrands, as far as they count
    served,         \* cids whose client still has the delegate that runs them
    worker,         \* (node, slot) -> phase of the worker, and its cids left
    stored,         \* node -> cids with a result in its local storage
    locked,         \* nodes whose lock of the results is held
    pool            \* (account, cid): reports on their way to a block

chain_vars == <<height, status, reports, served>>
node_vars == <<worker, stored, locked>>
loop_vars == <<chain_vars, node_vars, pool>>

Slots(n) == 1 .. MaxWorkers[n]
Workers == UNION {{n} \X Slots(n) : n \in Nodes}
Idle == [phase |-> "idle", cids |-> {}]
Accounts == UNION {run(Config[n]).keys : n \in Nodes}

\* The errands have been put on chain.
LoopInit ==
    /\ height = 0
    /\ status = [c \in Cids |-> "Processing"]
    /\ reports = [c \in Cids |-> 0]
    /\ served = Cids
    /\ worker = [w \in Workers |-> Idle]
    /\ stored = [n \in Nodes |-> {}]
    /\ locked = {}
    /\ pool = {}

-----------------------------------------------------------------------------
(* The worker for a block.                                                 *)

may_report(n) ==
    run(Config[n]).keys \cap Genesis.update_result_accounts # {}

\* Seeded fault: completed errands stay on the work list.
processing_errands_all == Cids

processing_errands == {c \in Cids : status[c] = "Processing"}

\* Seeded fault: an errand somebody has reported is not asked for again.
query_once(c) == c \in processing_errands /\ reports[c] = 0

\* The query of an errand whose client has gone to another delegate goes to a
\* service that does not know it, and fails.
query_asks(c) == c \in processing_errands /\ c \in served

query_errand_task_results ==
    IF height = 0 THEN {c \in Cids : query_asks(c)} ELSE {}

\* A worker with these cids left to query goes on with them or to the update.
querying(cids) ==
    [phase |-> IF cids = {} THEN "update" ELSE "query", cids |-> cids]

offchain_worker(n) ==
    IF run(Config[n]).workers /\ may_report(n)
    THEN querying(query_errand_task_results)
    ELSE Idle

free_slots(n) == {s \in Slots(n) : worker[n, s] = Idle}

\* An author ends the block, and every node starts its worker for it.
end_block ==
    /\ \E n \in Nodes : authors(Config[n], Genesis)
    /\ \A n \in Nodes : free_slots(n) # {}
    /\ worker' = [w \in Workers |->
                    IF w[2] = Min(free_slots(w[1])) THEN offchain_worker(w[1])
                    ELSE worker[w]]
    /\ height' = (height + 1) % QueryPeriod
    /\ UNCHANGED <<status, reports, served, stored, locked, pool>>

-----------------------------------------------------------------------------
(* Its steps.  The lock of a node's results is held from a step that takes *)
(* it to one that gives it back; a worker that finds it held gives up what *)
(* it wanted it for.                                                       *)

at(n, s, phase) == worker[n, s].phase = phase

\* Seeded fault: the lock is not given back.
unlock_forgotten(n) == UNCHANGED locked

unlock(n) == locked' = locked \ {n}

\* The query for c is answered with a result: the worker has one cid less to
\* ask for.
answered(n, s, c) ==
    /\ at(n, s, "query")
    /\ c \in worker[n, s].cids
    /\ UNCHANGED <<chain_vars, pool>>

\* The lock is taken and the result stored.
fetch_errand_result_info(n, s, c) ==
    /\ answered(n, s, c)
    /\ n \notin locked
    /\ locked' = locked \cup {n}
    /\ stored' = [stored EXCEPT ![n] = @ \cup {c}]
    /\ worker' = [worker EXCEPT
                    ![n, s] = [phase |-> "store", cids |-> @.cids \ {c}]]

\* The lock is held: the result is dropped.
fetch_locked(n, s, c) ==
    /\ answered(n, s, c)
    /\ n \in locked
    /\ worker' = [worker EXCEPT ![n, s] = querying(@.cids \ {c})]
    /\ UNCHANGED <<stored, locked>>

\* Not completed, or no answer.
fetch_failed(n, s, c) ==
    /\ at(n, s, "query")
    /\ c \in worker[n, s].cids
    /\ worker' = [worker EXCEPT ![n, s] = querying(@.cids \ {c})]
    /\ UNCHANGED <<chain_vars, stored, locked, pool>>

\* The result is stored, and the lock given back.
operate_local_storage_done(n, s) ==
    /\ at(n, s, "store")
    /\ unlock(n)
    /\ worker' = [worker EXCEPT ![n, s] = querying(@.cids)]
    /\ UNCHANGED <<chain_vars, stored, pool>>

\* The lock is taken for all the reports to come.
load_tasks_results_info(n, s) ==
    /\ at(n, s, "update")
    /\ n \notin locked
    /\ locked' = locked \cup {n}
    /\ worker' = [worker EXCEPT
                    ![n, s] = [phase |-> "report", cids |-> stored[n]]]
    /\ UNCHANGED <<chain_vars, stored, pool>>

\* The lock is held: the worker is done, and nothing in it tries again.
load_tasks_results_locked(n, s) ==
    /\ at(n, s, "update")
    /\ n \in locked
    /\ worker' = [worker EXCEPT ![n, s] = Idle]
    /\ UNCHANGED <<chain_vars, stored, locked, pool>>

\* A result is submitted by all accounts of the node.
update_single_errand(n, s, c) ==
    /\ at(n, s, "report")
    /\ c \in worker[n, s].cids
    /\ pool' = pool \cup (run(Config[n]).keys \X {c})
    /\ worker' = [worker EXCEPT ![n, s].cids = @ \ {c}]
    /\ UNCHANGED <<chain_vars, stored, locked>>

\* Seeded fault: what was submitted stays in the list.
empty_array_not_set(n) == UNCHANGED stored

\* The list is overwritten by an empty one.
set_empty_array(n) == stored' = [stored EXCEPT ![n] = {}]

\* All results are submitted: the list is emptied and the lock given back.
load_tasks_results_done(n, s) ==
    /\ at(n, s, "report")
    /\ worker[n, s].cids = {}
    /\ set_empty_array(n)
    /\ unlock(n)
    /\ worker' = [worker EXCEPT ![n, s] = Idle]
    /\ UNCHANGED <<chain_vars, pool>>

worker_step(n, s) ==
    \/ \E c \in Cids :
         \/ fetch_errand_result_info(n, s, c)
         \/ fetch_locked(n, s, c)
         \/ fetch_failed(n, s, c)
         \/ update_single_errand(n, s, c)
    \/ operate_local_storage_done(n, s)
    \/ load_tasks_results_info(n, s)
    \/ load_tasks_results_locked(n, s)
    \/ load_tasks_results_done(n, s)

-----------------------------------------------------------------------------
(* The chain.                                                              *)

\* A report gets into a block.  One more entry, and the errand is done when
\* there are enough; in development mode one report does.
update_errand(a, c) ==
    LET counted == IF reports[c] < MIN_UPDATE_RESULT_ACCOUNT
                   THEN reports[c] + 1 ELSE reports[c]
        dev == Genesis.development_mode
    IN
    /\ <<a, c>> \in pool
    /\ a \in Genesis.endowed
    /\ a \in Genesis.update_result_accounts
    /\ pool' = pool \ {<<a, c>>}
    /\ reports' = IF dev THEN reports ELSE [reports EXCEPT ![c] = counted]
    /\ status' = IF dev \/ counted = MIN_UPDATE_RESULT_ACCOUNT
                 THEN [status EXCEPT ![c] = "Done"] ELSE status
    /\ UNCHANGED <<height, served, node_vars>>

\* A report is refused by the pool or dropped from it.
lose_report(a, c) ==
    /\ <<a, c>> \in pool
    /\ pool' = pool \ {<<a, c>>}
    /\ UNCHANGED <<chain_vars, node_vars>>

\* The cid is begun and put on chain once more; its reports are kept.
init_errand(c) ==
    /\ status[c] = "Done"
    /\ status' = [status EXCEPT ![c] = "Processing"]
    /\ UNCHANGED <<height, reports, served, node_vars, pool>>

\* The client begins another task: with another delegate, or with its first.
begin_task(c) ==
    /\ served' = IF c \in served THEN served \ {c} ELSE served \cup {c}
    /\ UNCHANGED <<height, status, reports, node_vars, pool>>

\* The node stops and starts again.  Its workers are gone; a lock one of them
\* had stays held.
crash(n) ==
    /\ n \in MayCrash
    /\ worker' = [w \in Workers |-> IF w[1] = n THEN Idle ELSE worker[w]]
    /\ UNCHANGED <<chain_vars, stored, locked, pool>>

LoopNext ==
    \/ end_block
    \/ \E w \in Workers : worker_step(w[1], w[2])
    \/ \E a \in Accounts, c \in Cids : update_errand(a, c) \/ lose_report(a, c)
    \/ \E c \in Cids : init_errand(c) \/ begin_task(c)
    \/ \E n \in Nodes : crash(n)

-----------------------------------------------------------------------------
(* Blocks are produced and started workers run on: weak fairness.  Strong  *)
(* fairness is asked of the world outside only: a query made again and     *)
(* again is answered with a result at some time, and a report submitted    *)
(* again and again gets into a block.  Nothing is assumed of the lock.     *)

LoopFairness ==
    /\ WF_loop_vars(end_block)
    /\ \A w \in Workers : WF_loop_vars(worker_step(w[1], w[2]))
    /\ \A n \in Nodes : \A c \in Cids :
         SF_loop_vars(\E s \in Slots(n) :
                        \/ fetch_errand_result_info(n, s, c)
                        \/ fetch_locked(n, s, c))
    /\ \A a \in Accounts : \A c \in Cids : SF_loop_vars(update_errand(a, c))

LoopSpec == LoopInit /\ [][LoopNext]_loop_vars /\ LoopFairness

-----------------------------------------------------------------------------
(* Properties.                                                             *)

\* From some time on no worker of n comes to report the results just while
\* another one has the lock to store a result.  No scheduler promises it: a
\* worker that comes just then gives up, and so may the next, for ever.
ReportsMeetNoStore(n) ==
    <>[][ \A s, t \in Slots(n) :
            load_tasks_results_locked(n, s) => ~at(n, t, "store") ]_loop_vars

\* From some time on no result of n is dropped because the lock is held.
StoresMeetNoLock(n) ==
    <>[][ \A s \in Slots(n), c \in Cids : ~fetch_locked(n, s, c) ]_loop_vars

\* Every errand in progress is completed, as long as its client stays with
\* the delegate that runs it: the retry of query_errand_task_results makes up
\* for lost queries, lost reports, locks found held, crashes of other nodes
\* and errands put on chain again.  That the workers of a node
\* do not get into each other's way for ever is a condition.
ErrandsComplete ==
    (\A n \in Nodes \ MayCrash : ReportsMeetNoStore(n) /\ StoresMeetNoLock(n))
    =>
    \A c \in Cids :
        status[c] = "Processing" ~> (status[c] = "Done" \/ c \notin served)

\* A result in the storage of a node that does not crash leaves it again,
\* unless every worker that comes to report it meets one that stores another
\* (load_tasks_results_info gives up, and nothing but the worker of a later
\* block tries again).  That is the only way: neither a lock given back late,
\* nor an overlapping report, nor an empty list leaves it behind.
StoredResultsLeave ==
    \A n \in Nodes \ MayCrash :
        ReportsMeetNoStore(n) =>
            \A c \in Cids : c \in stored[n] ~> c \notin stored[n]

\* When all errands stay done, the loop comes to rest: no node that has not
\* crashed stores a result and no report is under way for ever
\* (remove_processing takes them off the list the workers read).  Here no
\* condition on the lock is needed.
LoopComesToRest ==
    <>[](\A c \in Cids : status[c] = "Done") =>
        <>[](pool = {} /\ \A n \in Nodes \ MayCrash : stored[n] = {})

=============================================================================
