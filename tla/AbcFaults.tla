------------------------------ MODULE AbcFaults ------------------------------
(***************************************************************************)
(* The system of AbcSystem when its environment fails: a node stops and    *)
(* starts again, a transaction is lost on its way to a block, and a block  *)
(* for which workers have run turns out not to be on the best chain.  None *)
(* of them is an operation of the code; what they leave behind follows     *)
(* from how the code uses threads, local storage, the pool and the chain.  *)
(***************************************************************************)
EXTENDS AbcSystem

CONSTANTS
    MaxRestarts,    \* bound: restarts of nodes
    MaxLost,        \* bound: lost transactions
    MaxForks        \* bound: retracted blocks

ASSUME FaultAssumption ==
    /\ MaxRestarts \in Nat
    /\ MaxLost \in Nat
    /\ MaxForks \in Nat

VARIABLES
    restarts, lost, forks,  \* faults so far
    start,          \* the chain as the current block found it
    included,       \* workers' transactions in the current block
    seen            \* nodes that took a retracted block of this height as best

fault_vars == <<restarts, lost, forks, start, included, seen>>
all_vars == <<system_vars, fault_vars>>

\* All that is on chain, and is undone with a block.
chain ==
    <<Errands, Delegates, CompletedErrands, ClientTaskFee, ClientDelegate,
      DelegateNetAddress, DelegateAccounts, Tasks, DelegatesApplys,
      ProcessingErrands, free, reserved, nonces, calls>>

\* It need not be kept once no block can be retracted any more.
chain_state == IF forks = MaxForks THEN <<>> ELSE chain

FaultInit ==
    /\ SystemInit
    /\ restarts = 0
    /\ lost = 0
    /\ forks = 0
    /\ start = chain_state
    /\ included = {}
    /\ seen = {}

-----------------------------------------------------------------------------
(* The steps of AbcSystem.                                                 *)

undisturbed ==
    /\ user_step \/ offchain_step
    /\ UNCHANGED fault_vars

include_in_block(tx) ==
    /\ include_tx(tx)
    /\ included' = included \cup {tx}
    /\ UNCHANGED <<restarts, lost, forks, start, seen>>

\* Seeded fault: workers run for every imported block, best or not.
importers_all == Nodes

\* A node starts a worker only for a block that becomes its best one: not for
\* the sibling of a block it took as best at the same height.
importers == Nodes \ seen

finish_block ==
    /\ end_block(importers)
    /\ UNCHANGED <<restarts, lost, forks>>
    /\ start' = chain_state'
    /\ included' = {}
    /\ seen' = {}

-----------------------------------------------------------------------------
(* The faults.                                                             *)

\* A worker may be inside the lock of its node's results, and is surely
\* while it submits them.
in_results_lock(w) ==
    \E kind \in {"query", "update", "report"} : at_kind(w, kind)

\* A worker may be inside the lock of the info of the account it serves.
in_info_lock(w) ==
    \E job \in next_jobs(w) :
        \/ at_job(w, job, "send")
        \/ at_job(w, job, "apply") /\ http_post(job.addr)

\* Node n stops and starts again.  Its workers are gone with the jobs they had
\* left, which no later worker takes up; local storage stays, with the locks
\* of the workers `inside` one.  A list of results under such a lock is never
\* read again, so it does not matter how much of it was submitted.
restart(n) ==
    LET mine == {w \in DOMAIN workers : w[1] = n}
        submitting == {w \in mine : at_kind(w, "report")}
    IN
    /\ restarts < MaxRestarts
    /\ mine # {}
    /\ \E inside \in SUBSET mine :
         /\ submitting \subseteq inside
         /\ stuck_results' = stuck_results \cup
              {w[1] : w \in {v \in inside : in_results_lock(v)}}
         /\ stuck_info' = stuck_info \cup
              UNION {{<<n, job.account>> : job \in next_jobs(w)} :
                       w \in {v \in inside : in_info_lock(v)}}
    /\ workers' = [w \in DOMAIN workers \ mine |-> workers[w]]
    /\ restarts' = restarts + 1
    /\ UNCHANGED <<vars, calls, delegate_info, results, services, executed,
                   pool, nonces, lost, forks, start, included, seen>>

\* A pooled transaction is dropped: its era ends, the pool is full, or its
\* node stops before it is passed on.
lose_tx(tx) ==
    /\ lost < MaxLost
    /\ lost' = lost + 1
    /\ pool' = pool \ {tx}
    /\ UNCHANGED <<vars, calls, workers, delegate_info, results, stuck,
                   services, executed, nonces, restarts, forks, start,
                   included, seen>>

\* The nodes S take the current block as their best one and start their
\* workers for it, and then a sibling wins.  The chain is again what the
\* block found, the workers' transactions go back to the pool, and the height
\* is filled once more.
retract_block(S) ==
    /\ forks < MaxForks
    /\ forks' = forks + 1
    /\ start_workers(S)
    /\ seen' = seen \cup S
    /\ Errands' = start[1]
    /\ Delegates' = start[2]
    /\ CompletedErrands' = start[3]
    /\ ClientTaskFee' = start[4]
    /\ ClientDelegate' = start[5]
    /\ DelegateNetAddress' = start[6]
    /\ DelegateAccounts' = start[7]
    /\ Tasks' = start[8]
    /\ DelegatesApplys' = start[9]
    /\ ProcessingErrands' = start[10]
    /\ free' = start[11]
    /\ reserved' = start[12]
    /\ nonces' = start[13]
    /\ calls' = start[14]
    /\ extrinsic_index' = 0
    /\ pool' = pool \cup included
    /\ included' = {}
    /\ start' = chain_state'
    /\ UNCHANGED <<DevelopmentMode, block_number, delegate_info, results, stuck,
                   services, executed, restarts, lost>>

FaultNext ==
    \/ undisturbed
    \/ \E tx \in pool : include_in_block(tx)
    \/ finish_block
    \/ \E n \in Nodes : restart(n)
    \/ \E tx \in pool : lose_tx(tx)
    \/ \E S \in (SUBSET importers) \ {{}} : retract_block(S)

FaultSpec == FaultInit /\ [][FaultNext]_all_vars

-----------------------------------------------------------------------------
(* The inductive strengthening for AbcFaultsProofs: what holds of the chain *)
(* and the pool holds of what a retracted block would bring back.          *)

\* The pallet in the state the current block found it in.
Start == INSTANCE AbcPallet WITH
    Errands <- start[1], Delegates <- start[2], CompletedErrands <- start[3],
    ClientTaskFee <- start[4], ClientDelegate <- start[5],
    DelegateNetAddress <- start[6], DelegateAccounts <- start[7],
    Tasks <- start[8], DelegatesApplys <- start[9],
    ProcessingErrands <- start[10], free <- start[11], reserved <- start[12],
    extrinsic_index <- 0

StartInv ==
    /\ Start!PalletInv
    /\ \A a \in DOMAIN start[2] : start[2][a] => has_info(a)
    /\ \A c \in DOMAIN start[1] : sent(start[1][c].errand_id, c)

IncludedInv ==
    \A tx \in included :
        /\ tx.signer \in AccountIds /\ call_typed(tx.call)
        /\ tx.call.fn = "update_delegate_status" => has_info(tx.signer)
        /\ tx.call.fn = "init_errand" =>
             sent(tx.call.errand_id, tx.call.cid)

FaultInv ==
    /\ forks \in 0 .. MaxForks
    /\ forks < MaxForks => StartInv
    /\ IncludedInv
    /\ PalletInv
    /\ WorkerTypeOK
    /\ KnownInv
    /\ SentInv

\* Node n sends tasks: it has the key of a delegate.
sender(n) == Keystore[n] \cap Delegators # {}

\* One node sends all tasks.  With two of them a retracted block and its
\* sibling may each have a task of the same id sent to one service: the first
\* by its delegate, the second by another delegate of that service to which
\* the name passes in the sibling.
OneSender == \A m, n \in Nodes : sender(m) /\ sender(n) => m = n

\* The task is at a service, or a worker is going to send it.
planned(id, cid) ==
    \/ sent(id, cid)
    \/ \E w \in DOMAIN workers : \E job \in workers[w].jobs :
         job.kind = "send" /\ job.errand_id = id /\ job.cid = cid

\* Names are only ever given to the accounts of the delegators.
accounts_are_delegators ==
    \A n \in DOMAIN DelegateAccounts : DelegateAccounts[n] \in Delegators

\* An id is planned for one cid only, because the sender plans the tasks of
\* one block of each height.
PlanInv ==
    /\ accounts_are_delegators
    /\ forks < MaxForks =>
         \A n \in DOMAIN start[7] : start[7][n] \in Delegators
    /\ \A id \in Uuid, c1, c2 \in Cids :
         planned(id, c1) /\ planned(id, c2) => c1 = c2
    /\ \A id \in Uuid, c \in Cids : planned(id, c) =>
         \/ id.seed < block_number
         \/ id.seed = block_number /\ \E n \in seen \cap Nodes : sender(n)

\* Queries are about tasks a service has got.
QueriesAreSent ==
    \A w \in DOMAIN workers : \A job \in workers[w].jobs :
        job.kind = "query" => sent(job.errand_id, job.cid)

\* What a retracted block would bring back is true of the runs.
BroughtBackInv ==
    /\ \A tx \in included :
         tx.call.fn = "update_errand" => was_run(tx.call.result, tx.call.cid)
    /\ forks < MaxForks =>
         \A c \in DOMAIN start[1] :
           start[1][c].status = "Done" => was_run(start[1][c].result, c)

ForkInv ==
    /\ PlanInv
    /\ QueriesAreSent
    /\ RunInv
    /\ BroughtBackInv

=============================================================================
