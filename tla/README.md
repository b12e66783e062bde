# Specification of the abc-demo chain

TLA+ models of the Substrate chain in `src/`: a pallet (`src/pallets/abc-demo`)
with which clients have *errands* run by *delegates* outside the chain, for a
fee, and the offchain workers that connect the chain with the delegates'
services. The models are checked with TLC on small instances. The safety
properties that TLC checks (all but `TasksArePaidFor`), and both refinements,
are also proved with TLAPS for every instance; liveness is only model-checked.

## 1. The system

How an errand runs:

1. An account calls `request_delegate(name, address)`. The node that has the
   account's key notices the request in its offchain worker, asks the service
   at the address, stores the answer locally and submits
   `update_delegate_status`; when this fails it submits `unreserve`.
2. A client calls `begin_task(name, cid, fee)`: the fee is reserved and the
   task recorded for the current block.
3. The worker of the delegate's node sends the block's task to the service and
   submits `init_errand`, which makes the task an errand in progress.
4. Every tenth block, nodes with an authorised key ask the services for the
   results of all errands in progress and put those they get into the node's
   local storage. At every block they submit what is stored there as
   `update_errand`.
5. `update_errand` completes the errand - in development mode at once,
   otherwise when there are `MIN_UPDATE_RESULT_ACCOUNT` reports - and pays the
   client's delegate out of the client's reserve.

### Components

| component | state | operations | interacts with |
|---|---|---|---|
| pallet, on chain (`lib.rs`, `decl_storage!`, `decl_module!`) | `Errands`, `Delegates`, `CompletedErrands`, `ClientTaskFee`, `ClientDelegate`, `DelegateNetAddress`, `DelegateAccounts`, `Tasks`, `DelegatesApplys`, `ProcessingErrands` | six dispatchables | balances (reserve, repatriate), called by users and by workers' transactions |
| offchain worker (`lib.rs`, `delegate.rs`, `task.rs`) | none of its own; reads the chain at its block | `apply_delegates`, `send_errand_tasks`, `query_errand_task_results`, `update_errand_task_results` | services over HTTP, local storage, transaction pool; one per block and node, running concurrently |
| local storage (`storage.rs`) | list of results and its lock; a delegate's info and its lock, per client | `operate_local_storage`, and the same inlined in `load_tasks_results_info` | shared by all workers of a node, survives restarts |
| HTTP client (`http.rs`) | none | `http_post`, 3 minutes at most | delegates' services |
| balances, system (FRAME, external) | free and reserved balance, nonces, block number, extrinsic index | `reserve`, `repatriate_reserved`, nonce check | pallet |
| node, runtime, chain specification | configuration | start-up | starts the workers; genesis chooses mode and reporters |

### What is hard

* Dispatchables are not rolled back when they return an error (FRAME 2.0.0), so
  a check after a write leaves the write behind.
* State is kept per client (latest fee, latest delegate) and per cid, while
  tasks of one client, and errands of one cid, may overlap.
* Workers of different blocks overlap on a node and sign with the same keys.
* A lock made of a stored value: read, compare-and-set, and no owner after a
  restart.
* Requests that are lost, or received although the caller has timed out.

`PROJECT.json` lists each hazard with its line and the properties aimed at it.

### What makes each component correct

* Pallet: ids tell tasks apart; the work list is exactly the unfinished
  errands; a result is backed by reports; no task is recorded unpaid; money
  leaves a reserve only for a completed errand and does not get stuck without a
  fee on record.
* Local storage: it is a queue, whatever the workers do and whenever they do it.
* Workers: an errand on chain belongs to a task, a ready delegate can be
  served unless a restart has left its lock held, an errand has been sent, a
  result comes from a service that ran the task; and a result that can be had
  gets on chain in the end.
* The whole: what a client may rely on is `ErrandService`.
* Node: it is started with the keys and on the chain that let it report.

## 2. Modules

```
StorageMap -- AbcPallet ------- OffchainWorker -- AbcSystem ------- AbcFaults
   |              |                               :   |                 |
   |              |                   ErrandService   |                 |
   |              |                      (INSTANCE)   |                 |
   |         MCAbcPallet                         MCAbcSystem ----- MCAbcFaults
   |              |                                   |                 |
StorageMap-   AbcPallet- ------------------------ AbcSystem- ------ AbcFaults-
Theorems ---- Proofs                              Proofs            Proofs

ResultQueue ..... LocalStorage -- LocalStorageProofs, MCLocalStorage
         (INSTANCE)

Node ------------ ReportLoop ---- MCReportLoop
```

A line to the right is EXTENDS; `MC` modules and proof modules extend the module
above them.

**`StorageMap`**: FRAME storage maps as functions on the keys present.

**`AbcPallet`**: one variable per storage item, with its name; one action per
dispatchable, with its name. A call that fails before it writes is a `_refused`
action (it only takes an extrinsic index); one that fails after a write has an
action that keeps the write (`begin_task_aborted`, `update_errand_completed`).
Any account may make any call at any time with any arguments. Abstractions:

* `ProcessingErrands` is a bag (cid -> number of occurrences): the order of the
  Vec only decides the order of queries.
* The uuid of a task is the triple that the code hashes. This assumes that
  blake2_128 has no collision, and that the random seed differs from block to
  block (collective-flip mixes in the block's hashes).
* Accounts are 32-byte ids, which encode and decode without loss; the error
  branches of `account_to_bytes` and `bytes_to_account` cannot be taken.
* `reserve` and `repatriate_reserved` are external, written as pallet_balances
  2.0.0 behaves for these calls: a `reserve` of more than is free fails and
  changes nothing, a payment to a dead account fails, a payment of zero does
  nothing, and an account that falls
  below the existential deposit loses what is left. Balances have no upper
  bound in the model: all money comes from genesis.

**`ResultQueue`**: what the list of results promises: a queue from which each
result is submitted once. **`LocalStorage`**: workers that store a result or
drain the list, one action per host call (`get`, `set`, compare-and-set), so
that they interleave between any two. The mapping `queue` onto `ResultQueue`
is what the draining worker still has to submit, or the stored list when none
drains. `crash` clears the workers and keeps the storage. `Some(None)`, a lock
value that does not decode, cannot occur: only booleans are written.

**`OffchainWorker`**: a worker reads the chain at the end of its own block, so
the set of its jobs is computed there (`offchain_worker`) and worked off one
by one, in any interleaving with other workers, blocks and transactions. The
order of the jobs is the order of the phases, and of the lists inside a phase
(`before`, `next_jobs`). Each
job may fail in each way the code has a path for. `submit` takes the nonce from
the worker's block as `send_signed_transaction` does: a stale nonce is never
included, and of two transactions with the same nonce the pool keeps one.
Chain writes by a worker (`T::Currency::unreserve`) are discarded by the host
and change nothing. The queries of one block go out in any order.
A service is the set of tasks (errand id and cid) it has been sent and the set
of those it has completed, at a time of its own. It is asked by errand id alone,
as in the code; a result is named by the task it is the result of, so that the
result of another task can be told apart. The results of a node are the queue
of `ResultQueue`, with its lock held while a worker submits. `stuck_results`
and `stuck_info` are the locks left held by a worker that is gone.
A delegate's info is there or not: the record (`DelegateInfo`) does not say which
service answered, and `load_delegate_info` does not ask, so that info from an
earlier address serves as well as any.
The worker is the native one. Under the default execution strategy the node runs
the runtime natively when the versions agree, with the feature `std`. The HTTP
requests at `lib.rs:510`, `548` and `585` are compiled in for that feature only
(section 6).

**`AbcSystem`**: the chain, all nodes, the pool, and users who call
`request_delegate` and `begin_task`; every other extrinsic comes from a worker.

**`ErrandService`**: what all of it promises a client, in six actions: a task
is begun under a fresh id; it may be lost as long as it has not been sent; it is
sent to a service; only then may the service run it, and only then may it be put
on chain as the errand of its cid, in either order (the code usually puts it on
chain first); and the errand is finished with the result of a task of that cid
that was run. `AbcSystem!Service` maps the tasks recorded on chain, the tasks
the services have got, those they have completed and the errands on chain onto
it; workers, pool, nonces, registrations and money disappear.

**`AbcFaults`**: `AbcSystem` with three faults of its environment.

* `restart`: all workers of a node are gone. A worker at a job that uses a lock
  may have been inside it, and the lock then stays held (`storage.rs` has no
  owner or expiry). Local storage is otherwise kept. Whatever a worker had done
  of a job before the stop is a step it took before, or a step followed by the
  loss of its transaction.
* `lose_tx`: a pooled transaction is dropped. `create_transaction` gives each a
  mortal era, and pools are bounded and not persistent.
* `retract_block`: a fork of depth one. Some nodes import the block as their
  best and start workers on it, then a sibling wins: the chain returns to the
  state the block found (`start`), the transactions go back to the pool, and the
  same height is filled again. Those nodes do not run a worker for the sibling,
  because Substrate starts workers only for blocks that become best on import.
  The seed of errand ids depends on earlier blocks only, so the sibling hands
  out the same ids again, possibly for other cids. Users' calls are not put
  back, users may make them again or not.

**`Node`**: the two chain specifications, and what the command line and the
service make of a configuration: workers, keys of the pallet, authorship.
A specification read from a file is not covered.

**`ReportLoop`**: steps 4 and 5 above on a chain without end, to ask for
liveness. The height counts modulo the query period; lists are sets (a result
stored twice is reported twice, which only helps); a nonce clash is one of the
ways to lose a report. The lock of a node's results is explicit: a worker takes
it to store a result (phases `query` and `store`) and to report all of them
(`update` and `report`), and gives it back in a later step; whoever finds it
held in between drops its result or ends its phase, as the code does. `served` says whether the errand's client still has the
delegate that runs it: query goes to the client's latest delegate, and as long
as that is another one, it fails. A crash removes the workers and leaves the
lock as it is.

The definitions named `..._unchecked`, `..._skipped` and the like are seeded
faults: plausible mistakes in the definition below them, which are not part of
any specification. Replacing the definition by its fault must violate the
property `PROJECT.json` lists for it.

## 3. Runs

| run | question | bounds |
|---|---|---|
| `pallet_modes` | are tasks, errands, reports and reserves consistent, in development mode and outside it? | 2 accounts, 1 name, 2 cids, fees 0..2, endowment 3, existential deposit 2, 2 blocks of 4 extrinsics |
| `storage_queue` | do workers implement the queue and give the lock back? | 3 workers, 2 results, each fetched twice |
| `storage_restart` | is a result submitted twice after a crash? | 2 workers, 2 results, each fetched twice, any number of crashes |
| `system_restart` | do tasks, errands and results stay together and implement `ErrandService`, with restarts and lost transactions? | 1 node, 1 delegate, 1 client, 2 cids, 3 user calls, 5 blocks of 2 extrinsics, queries every 2 blocks, 1 restart, 1 loss |
| `system_nodes` | does each of two errands get a result of its own, with two nodes that report, outside development mode? | 2 nodes with a key each, 1 delegate, 1 client, 2 cids, 3 user calls, 4 blocks of 3 extrinsics, queries every 3 blocks |
| `system_fork` | does it survive a retracted block? | 2 nodes, one with the delegate's key and one with the reporter's, 2 cids, 2 user calls, 5 blocks of 2 extrinsics, 1 fork of depth 1 |
| `report_loop` | do results get on chain in the end, what can keep them back, and does the loop stop? | `--alice` and `--bob` on the local testnet, bob crashes any number of times, 1 errand repeated any number of times, queries every 3 blocks, 2 overlapping workers of alice |

and five that show where the code departs from what its own comments, names or
tests say (section 5).

Why the bounds suffice: a whole errand takes six extrinsics (request, status,
begin, init, two reports), and `pallet_modes` has eight, so that errands are
repeated, re-initialised and mixed with failing calls; the fees include zero,
what a client can afford once and what it cannot afford twice, and the payment
that reaps a client. Two cids and two accounts are enough for each property,
all of which relate at most two. A query every second block instead of every
tenth (`QueryPeriod`) gives the same phases with fewer idle blocks; the system
runs have blocks enough for request, task, errand, query and report, with
workers of earlier blocks still running. The genesis of `pallet_modes` has one
authorised account, so that unauthorised reports occur; `system_nodes` follows
the local testnet, with several. The symmetry set of the pallet runs
(`MCSymmetry`) permutes cids, which no definition tells apart. `Modes` lists the
values of `DevelopmentMode` a run starts from.
`system_restart` puts a stop at every point of every job, and one loss on top of
it reaches each combination of what was submitted and what was not. In
`system_fork` the retracted block may be any of the five, empty or full, and the
id clash needs two cids. In `system_nodes` both tasks can be begun in one block,
sent, queried and reported by both nodes before the last block. Two overlapping
workers are what it takes to meet a lock; the loop run has no bound on time.
`CHECK_DEADLOCK FALSE` appears where the bounds on blocks and extrinsics end
every behaviour; `LocalStorage` and `ReportLoop` never deadlock and are checked
for it.

What the fault runs show: restarts and losses only drop tasks or delay them, and
`AbcSystem` with them still implements `ErrandService`. They may drop all tasks
of a delegate, though: when the node stops inside the lock of the delegate's info
(`delegate.rs:121`), the info can never be loaded again and the delegate stays
ready on chain. `ReadyDelegatesAreKnown` is therefore false with restarts;
`system_restart` checks `ReadyUnlessLockLeft`, which says that this is the only
way a ready delegate is cut off. A fork is worse: an
errand can be put on chain for a task of the retracted block, which the chain
has never seen, so neither `ErrandsComeFromTasks` nor the refinement is claimed
in `system_fork`. What remains is that the errand was sent and that no result of
another cid is taken for its own, although ids repeat. This rests on all tasks
being sent by one node (`OneSender`, which the theorem about forks assumes and
`system_fork` satisfies). That node runs a worker for one of the two siblings
only. When it runs one for both (the seeded fault `importers_all`), two tasks
with one id reach the service and a wrong result completes an errand. The same
happens with two nodes whose delegates share a service: in the retracted block
the first delegate sends the task; in the sibling its name passes to the second
delegate right after another task got the same id, and the second one sends
that. This behaviour takes 20 steps, three user calls and blocks of two
extrinsics.

Fairness: `LocalStorage!FairSpec` assumes weak fairness of each worker's steps
inside an operation. Each worker is a blocking call on a thread of the node's
pool, which the operating system schedules, and no host call made under the
lock waits for another worker. Nothing is assumed about operations starting.
Crashes are excluded from this run (`MayCrash = FALSE`): after one, the lock is
indeed never released, which is the finding of `storage_crash`.

`ReportLoop!LoopFairness` has weak fairness of block production (Aura is an
essential task, and an authority is always up again after a crash) and of each
started worker (HTTP has a deadline of three minutes, host calls return). Strong
fairness stands for an environment that loses things but not always: a query
repeated for ever is answered with a result at some time, whether the lock is
free then or not, and a report submitted again and again is included. Nothing
is assumed of the lock, of clients, of repeated errands or of crashes.

The lock is where the code gives no guarantee. A worker that finds it held does
not wait: a draining worker is done (`lib.rs:612`), a storing one drops its
result (`task.rs:47`), and only the worker of a later block tries again. That one
may find the lock held as well, and so on for ever, without any thread being
stopped. The properties name the meetings that do this as conditions, and TLC
finds a counterexample when any of them is dropped:

* `ReportsMeetNoStore`: from some time on, no worker comes to drain the list just
  while another one stores a result. It is the only condition of
  `StoredResultsLeave`. Meeting another *drain* does no harm, the other one
  empties the list.
* `StoresMeetNoLock`: from some time on, no result is dropped because the lock is
  held. `ErrandsComplete` needs it too.
* `ErrandsComplete` further needs that the client stays with its delegate.
* `LoopComesToRest` needs none of them: once all errands stay done, nothing is
  stored any more, and drains do not starve each other.

When the only reporting node may crash, `ErrandsComplete` fails for the lock it
leaves held; `report_loop` shows that one node that stays up is enough, but only
because two reports of one account count as two (section 5).

## 4. Proofs

Every theorem holds for all values of the constants that satisfy the named
assumptions:

* `PalletAssumption`: the default account is not one of the accounts, fees and
  endowments are naturals, the reporters are accounts;
* `WorkerAssumption`: nodes hold keys of accounts, the empty address is no
  service, the query period is positive;
* `SystemAssumption`: delegators and clients are accounts; the ids and results
  that occur (uuids, and pairs of uuid and cid) are among those the pallet may
  be called with;
* `FaultAssumption`: the numbers of faults are naturals, of any size;
* `LocalStorageAssumption`: `Drain` is not a result.

Sets of nodes, accounts, cids and workers may be infinite.

### The pallet (`AbcPalletProofs`, with `StorageMapTheorems`)

* `TypeCorrect`: the storage keeps its types. The interesting parts are
  balances, which stay natural because a payment moves no more than is reserved,
  and `ClientDelegate`, which never holds the default account that a missing
  name reads as (`begin_task` looks the name up again after its checks).
* `PalletInvariant`: `PalletInv` is inductive. Three of its parts are there
  only to make the others so. `IdsFollowTheClock` (the ids of a block carry its
  number, and indices below the current extrinsic index) gives `IdsAreUnique`:
  uniqueness alone says nothing about the next id. `ReportersAuthorised` is
  needed because a completed errand inherits reports from before. And
  `DelegatedHasFee` connects `init_errand`, which checks `ClientDelegate`, with
  `ClientTaskFee`, which the payment reads; without it `ReserveIsPayable` is
  lost when an errand is made.
* `OneTaskPerCid`, `WorkListIsExact`, `CompletionIsReported`,
  `ReservesArePayable` are parts of it; `PaymentNeedsCompletion` is an action
  property that follows from it.

### The local storage (`LocalStorageProofs`)

* `LockInvariant`: a worker in the critical section has the lock held, and a
  compare-and-set is tried only against a free value, crashes included. It
  gives `Exclusion`. `NoLockIsLeft` and `StorageIsQueue` (the refinement of
  `ResultQueue`) assume that there is no crash. The refinement needs that the
  copy of a storing worker equals the stored list until it writes it back.

* `NothingSubmittedTwice`: `SubmittedAtMostOnce`, with any number of crashes.
  Its invariant `CountInv` charges every fetch to at most one of three places: a
  submission, an entry of the list that can still be reached, a worker about to
  store it. The list counts as reachable unless the lock is held by nobody
  (`reachable`): that is the state a crash leaves after results were submitted
  and before the list was emptied, and the theorem holds because such a lock is
  never taken again. The lemmas say how `Append` and `Tail` change the number of
  occurrences; they use bijections and need no induction.

### The system (`AbcSystemProofs`)

* `SystemInvariant`: `SystemInv` is inductive. Its idea is that what is to hold
  of the chain has to hold of everything on its way there. `KnownInv` says that
  the info of ready delegates and of the signers of pooled
  `update_delegate_status` transactions is stored (`has_info`; that it can also
  be loaded is added by the lemmas about locks left held), `SentInv` of pooled `init_errand`s what `ErrandsAreSent`
  says of errands. `RunInv` follows a result from the service over the stored
  list, the report jobs and the pool. `OriginInv` traces ids in jobs, pool,
  services and errands back to a task of a block that has *ended* (`begun`):
  the tasks of the current block may still be dropped by `begin_task_aborted`,
  and a plain reference to a recorded task would not be inductive.
  `ResultsAreExecuted` needs `OriginInv` and `IdsAreUnique` together, because a
  service is asked by id alone.
* `SystemImplementsPallet`: the system's steps are steps of the pallet or
  stutter, so all that is proved of the pallet is true of it in the system.
* `ErrandsHaveTasks`, `ReadyIsKnown`, `ErrandsReachServices`,
  `ResultsComeFromRuns` are the four invariants of the runs.
* `SystemImplementsService`: the refinement of `ErrandService`, one lemma per
  kind of step.

### The faults (`AbcFaultsProofs`)

* `FaultInvariant`: `FaultInv` holds with any number of restarts, losses and
  forks. A retracted block brings back the chain of its start and its
  transactions, so the invariant says the same of these (`StartInv`, with the
  pallet's invariant instantiated for the saved chain, and `IncludedInv`).
  `PalletSurvivesFaults` and `ErrandsReachServicesDespiteFaults` follow, and
  two theorems about ready delegates: `ReadyDespiteFaults`, that their info can
  be loaded unless a lock was left held, and `ReadyIsKnownUntilRestart`, that it
  can be loaded as long as no node has restarted, whatever else fails.
* `OriginInv` is not part of it: after a fork an errand may belong to no task of
  the best chain. Under `MaxForks = 0`, `SystemInvDespiteLoss` shows that
  restarts and losses keep `SystemInv`; `ErrandsHaveTasksDespiteLoss`,
  `ResultsComeFromRunsDespiteLoss` and `FaultsImplementService` follow.
* `ResultsComeFromRunsDespiteForks`: for any number of forks, under `OneSender`
  (section 3). `ForkInv` replaces the uniqueness of recorded ids, which the
  retraction takes away, by `PlanInv`: an id is sent, or planned by a worker to
  be sent, for one cid only, and an id of the current height is planned only
  when the sender has already run its worker for this height.

### Only model-checked

The liveness properties `LockReleased`, `ErrandsComplete`, `StoredResultsLeave`
and `LoopComesToRest`: the prover has no rules for fairness. Everything about
`ReportLoop` and `Node` is of this kind. `TasksArePaidFor` compares a reserve
with a sum over the recorded tasks; what such a sum does when a task is added
needs an induction, which is out of the prover's reach.

## 5. Where the code departs from what it says

| run | what is said | what happens |
|---|---|---|
| `pallet_accounts` | `MIN_UPDATE_RESULT_ACCOUNT` accounts stand behind a result (`lib.rs:50,377`) | one account that reports twice completes the errand |
| `pallet_lost_task` | tasks of a height accumulate (`tests.rs:81`) | a failing `begin_task` removes all tasks of its block, and their fees stay reserved |
| `storage_crash` | `Some(Some(true))` means the lock is held (`storage.rs:20`) | after a stop under the lock nobody holds it, and nobody can take it again |
| `system_revert` | "revert changes" (`lib.rs:455`) | a failed request removes the name and address of another delegate that registered under the same name |
| `system_payee` | the fee is reserved for the delegate committing the errand (`lib.rs:303`) | the delegate of the client's latest task is paid |

## 6. Not modelled

Transaction fees (an account can always sign), transfers between accounts, sudo,
events, weights, finality and forks deeper than one block, synchronisation of a
node that is behind, RPC, the subcommands that work on a database, the
formatting of URLs, JSON and protobuf, and the services themselves beyond what
they have been sent. Of a node's start only what the pallet depends on is
modelled; the rest of `service.rs`, the runtime's `construct_runtime!` and its
APIs hand over to Substrate and keep no state of their own.
The worker run as wasm (a node started with `--execution wasm`, or whose native
runtime has another version) is not modelled: without the feature `std` the
requests at `lib.rs:510`, `548` and `585` are compiled out while the transactions
after them are submitted all the same. `ErrandsAreSent`, `ReadyDelegatesAreKnown`
and what rests on them hold for native execution only.
`src/runtime/src/genesis.rs` is not compiled. `tests.rs` no longer compiles
against the pallet (it uses a field `sender` that `TaskInfo` does not have); it
is read for intent only.

No property says that every task is sent: a task after one whose delegator name
is gone (`lib.rs:490`), a task whose request fails and a task whose worker stops
are never tried again, and their fees stay reserved until a later errand of
the client pays them out (`ReserveIsPayable`).

## 7. Plan

Done, in this order: `AbcPallet` with its runs and proofs; `LocalStorage` with
its refinement and proofs; `OffchainWorker` and `AbcSystem` with their runs;
`ErrandService` and the refinement; `AbcFaults`; `Node` and `ReportLoop`.

Then the proofs: the system, its refinement of `ErrandService`, the faults, and
the count of submitted results.

Next:

1. Safety of `ReportLoop` that its liveness rests on: while a node that does not
   crash has its results locked, exactly one worker of it is storing or
   reporting.
2. Balances: a call changes only the balances of its client and the delegate
   it pays, and their sum never grows and shrinks only by reaping.
3. A weaker condition than `OneSender` under which forks are harmless: one
   sender per service.
