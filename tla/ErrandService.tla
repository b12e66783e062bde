---------------------------- MODULE ErrandService ----------------------------
(***************************************************************************)
(* What the pallet, its workers and the delegates' services promise a      *)
(* client together.  A task is begun under an id of its own and sent to a  *)
(* service.  Only then the service may run it and it may be put on chain   *)
(* as the errand of its cid; either may come first.  The errand is         *)
(* finished with the result of a run task of that cid.  A task may be      *)
(* lost, but only while it has not been sent.                              *)
(***************************************************************************)
EXTENDS StorageMap

CONSTANTS
    NoResult        \* the result of an errand that is not finished

VARIABLES
    tasks,          \* begun tasks: id, cid and client
    received,       \* (id, cid) of the tasks the services have got
    run,            \* (id, cid) of the tasks the services have run
    errands         \* cid -> id, client and result of the errand on chain

service_vars == <<tasks, received, run, errands>>

key(t) == <<t.id, t.cid>>

ServiceInit ==
    /\ tasks = {}
    /\ received = {}
    /\ run = {}
    /\ errands = EmptyMap

\* A client begins a task.
Begin ==
    /\ \E t \in tasks' \ tasks :
         /\ \A u \in tasks : u.id # t.id
         /\ tasks' = tasks \cup {t}
    /\ UNCHANGED <<received, run, errands>>

\* Nobody has worked on the task yet.
untouched(t) ==
    /\ key(t) \notin received
    /\ \A c \in DOMAIN errands : errands[c].id # t.id

Lose ==
    /\ tasks' \subseteq tasks
    /\ \A t \in tasks \ tasks' : untouched(t)
    /\ UNCHANGED <<received, run, errands>>

\* A service gets the task.
Send(t) ==
    /\ received' = received \cup {key(t)}
    /\ UNCHANGED <<tasks, run, errands>>

\* A service that has got the task runs it.
Run(t) ==
    /\ key(t) \in received
    /\ run' = run \cup {key(t)}
    /\ UNCHANGED <<tasks, received, errands>>

\* The task, once sent, becomes the errand of its cid, in place of an earlier
\* one.
Start(t) ==
    /\ key(t) \in received
    /\ errands' = insert(errands, t.cid,
                         [id |-> t.id, client |-> t.client,
                          result |-> NoResult])
    /\ UNCHANGED <<tasks, received, run>>

\* The errand gets the result of a run of its cid.
Finish(c, done) ==
    /\ done[2] = c
    /\ errands' = [errands EXCEPT ![c].result = done]
    /\ UNCHANGED <<tasks, received, run>>

ServiceNext ==
    \/ Begin
    \/ Lose
    \/ \E t \in tasks : Send(t) \/ Run(t) \/ Start(t)
    \/ \E c \in DOMAIN errands, done \in run : Finish(c, done)

Spec == ServiceInit /\ [][ServiceNext]_service_vars

=============================================================================
