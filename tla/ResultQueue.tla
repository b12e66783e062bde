----------------------------- MODULE ResultQueue -----------------------------
(***************************************************************************)
(* What a node's local storage promises to its offchain workers: the       *)
(* results they fetch form a queue, each result is submitted to the chain  *)
(* once, in the order in which results were put there, and none is lost.   *)
(***************************************************************************)
EXTENDS Sequences

CONSTANT Results        \* (cid, result) pairs fetched from delegates

VARIABLES
    queue,              \* results fetched and not yet submitted
    submitted           \* results submitted in update_errand transactions

vars == <<queue, submitted>>

Init ==
    /\ queue = <<>>
    /\ submitted = <<>>

Push(r) ==
    /\ queue' = Append(queue, r)
    /\ UNCHANGED submitted

Submit ==
    /\ queue # <<>>
    /\ submitted' = Append(submitted, Head(queue))
    /\ queue' = Tail(queue)

Next == Submit \/ \E r \in Results : Push(r)

Spec == Init /\ [][Next]_vars

=============================================================================
