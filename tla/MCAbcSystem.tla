----------------------------- MODULE MCAbcSystem -----------------------------
(* AbcSystem for TLC.                                                      *)
EXTENDS AbcSystem

MCEndowment == [a \in AccountIds |-> 5]

\* A result is named by the task it is the result of.
MCResults == Uuid \X Cids

\* One node holds the keys of all delegates.
MCSharedKeys == [n \in Nodes |-> Delegators]

\* Every node holds one key, and is named by its account.
MCOwnKey == [n \in Nodes |-> {n}]

=============================================================================
