---------------------------- MODULE MCReportLoop ----------------------------
(* ReportLoop for TLC: two nodes of the local testnet, --alice and --bob.  *)
EXTENDS ReportLoop

MCConfig ==
    [n \in Nodes |->
       [role |-> "Authority", offchain_worker |-> TRUE,
        dev_key_seed |-> IF n = "alice" THEN "Alice" ELSE "Bob"]]

MCMaxWorkers == [n \in Nodes |-> IF n = "alice" THEN 2 ELSE 1]

=============================================================================
