---------------------------- MODULE MCAbcPallet ----------------------------
(* AbcPallet for TLC: a small genesis with equal endowments.               *)
EXTENDS AbcPallet, TLC

MCEndowment == [a \in AccountIds |-> 3]

\* Cids are interchangeable; accounts are not, some of them may report.
MCSymmetry == Permutations(Cids)

=============================================================================
