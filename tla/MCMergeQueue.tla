---------------------------- MODULE MCMergeQueue ----------------------------
(* The instance of MergeQueue for TLC: two changes that clash.              *)
EXTENDS MergeQueue

CONSTANTS c1, c2

TwoChanges == {c1, c2}
TheyClash == {{c1, c2}}
=============================================================================
