----------------------------- MODULE MCBacklog -----------------------------
(* Instances of Backlog for TLC: a lead that runs all the time, and ids for *)
(* the delegates it may get.                                                *)
EXTENDS Backlog

CONSTANTS lead, w1, w2

Roots == {lead}
OneWorker == {lead, w1}
TwoWorkers == {lead, w1, w2}
=============================================================================
