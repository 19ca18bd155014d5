---------------------------- MODULE MCCostOutbox ----------------------------
(* Three lines, the second of them bad, over two senders that claim at most   *)
(* two lines at once, so that a claim leaves a row behind, a batch mixes good *)
(* and bad lines, and the other sender claims what a lost connection frees.   *)
EXTENDS CostOutbox

CONSTANTS s1, s2
=============================================================================
