------------------------------ MODULE MCOperator ------------------------------
(* Small instances of Operator for TLC. *)
EXTENDS Operator, TLC

CONSTANTS r1, r2

OneRequest == {r1}
TwoRequests == {r1, r2}

(* The daemon deploys usdc-reserve-v1: a snapshot names its request. *)
OneSnapshot == [r \in OneRequest |-> r]
TwoSnapshots == [r \in TwoRequests |-> r]

NoOversize == {}
OneOversize == {r2}
=============================================================================
