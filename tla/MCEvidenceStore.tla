--------------------------- MODULE MCEvidenceStore ---------------------------
(* Small instances of EvidenceStore for TLC. *)
EXTENDS EvidenceStore, TLC

CONSTANTS r1, r2, s1

TwoRequests == {r1, r2}

(* usdc-reserve-v1 snapshots name their request; under credit-ltv-v1 two   *)
(* requests of one borrower share them and no amount escapes evaluation.   *)
OwnSnapshots == [r \in TwoRequests |-> r]
OneBorrower == [r \in TwoRequests |-> s1]

Symmetric == Permutations(TwoRequests)

NoOversize == {}
OneOversize == {r2}
=============================================================================
