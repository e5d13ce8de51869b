-------------------------------- MODULE Merkle -------------------------------
(***************************************************************************)
(* The RFC 6962 tree over the records of a batch (common/merkle.js).       *)
(*                                                                         *)
(* SHA-256 is taken to be injective: a hash is the value it was computed   *)
(* from, marked as a leaf or as a branch, so that no leaf is a branch.     *)
(* The trees are recursive functions over the size of a subtree, and then  *)
(* over the index of its first record.                                     *)
(***************************************************************************)
EXTENDS Integers, Sequences

MaxBatchSize == 32

Leaf(record) == <<"leaf", record>>

Branch(l, r) == <<"branch", l, r>>

(* The largest power of two strictly below n, for n up to MaxBatchSize. *)
Split(n) == CHOOSE p \in {1, 2, 4, 8, 16} : p < n /\ n <= 2 * p

(* buildSubtree: the hash over `size' records from `start', counted from 0. *)
Subtree(records, start, size) ==
    LET hash[n \in 1..MaxBatchSize] ==
            [s \in Nat |->
                IF n = 1 THEN Leaf(records[s + 1])
                ELSE Branch(hash[Split(n)][s], hash[n - Split(n)][s + Split(n)])]
    IN  hash[size][start]

Root(records) == Subtree(records, 0, Len(records))

Step(side, hash) == [side |-> side, hash |-> hash]

(* traverse: the siblings of leaf `index' from the bottom up to the node   *)
(* over `size' records from `start', each with its side.                   *)
Path(records, index, start, size) ==
    LET path[n \in 1..MaxBatchSize] ==
            [s \in Nat |->
                LET right == s + Split(n) IN
                IF n = 1 THEN <<>>
                ELSE IF index < right
                THEN Append(path[Split(n)][s],
                            Step("right", Subtree(records, right, n - Split(n))))
                ELSE Append(path[n - Split(n)][right],
                            Step("left", Subtree(records, s, Split(n))))]
    IN  path[size][start]

Proof(records, index) == Path(records, index, 0, Len(records))

(* Mutant: the sides from the top down. *)
DirectionsDown(index, count) ==
    LET sides[n \in 1..MaxBatchSize] ==
            [i \in Nat |->
                IF n = 1 THEN <<>>
                ELSE IF i < Split(n) THEN <<"right">> \o sides[Split(n)][i]
                ELSE <<"left">> \o sides[n - Split(n)][i - Split(n)]]
    IN  sides[count][index]

(* calculateExpectedDirections: the sides a proof must name. *)
Directions(index, count) ==
    LET sides[n \in 1..MaxBatchSize] ==
            [i \in Nat |->
                IF n = 1 THEN <<>>
                ELSE IF i < Split(n) THEN Append(sides[Split(n)][i], "right")
                ELSE Append(sides[n - Split(n)][i - Split(n)], "left")]
    IN  sides[count][index]

Climb(hash, step) ==
    IF step.side = "left" THEN Branch(step.hash, hash) ELSE Branch(hash, step.hash)

(* The loop of verifyProof after its first `steps' steps. *)
Climbed(record, proof, steps) ==
    LET hash[k \in 0..MaxBatchSize] ==
            IF k = 0 THEN Leaf(record) ELSE Climb(hash[k - 1], proof[k])
    IN  hash[steps]

(* TRUE where the code returns, FALSE where it throws INVALID_INCLUSION. *)
VerifyProof(record, index, count, proof, root) ==
    /\ count \in 1..MaxBatchSize /\ index \in 0..(count - 1)
    /\ LET sides == Directions(index, count)
       IN  /\ [i \in DOMAIN proof |-> proof[i].side] = sides
           /\ Climbed(record, proof, Len(sides)) = root

==============================================================================
