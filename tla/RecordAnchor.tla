---------------------------- MODULE RecordAnchor ----------------------------
(***************************************************************************)
(* The RecordAnchor contract (contracts/RecordAnchor.sol) on a chain whose *)
(* recent blocks may be reorganised away.                                  *)
(*                                                                         *)
(* A block is known by its number and the fork it was sealed in; the pair  *)
(* stands for the block hash.  A reorganisation opens a new fork, so a     *)
(* dropped hash never comes back and a canonical hash fixes all its        *)
(* ancestors.  A Merkle root stands for the records it commits to: the     *)
(* hash of common/merkle.js is injective as far as this model goes.        *)
(***************************************************************************)
EXTENDS Integers, Sequences, FiniteSets

CONSTANTS
    BatchLimit,   \* records one batch may hold; 32 in the code
    MaxHeight,    \* bound: number of the last block that is ever sealed
    MaxReorgs     \* bound: how often the chain reorganises

ASSUME ChainAssumption ==
    /\ BatchLimit \in Nat \ {0}
    /\ MaxHeight \in Nat \ {0}
    /\ MaxReorgs \in Nat

VARIABLES
    blocks,    \* canonical chain: blocks[n] is the fork block n was sealed in
    fork,      \* the fork now being extended
    anchored,  \* contract storage: anchored[id] for id in 1..batchCount
    calls      \* anchorBatch calls the publisher may have signed and sent

chainVars == <<blocks, fork, anchored, calls>>

Hash(n) == [number |-> n, fork |-> blocks[n]]

Latest == Hash(Len(blocks))

(* ChainView.assertCanonical and ChainView.block: the hash at that height. *)
Canonical(b) == b.number \in DOMAIN blocks /\ blocks[b.number] = b.fork

(* batchCount as an eth_call pinned to block n answers it. *)
CountAt(n) == Cardinality({id \in DOMAIN anchored : anchored[id].block <= n})

ChainInit ==
    /\ blocks = <<0>>       \* block 1 deploys the contract
    /\ fork = 0
    /\ anchored = <<>>
    /\ calls = {}

(* Mutant: the number of the parent block is recorded. *)
AnchorBatchParent(call) ==
    /\ Len(blocks) < MaxHeight
    /\ call.id = Len(anchored) + 1
    /\ Len(call.records) \in 1..BatchLimit
    /\ anchored' = Append(anchored, [records |-> call.records, block |-> Len(blocks)])
    /\ UNCHANGED <<blocks, fork, calls>>

(* anchorBatch executes in the block under construction; a call that does  *)
(* not extend the log by one reverts and changes nothing.                  *)
AnchorBatch(call) ==
    /\ Len(blocks) < MaxHeight
    /\ call.id = Len(anchored) + 1
    /\ Len(call.records) \in 1..BatchLimit
    /\ anchored' = Append(anchored, [records |-> call.records,
                                     block   |-> Len(blocks) + 1])
    /\ UNCHANGED <<blocks, fork, calls>>

Seal ==
    /\ Len(blocks) < MaxHeight
    /\ blocks' = Append(blocks, fork)
    /\ UNCHANGED <<fork, anchored, calls>>

(* The blocks above h, and the storage they wrote, are gone; the dropped   *)
(* calls are still signed and may be executed again.                       *)
Reorg(h) ==
    /\ fork < MaxReorgs
    /\ fork' = fork + 1
    /\ blocks' = SubSeq(blocks, 1, h)
    /\ anchored' = SubSeq(anchored, 1, CountAt(h))
    /\ UNCHANGED calls

ChainStep ==
    \/ \E call \in calls : AnchorBatch(call)
    \/ Seal
    \/ \E h \in 1..(Len(blocks) - 1) : Reorg(h)
=============================================================================
