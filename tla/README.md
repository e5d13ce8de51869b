# Verification of TRUST404

TRUST404 lets an institution answer loan requests off chain in a way anybody can
check. Requests and decisions are signed records; batches of up to 32 records are
committed on chain by their Merkle root, requests first; a decision names the place
and the block in which its request was anchored (`receiptRef`) and the chain state
of that block (`stateHash`). An auditor with an RPC node, the published trust
profile and the public archive recomputes everything.

This directory models that program in TLA+, checks small instances with TLC and
proves the main safety properties with TLAPS. Paths below are relative to the
repository; `src/storage/store.js` is the file of that name under `src/`.

## Inventory

| Part | State | Operations | Hard part | What makes it correct |
|---|---|---|---|---|
| `contracts/RecordAnchor.sol` | `batchCount`, `batches` | `anchorBatch` | its blocks may be reorganised away | ids without gaps, 1 to 32 records |
| `contracts/CreditState.sol` | collateral and debt | `setAccountState` | read at a past block | the state of a block is a function of the block |
| `src/storage/store.js` | tables `entries`, `batches`, `blobs`; files `batch-*.json`, `blob-*.json` | `submit`, `prepare`, `decide`, `exportBatch`, `item`, `bundle` | the chain moves between two awaits; a crash between table and file | nothing committed unpublished, no two contents for an id, no record lost or twice, answers after questions |
| `src/server/server.js` | the mutation queue | three POST routes, evidence GET routes | concurrent requests | handlers do not interleave |
| `src/operator/run.js` | request files, `tx-*.json` journals, `budget.json`, `operator.lock` | `request`, `cycle`, `register`, `transact` | crash, timeout, resend, nonce, fees | one transaction per batch, every request answered |
| `src/operator/aomi.js` | session journals `aomi-batch-*.json` | `attachAomi`, `executeAomiBatch` | a remote party, lost answers, expiring actions | only the authorized call is signed, a batch is submitted once, sessions end |
| `src/verifier/` | none | `verifyOne`, `auditAll`, `auditView` | untrusted archive, moving chain, many failure codes | a verdict of ok is true, an honest log gets it, verifiers agree |
| `src/chain/reader.js`, `rpc-runtime.js` | batches a view has read, the last 256 balances | `at`, `count`, `block`, `batch`, `balance`, `creditState`, `assertCanonical` | one view is many requests, some pinned to a hash, some by number | a view is about one chain |
| `src/policy/policy.js` | none | `evaluate`, `evaluatePolicy`, `makeDecision`, `validateDecision` | boundaries of integers, rounding | maker and checker compute the same, and what the rules say |
| `src/common/merkle.js` | none | trees, proofs, their verification | boundaries of tree sizes | a proof shows the record, its leaf and the size of the tree |
| `src/common/crypto.js` | none | canonical JSON, hashes, signatures | | ideal here |
| `demo/portal/server.js` | `jobs.sqlite` | request, retry, pump, restart | child processes that outlive or are killed by the portal | one job at a time, in order |
| `demo/`, `scripts/`, `src/cli.js` | none of their own | demonstrations, command line | | not modelled |

The parts interact as follows. Producers put request files down; the daemon (or the
HTTP server) submits them to the store, which freezes batches and hands out anchor
calls; the daemon signs and sends them; the contract records them. The store then
decides each anchored request from the state at the end of the anchoring block, and
the decisions are anchored like any record. The verifier shares only the contract
and the archive files with all this. Instead of signing for itself, the command
`aomi-submit` has a remote agent stage the anchor call and signs what the agent asks
it to; the portal queues such commands one after another.

## Modules

* `RecordAnchor` - the contract on a chain. `blocks[n]` is the fork block `n` was
  sealed in, and the pair stands for its hash, so a dropped hash never returns.
  `anchored` is the contract's storage, `calls` the calls that were handed out.
  `AnchorBatch` is `anchorBatch`; a transaction executes in the block being built,
  `Seal` finishes the block and `Reorg` drops all blocks above a height with what
  they wrote. The Merkle root is the record list itself.
* `EvidenceStore` - `store.js`. `entries`, `batches`, `blobs` are the tables,
  `archive` and `archiveBlobs` the files. `op` is the handler in progress with its
  local variables: there is at most one, because the server queues mutations
  (`server.js`, `mutationQueue`) and the daemon awaits them in turn. `prepare` is
  `PrepareRead` (all reads pinned to one block hash), `Freeze` (the SQLite
  transaction), `ExportBlob` and `ExportBatch` (one file each), `PrepareReturn` (the
  last `assertCanonical`). `decide` is `DecideRead`, the same export, `Evaluate`,
  `DecideCheck`, `DecideCommit`. Between two of them the chain does what it likes.
  `Interrupt` is every failed check, error and crash: memory is lost, disk is kept.
  `bundle` only reads.
* `CommitmentLog` - what the store promises, without tables, files or handlers: an
  append-only log of batches; a batch is appended only when all earlier ones are
  public; answers come after questions; the chain confirms a prefix of the public
  batches and may take confirmations back. `EvidenceStore` instantiates it with
  `log <- batches`, `public <- DOMAIN archive`, `tip <- Len(anchored)`.
* `Operator` - the worker loop of `run.js`, extending `EvidenceStore`: every step the
  store takes is an action of that module taken where the loop calls it. `phase` is
  the place in `cycle`; `tx` is `transact` with its local variables; `journal`,
  `spent`, `lock`, `files` are files. `network` holds what was ever sent, `executed`
  what the chain has executed of the publisher, in nonce order. The nonce is the one
  the node proposes (`ProposedNonces`): the next on its chain, or the next behind the
  transactions its pool may still hold. `Retry` is a check of the code that fails,
  `Fault` an error of the world, `Crash` the end of the process.
* `Audit` - the verifier. The institution is replaced by `Publish`, which anchors any
  sequence of records of a small universe of good and bad ones, so the model covers
  every institution that could produce such a log. The archive answers every read
  with the truth, an altered batch or snapshot, or nothing. `OpenView`, `LabelView`,
  `ChooseView` are `ChainReader.at` and `auditView` split at their RPC calls,
  `BeginAudit`, `ReadBatch`, `CheckDecision`, `Report` are `auditAll`. `PairChecks`
  lists the checks of `checkPair` and `validateDecision` in the order in which they
  throw; it is shared by `auditAll` and `VerifyOne`, as in the code. A node that fails
  inside the check of a decision makes that decision `RPC_UNAVAILABLE` and the audit
  goes on, incomplete (`src/verifier/verify.js:293-299`); anywhere else it ends the audit
  (`Abandon`). When the node answers, it answers truly: a malformed answer
  (`INVALID_STATE`) is left out.
* `JobQueue` - the portal. `jobs` is its table in order of acceptance, `current` the
  child `execute` waits for, `children` all operator processes, orphans included.
  `pump` runs before anything else can when a handler calls it, so `Pump` is part of
  `Post`, `Retry`, `Finish` and `Restart`. A child is `run.js aomi-submit` reduced to
  what the portal can tell: the lock, the recorded request, the cycle that answers
  everything recorded (`Operator` has its inside), the export folder. It stands alone;
  only the lock and the files are shared with `Operator`.
* `ChainView` - the chain reader, one JSON-RPC request a step, on a node that moves
  among the leaves of a tree of blocks, forks that share numbers, times and batches
  included. `proc` is the procedure in progress: `decide` (without what the store
  does with the decision, which is in `EvidenceStore`) or `verifyOne` on a bundle that
  may hold anything. `metas` is the view's cache of batches, `reads` the reader's cache
  of balances. A request pinned to a hash (`requireCanonical`) needs a `Live` block;
  one by number gets a block of whatever chain the node is on. `dropped` and `returned`
  are history. The records, proofs and decisions are those of `Merkle` and `Policy`.
* `Merkle` - trees, proofs and `VerifyProof` of `merkle.js` over an injective hash:
  recursive functions over the size of a subtree, and then over where it starts.
  `Path` is the recursion `traverse`, `Climbed` the loop of `verifyProof`.
* `Policy` - `evaluate` and `evaluatePolicy` with their arithmetic.
* `Aomi` - `executeAomiBatch` and `attachAomi` as the command `aomi-submit` runs them:
  `pc` and `cur` are the place in the code and the batch, `journal` the files
  `aomi-batch-*.json`, `signed` and `sent` the transaction's own journal and the
  network. `server` is the agent's side, and `wire` what a client that is gone had
  sent. The agent stages what it likes, ends its turn, forgets or expires actions.
  The inside of `transact` is `Operator`'s, and its chain drops no block.
* `MCEvidenceStore`, `MCOperator`, `MCAudit`, `MCJobQueue`, `MCChainView`, `MCAomi` -
  constants for TLC.
* `EvidenceStoreProofs`, `OperatorProofs`, `JobQueueProofs`, `AomiProofs`,
  `MerkleProofs`, `ChainViewProofs`, `AuditProofs` - the theorems about these modules;
  `NumberFacts` - two facts about sets of numbers they share. `OperatorProofs` extends
  `EvidenceStoreProofs`, as `Operator` extends `EvidenceStore`, and `ChainViewProofs`
  extends `MerkleProofs`, as `ChainView` extends `Merkle`.

Mutated forms of some definitions stand before them, marked "Mutant": plausible bugs
that the properties must and do notice.

## Properties and runs

`StoreReorg.cfg` (two requests of one borrower, batches of two, four blocks, one
reorganisation): what the store guarantees on any chain. `AnchoredIsPublished`: a
call for a batch leaves `prepare` only when the file of the batch and the snapshots
its decisions refer to are public. `NoEquivocation`: one content per batch id, also
when a reorganisation has it anchored again. `FrozenPartition`: the two tables agree,
no record twice. `FirstComeFirstAnchored`: no record overtakes an older one.
`CommitmentFirst`: a decision is batched after the request at the leaf its receipt
names. `SnapshotsKept`: no decision without its snapshot, which would make
`exportBatch` throw for ever. `HistoryIsImmutable`: nothing recorded is rewritten.
`ImplementsLog`: the refinement.

`StoreSteady.cfg` (no reorganisation, one request over the limit, which is decided
without a snapshot): `ReceiptsHold` (the batch anchored under the id of a receipt holds
the request at the receipt's leaf and was anchored in its block) and `EventOrder`. Both
fail on a chain that drops blocks, by design of the receipts; that is why they have a
run of their own.

`OperatorCrash.cfg` (two requests, batches of one, one crash or stop, one error):
`NothingReverts`, `OutcomesKnown`, and, under fairness, `RequestsAnswered`: every
request file is decided and its decision anchored.

`OperatorReorg.cfg` (two requests in batches of two, one reorganisation, one crash,
one error): whatever was sent is journaled and paid for (`JournalCoversNetwork`), the
journal still fits whatever is prepared again (`JournalFits`), the budget holds
although a cycle may break off anywhere (`OperatorTypeOK`), the loop never decides a
request twice even when receipts change (`SingleDecision`), and it is a correct user
of the store (`UsesStore`: each of its steps is a step of `EvidenceStore` or leaves
the store alone, so everything proved of the store holds under the daemon).

`AuditVerdict.cfg` (any log of three one-record batches out of ten records, two
states, one altered export, any snapshot): `AuditSound` compares the verdict with
`Clean`, which says what a log should be without mentioning the audit;
`NoFalseAlarm` is the converse for an honest archive: nothing is late, there is no issue
but `RPC_UNAVAILABLE`, and the verdict is ok exactly when there is none of these either.
`VerifiersAgree` relates `verifyOne`, on a node that answers, and `auditAll`.
`AuditReorg.cfg` (two audits of two batches while blocks are sealed, finalized and
dropped; an answer in the last block is in time for a request in block 3 and late for one
in block 2): the verdicts of views that stand and of `FINALIZED` labels (`FinalIsFinal`).
`VerdictStands`: a log with a fault (`Accuses`: something late, or an issue that is not
one of `OPERATIONAL_ERRORS`) does not become good by growing. An audit that is not ok
for want of the node or of data accuses nobody, and a later one may well say ok.

`PortalJobs.cfg` (three jobs, two of them open at a time, two attempts, one crash or
stop, one kill, one error): `OneWriter` (the lock keeps a new child and an orphan
apart), `DoneInOrder` (failures pause the queue, so nothing overtakes), `OneRunning`
(table and memory agree after a restart), `DoneIsAnswered`, `AttemptsBounded` (only
restarts add to the limit) and, under fairness, `JobsEnd`: an accepted job is done
unless some job used up its retries, which pauses the portal for good by design.

`ViewReads.cfg` (seven blocks in four forks, three of which compete at one number;
two of these share time and batch and differ in the state of the borrower; a cache
of one balance; two changes of the node's head; two procedures in a row, on either
policy, with eight bundles each, good ones and bad ones): `EvidenceTrue` says of what
`verifyOne` accepts, and of a decision that is made, that the request is at the leaf
the receipt names on the view's own chain and that the outcome is the one the policy
gives in the receipt's block, put without the rounding division of the code
(`Eligible`); `OneChain` is the comment at `src/chain/reader.js:67`, "Guarantees
consistency against reorgs", which the second look at the view gives, unless a block
the node had dropped comes back in between (`returned`); `HonestAccepted`: a bundle as
the store exports it fails only for an operational reason. The exception in it is
real: when the view is dropped between two reads, an honest bundle may meet headers of
another fork and be refused with a code that is not operational, such as
`RECEIPT_MISMATCH`.

`AomiBatch.cfg` (two batches, two actions of the agent in all, one crash, lost message
or timeout): `SignedIsRequested` (the signer signs nothing the agent did not ask for
in the authorized form, on disk), `SubmittedOnce` ("A lost response must not start a
second execution"), `OneOpenJournal` (earlier batches first) and, under fairness,
`BatchEnds`: if the command is always run again (`KeptRunning`), a batch that was begun
is confirmed, unless its session is exhausted. The exception is the code's:
`turnAttempts` is never reset, and the `eth_call` before another turn is asked for
reverts once the batch is on the chain (`src/operator/aomi.js:128`), so a session that
ended without an acknowledgement after the execution, and for which no repair is due
(`RepairDue`), is a dead end for every later run. The condition is a condition, not
something the program gives: every action that expired or is not the authorized one
costs a run, and who stops running the command leaves the batch unconfirmed.

Three runs show where a statement of the repository does not hold:

* `NonceReuse.cfg` - the comment at `src/operator/run.js:114`, "never allocate another
  nonce while their outcome is unknown". A reorganisation between `estimateGas` and
  the choice of the nonce breaks it: `OutcomesKnown`, which holds without
  reorganisations. The trace ends when the nonce is taken, while the one transaction in
  the journal has lost its receipt.
* `CrashLock.cfg` - the README's crash recovery. `operator.lock` survives a crash and
  nothing in the program removes it: `ComesBack`.
* `StaleReceipt.cfg` - the README's receipt that points at the request's position on
  chain. A decision made before its request was mined again elsewhere is never
  replaced: `ReceiptsEndTrue`.

### Bounds

`MaxHeight`, `MaxReorgs`, `MaxStops`, `MaxFaults`, `MaxBatches`, `MaxAudits` bound
how far the chain grows and how often things go wrong; `BatchLimit` is 32 in the code.
Four or five blocks hold a request, its decision and a competing history of both;
limits of one and two make the remainder of a full batch happen with two requests;
one reorganisation between any two steps is enough to make every value read before it
stale, and the theorems hold for any number. Systems bounded this way stop when the
last block is sealed, hence `CHECK_DEADLOCK FALSE`.

`MaxReads` is 256 in the code: a cache of one already forgets and reuses. The tree of
`MCChainView` has the least forks that differ in each of the things a fork can differ
in, so that every check of `verifyOne` is the only one to notice some bundle or move.
`MaxActions` counts what the agent asks for over all batches; a second action is what
a second execution would need.

The USDC policy's snapshot names its request (`OwnSnapshots`); snapshots of the credit
policy are shared by requests of one borrower (`OneBorrower`).

### Fairness

`FairOperatorSpec` asks that the daemon continues what it can do (it is a sequential
loop that ends no cycle of its own accord and bounds every wait), that a stopped
daemon is started, that a lock left by a crash is cleared by a person (`LockCleared`;
`CrashLock.cfg` shows what happens otherwise), that the network executes what it was
sent and seals blocks. Nothing makes producers produce, processes crash, nodes fail or
blocks vanish. The last block of a bounded chain and the daily budget are set high
enough in `OperatorCrash.cfg` for all transactions to fit.

`FairSpec` of `JobQueue` asks that each child process runs on, that the server notices
its end and is started again, that people retry failed jobs, which the portal's page
offers, and that they remove the lock of a process that is gone, which nothing in the
portal tells them to: without that, `operator.lock` makes every retry fail, and `JobsEnd`
does not show this. A child the server has to kill is within `TimeOut`.

`Fairness` of `Aomi` asks that the command goes on while it can, that what was sent is
executed, and that the server takes or drops what it was sent, lets a pending action
expire and ends a turn. Nothing makes the agent ask for anything, and nothing makes the
command run again: the portal marks a job that failed and pauses its queue
(`demo/portal/server.js:37`, `:42`), a person may retry it until it has had three
attempts (`:107`), and a command that died leaves `operator.lock`
(`src/operator/run.js:20-21`) until a person removes it. So that somebody does run it
again stands in `BatchEnds` as its condition, `KeptRunning`; the portal alone does not
meet it.

## Proofs

All theorems are for every value of the constants (those about a steady chain for
`MaxReorgs = 0`, and any value of the others), from the named assumptions only:

| Assumption | What it says | Why |
|---|---|---|
| `ChainAssumption` (of `RecordAnchor`), `StoreAssumption`, `OperatorAssumption`, `AomiAssumption` | the bounds are numbers, the sets what they are called | |
| `JobAssumption` | in particular `"none"`, the model's null, is no job id | an id has 8 characters or more |
| `AuditAssumption` | every block has a state, later blocks later times | the chain |
| `BoundAssumption` | the reader keeps at least one balance; the bounds are numbers | 256 in `reader.js` |
| `ChainAssumption` (of `ChainView`) | the blocks form chains without gaps, one block a number | the chain |
| `AnchorsAssumption` | an anchored batch has 1 to 32 records, and the number and the time of a block of the chain it is read from | `RecordAnchor.sol:31`, `:32` |
| `FiguresAssumption` | balances, debts, amounts and the figures of a policy are natural numbers; of amounts, those in records that pass `validateRequest` or are the institution's own; its own batch has 1 to 32 records | `uint256`; `integer` in `src/common/crypto.js`; `prepare` |
| `NoneAssumption` | a snapshot is not null | it is an object |

### The store

`EvidenceStoreProofs` proves that `Spec` implies `[]TypeOK`, `HistoryIsImmutable`,
`[]AnchoredIsPublished`, `[]NoEquivocation`, `[]FrozenPartition`,
`[]FirstComeFirstAnchored`, `[]CommitmentFirst`, `[]SnapshotsKept` and
`ImplementsLog`. The argument goes in layers, each inductive with the ones below it.

1. `TypeOK` is inductive; immutability follows step by step.
2. Publication. A call is created from an archived batch, and an archive file, once
   there, never changes; so calls, and what they anchor, agree with the archive. For
   this the handler has to be part of the invariant: in `confirm` the batch it is
   about to hand out is archived with its snapshots. One content per id follows,
   because both contents equal the same archive file.
3. Tables. `FrozenPartition` and `FirstComeFirstAnchored` need that batch ids are
   `1..n`, that all batches but the last are archived, and that the id in a `freeze`
   handler is at most `n + 1`: it was read from the chain, whose batches are all
   archived, possibly before a reorganisation and never after another freeze.
4. Answers. The receipt a `decide` handler carries names a leaf of a batch that is
   archived; batches never change, so it stays true, and a decision that is frozen
   later gets a larger id.
5. Refinement. Freezing is `Close`, exporting a new file is `Publish`, anchoring is
   `Confirm`, dropping blocks is `Rollback`, and everything else stutters; that
   `Close` finds all earlier batches public is layer 3.
6. A steady chain. `ReceiptsHold` and `EventOrder` are proved with `MaxReorgs = 0`,
   without which they are false (`StaleReceipt.cfg`): the receipt of a decision, also
   of one in the making, names a block that stands (`SteadyInv`). That the batch anchored
   under the receipt's id holds the request at its leaf follows from layers 2 and 4: what
   is anchored is the archived batch, and the archived batch the local one.

### The daemon

`StoreUsed` needs one fact, that every call in memory, journal or network was handed
out by `prepare`. With it the theorems of the store hold of the daemon: `JournalFits`
is the store's `NoEquivocation` seen from the journal. `JournalCoversNetwork` and the
budget (`OperatorTypeOK`) need what each step of `transact` has done before the next
(`TxOK`): no journal while a nonce is taken, a journal before a transaction is sent, a
fee booked ahead of the journal (`Booked`). `SingleDecision` is false of the store
alone, whose `decide` would decide again under a new receipt; the loop's list is what
prevents it (`DecisionInv`: those to be decided, and the one being decided, have no
decision, and nothing but the loop decides). `DaemonKeepsLog`, `DaemonIsSafe` and
`DaemonReceiptsStand` put together what follows for the running system: it implements
`CommitmentLog`, and keeps every invariant of the store.

On a chain that drops no block, `MaxReorgs = 0`, `NothingReverts` and `OutcomesKnown` are
proved too; `NonceReuse.cfg` shows the second to fail otherwise. Batch and nonce are then
the same number, and at most the last transaction in the journal is not in a sealed block:
`estimateGas` lets only the batch after the sealed ones through, which is in the journal
when it is pending (`NonceInv`). So a node has nothing to propose but the number of the
batch.

### The portal

`QueueInv` holds together what the table, the server's memory, the processes and the
files know. `DoneInOrder` alone is not inductive: all rows before one that has left the
queue must be done (`TableOK`), which `pump` keeps because it starts the first queued
row, and none when one has failed. `DoneIsAnswered` needs the files behind each step of
a child (`FilesOK`), `AttemptsBounded` that only a restart puts a running job back
(`AttemptsOK`), `OneRunning` that the child waited for is that of a row (`MemoryOK`).

### The agent

`SubmittedOnce` depends on what is true of sessions nobody looks at any more: the server
has, or may still get from the wire, only results of the oldest action that had not been
withdrawn, for a batch whose receipt is journaled (`Reported`), and what the client saw
of a session stays true of it (`Follows`). So an action after a submitted one is never
executed, and two submissions would both be oldest. `TypeOK`, which is proved here and is
not among the checks of a run, covers the journals, both sides' view of the sessions and
the wire; that the action being executed or reported
exists is `Oldest`, and the bound on `attempts` comes from the guard of `Retry`.

### The tree

`MerkleProofs` is about every batch of 1 to 32 records and every proof, and uses no TLC
bound. `RootBinds`: the root of a batch, with its count, determines its records.
`InclusionSound`: what `verifyProof` accepts against the root and the count of a batch is
the record at that index, whoever made the proof; going up the tree with the sides the
count prescribes can only have started at that leaf (`ClimbDown`). `InclusionComplete`:
the path `buildTree` returns is accepted, because the sides `verifyProof` computes from
index and count are the ones the tree yields (`PathLeads`). That a record is not taken
for the two hashes of a branch, nor the reverse, is what the tags of `Leaf` and `Branch`
stand for.

The library's induction rules cannot be instantiated by the provers, and a recursive
function of TLA+ is a CHOOSE that might choose nothing. Both are dealt with by hand:
`StrongInduction` is about a set of sizes, by its least missing element, and
`TreeExists` shows, the size being bounded, that functions that satisfy these recursions
exist, so that `SubtreeEquation`, `PathEquation`, `DirectionsEquation` and
`ClimbedEquation` give the recursions back as facts.

### The reader

`OneChain`: while the node keeps the view, every header read by number is one the view
descends from; a view that was dropped cannot be found canonical later, unless a dropped
block came back (`ViewInv`). `ApprovesEligible`: both policies approve exactly what their
rules say without division, for all naturals.

`EvidenceTrue` and `HonestAccepted` need what a procedure has found out by the time it is
at a given step (`TruthInv`, inductive together with `ViewInv`; TLC finds both invariant
on `ViewReads.cfg` too):

* `BatchesOK`: what is known of a batch is the view's struct of it, and the hash of some
  block of that number and time; the block need not be on the view's chain.
* `StateOK`: the state in hand is that of the receipt's block. A kept balance is, because
  the reader keeps balances by block hash (`Balances`), and one that is read is pinned.
* `CheckedOK`: each check that lies behind the procedure still has the outcome it had;
  nothing that is read later changes what it was about.

At the end `InclusionSound` turns the checked proofs into leaves of the view's batches,
`RootBinds` turns the equal roots of `CheckLocal` into equal records, and
`ApprovesEligible` the equal outcomes into the policy's rule. That makes `EvidenceTrue`
hold of any bundle and any movement of the node, with no exception for returned blocks:
the verdict is true of the receipt's block even then, and `OneChain` alone is lost.

For `HonestAccepted`, each step at which an error is thrown is shown not to throw it for
an honest bundle on a view that was not dropped (`Fair`): the header asked for by number
is then on the view's chain and fits (`HeaderFits`), `InclusionComplete` makes the proofs
pass (`FairIncluded`), the receipt's block is the block the decision was made in, so that
`makeDecision` of the same state is what is compared (`FairDecision`, `FairPaired`,
`FairJudged`).

### The verifier

`AuditInv` says of an audit in progress that, as long as its view stands, the part of the
log it has read is the log committed there, but for what it could not read (`ScanOK`), and
of a report what it must say of a log that still stands (`Judged`). Both survive steps of
the chain because anchoring writes only above every view (`Stays`), and a block dropped
never returns (`Known`). `FinalIsFinal` needs that the finality in hand was read before
the view was found canonical again. A check of a right decision, all else being honest,
ends in `VALID` or in `RPC_UNAVAILABLE` (`CheckOK`, `Pardoned`), so the report of a clean
log has no other issue. `VerdictStands` follows from the other two verdict theorems and
from `CleanBefore`: a log clean up to a block was clean up to any earlier one, which needs
that block times increase, or a request could be late before and on time later. Were the
later audit right to say ok, the log was clean at the earlier one, which then found
nothing late and nothing but an operational error.

### Only model-checked

Liveness (`RequestsAnswered`, `JobsEnd`, `BatchEnds`), which needs ENABLED and is out of
the prover's reach. Every invariant and every other action property that a passing run
checks is a theorem. The three runs that find a violation are counterexamples, not proofs.

## Not modelled

* Bytes: canonical JSON, hashes and signatures are ideal, records are what a valid
  record says, an invalid one is marked so. `validateTrust` and `validateScope` check
  shapes of configuration; `derived` figures of a decision repeat its inputs.
* HTTP: authentication, parsing, upload limits, pages, downloads. `connectAomi`'s login
  either gives a session or ends the command before anything is done.
* `stageAndBroadcast` of `rpc-runtime.js`, used by a local demonstration; `init` and
  `deploy`, which run once before the daemon; `setAccountState`, the owner's own affair.
* `bundle` choosing the oldest decision (`src/storage/store.js:254`): it exports what
  `verifyOne` then refuses after a reorganisation. `StaleReceipt.cfg` shows that decision
  on the chain; there is no property the code keeps here.
* Two producers given one idempotency key at once (`src/operator/run.js:139`).
* The command line, scripts and demonstrations: they call the modelled parts in a fixed
  order and keep no state of their own.

## State of the plan

The modules planned are there: the algorithms became `Merkle` and `Policy`, checked where
`ChainView` uses them, on trees of one, two, three and ten leaves, and proved for all.
Not done is an audit over the very log an `EvidenceStore` produces: `Audit` takes any log
an institution could commit, so its verdicts cover that one too, and what would be new,
that an honest institution's log is clean but for lateness, is on the store's side
`CommitmentFirst`, `EventOrder`, `SingleDecision` and `ReceiptsHold`.
