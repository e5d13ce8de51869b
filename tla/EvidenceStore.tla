---------------------------- MODULE EvidenceStore ----------------------------
(***************************************************************************)
(* The evidence store (storage/store.js) at work: SQLite tables, public    *)
(* archive files, and the prepare and decide handlers that alternate with  *)
(* the chain at every await.                                               *)
(*                                                                         *)
(* Mutations run one at a time: the HTTP server queues them                *)
(* (server/server.js, mutationQueue) and the operator awaits them in turn. *)
(* `op' is the handler in progress; it lives in memory only.               *)
(***************************************************************************)
EXTENDS RecordAnchor

CONSTANTS
    Requests,    \* request ids with a valid signed record
    Oversize,    \* those over the policy limit: decided without reading state
    Subject      \* Subject[r]: what a snapshot is about, besides its block:
                 \* the borrower under credit-ltv-v1, whom requests may share;
                 \* r itself under usdc-reserve-v1

ASSUME StoreAssumption == Oversize \subseteq Requests

VARIABLES
    entries,       \* table entries, in seq order; batch 0 is SQL NULL
    batches,       \* table batches: id -> frozen records
    blobs,         \* table blobs: the state snapshots kept
    archive,       \* archive files batch-<id>: id -> records
    archiveBlobs,  \* archive files of state snapshots
    op             \* the mutation handler in progress

storeVars == <<entries, batches, blobs, archive, archiveBlobs>>
vars == <<chainVars, storeVars, op>>

-----------------------------------------------------------------------------
(* Records, receipts and snapshots *)

RequestRecord(r) == [kind |-> "REQUEST", req |-> r]

(* receiptRef: where, and in which block, the request was anchored. *)
DecisionRecord(r, ref) == [kind |-> "DECISION", req |-> r, ref |-> ref]

Decisions == {i \in DOMAIN entries : entries[i].rec.kind = "DECISION"}

(* The snapshot a decision commits to by stateHash; none when it is null. *)
SnapshotOf(rec) ==
    IF rec.kind = "REQUEST" \/ rec.req \in Oversize
    THEN {}
    ELSE {[subject |-> Subject[rec.req], block |-> rec.ref.block]}

SnapshotsOf(records) == UNION {SnapshotOf(records[k]) : k \in DOMAIN records}

Recorded(rec) == \E i \in DOMAIN entries : entries[i].rec = rec

Insert(rec) == entries' = Append(entries, [rec |-> rec, batch |-> 0])

Extend(table, id, value) ==
    [k \in DOMAIN table \cup {id} |-> IF k = id THEN value ELSE table[k]]

Idle == [pc |-> "idle"]

-----------------------------------------------------------------------------
(* submit *)

(* A request id seen before answers duplicate: true and changes nothing. *)
Submit(r) ==
    /\ op = Idle
    /\ ~Recorded(RequestRecord(r))
    /\ Insert(RequestRecord(r))
    /\ UNCHANGED <<chainVars, batches, blobs, archive, archiveBlobs, op>>

-----------------------------------------------------------------------------
(* prepare *)

(* Mutant: the next id is the one after the count, not the count plus one. *)
PrepareReadZero ==
    /\ op = Idle
    /\ op' = [pc |-> "freeze", view |-> Latest, id |-> CountAt(Len(blocks))]
    /\ UNCHANGED <<chainVars, storeVars>>

(* Mutant: the next id is taken from the local table, not from the chain. *)
PrepareReadLocal ==
    /\ op = Idle
    /\ op' = [pc |-> "freeze", view |-> Latest, id |-> Cardinality(DOMAIN batches) + 1]
    /\ UNCHANGED <<chainVars, storeVars>>

(* The reads of prepare are pinned to the hash of one block, so they give  *)
(* what that block says or fail: they are taken together here, and failing *)
(* later is Interrupt.  The guard is ANCHOR_MISMATCH.                      *)
PrepareRead ==
    LET count == CountAt(Len(blocks)) IN
    /\ op = Idle
    /\ \A id \in DOMAIN batches :
          id <= count => anchored[id].records = batches[id]
    /\ op' = [pc |-> "freeze", view |-> Latest, id |-> count + 1]
    /\ UNCHANGED <<chainVars, storeVars>>

Pending == {i \in DOMAIN entries : entries[i].batch = 0}

(* Mutant: without ORDER BY seq. *)
AnyPending(rows) == \A j, k \in DOMAIN rows : j < k => rows[j] < rows[k]

(* SELECT ... WHERE batch_id IS NULL ORDER BY seq LIMIT BatchLimit *)
OldestPending(rows) ==
    /\ \A j, k \in DOMAIN rows : j < k => rows[j] < rows[k]
    /\ \A i \in Pending :
          \/ \E k \in DOMAIN rows : rows[k] = i
          \/ Len(rows) = BatchLimit /\ \A k \in DOMAIN rows : rows[k] < i

(* Mutant: the batch is inserted, its rows are not stamped. *)
FreezeRowsUnstamped(rows) ==
    /\ batches' = Extend(batches, op.id, [k \in DOMAIN rows |-> entries[rows[k]].rec])
    /\ UNCHANGED entries

(* One SQLite transaction: insert the batch, stamp its rows. *)
FreezeRows(rows) ==
    /\ batches' = Extend(batches, op.id, [k \in DOMAIN rows |-> entries[rows[k]].rec])
    /\ entries' = [i \in DOMAIN entries |->
                      IF \E k \in DOMAIN rows : rows[k] = i
                      THEN [rec |-> entries[i].rec, batch |-> op.id]
                      ELSE entries[i]]

(* Mutant: a frozen batch is frozen again. *)
FreezeAgain ==
    /\ op.pc = "freeze"
    /\ \E n \in 1..BatchLimit : \E rows \in [1..n -> Pending] :
          OldestPending(rows) /\ FreezeRows(rows)
    /\ op' = [op EXCEPT !.pc = "prepare.export"]
    /\ UNCHANGED <<chainVars, blobs, archive, archiveBlobs>>

(* Nothing rechecks the view here: the chain may have moved since the read. *)
Freeze ==
    /\ op.pc = "freeze"
    /\ IF op.id \in DOMAIN batches
       THEN UNCHANGED <<entries, batches>>
       ELSE \E n \in 1..BatchLimit : \E rows \in [1..n -> Pending] :
               OldestPending(rows) /\ FreezeRows(rows)
    /\ op' = [op EXCEPT !.pc = "prepare.export"]
    /\ UNCHANGED <<chainVars, blobs, archive, archiveBlobs>>

(* Mutant: the call is built from the newest batch of the table. *)
PrepareReturnNewest ==
    /\ op.pc = "confirm"
    /\ Canonical(op.view)
    /\ LET newest == Cardinality(DOMAIN batches) IN
       calls' = calls \cup {[id |-> op.id, records |-> batches[newest]]}
    /\ op' = Idle
    /\ UNCHANGED <<blocks, fork, anchored, storeVars>>

(* prepare ends by handing out the anchor transaction, if its view is      *)
(* still canonical.  The caller may send the call at any time, or never.   *)
PrepareReturn ==
    /\ op.pc = "confirm"
    /\ Canonical(op.view)
    /\ calls' = calls \cup {[id |-> op.id, records |-> batches[op.id]]}
    /\ op' = Idle
    /\ UNCHANGED <<blocks, fork, anchored, storeVars>>

-----------------------------------------------------------------------------
(* exportBatch, called by prepare and by decide *)

Exporting ==
    /\ op.pc \in {"prepare.export", "decide.export"}
    /\ op.id \in DOMAIN batches                              \* BATCH_UNAVAILABLE

(* One archive.put of a snapshot file; a missing blob row would throw. *)
ExportBlob ==
    /\ Exporting
    /\ \E snapshot \in SnapshotsOf(batches[op.id]) \ archiveBlobs :
          /\ snapshot \in blobs
          /\ archiveBlobs' = archiveBlobs \cup {snapshot}
    /\ UNCHANGED <<chainVars, entries, batches, blobs, archive, op>>

(* Mutant: the batch file does not wait for the snapshots. *)
ExportBatchFirst ==
    /\ Exporting
    /\ archive' = Extend(archive, op.id, batches[op.id])
    /\ op' = IF op.pc = "prepare.export"
             THEN [op EXCEPT !.pc = "confirm"]
             ELSE [op EXCEPT !.pc = "evaluate"]
    /\ UNCHANGED <<chainVars, entries, batches, blobs, archiveBlobs>>

(* The batch file comes last; an existing file must hold the same bytes    *)
(* (ARCHIVE_CONFLICT).  decide goes on only if the anchor it read is that  *)
(* of the local batch (ANCHOR_MISMATCH).                                   *)
ExportBatch ==
    /\ Exporting
    /\ SnapshotsOf(batches[op.id]) \subseteq archiveBlobs
    /\ op.id \in DOMAIN archive => archive[op.id] = batches[op.id]
    /\ archive' = Extend(archive, op.id, batches[op.id])
    /\ op' = IF op.pc = "prepare.export"
             THEN [op EXCEPT !.pc = "confirm"]
             ELSE IF op.meta.records = batches[op.id]
                  THEN [op EXCEPT !.pc = "evaluate"]
                  ELSE Idle
    /\ UNCHANGED <<chainVars, entries, batches, blobs, archiveBlobs>>

-----------------------------------------------------------------------------
(* decide *)

(* Mutant: the receipt names the wrong leaf. *)
DecideReadFirstLeaf(r, n) ==
    /\ op = Idle
    /\ \E i \in DOMAIN entries :
          LET id == entries[i].batch IN
          /\ entries[i].rec = RequestRecord(r)
          /\ id \in DOMAIN anchored /\ anchored[id].block <= n
          /\ op' = [pc |-> "decide.export", view |-> Hash(n), id |-> id,
                    meta |-> anchored[id],
                    rec |-> DecisionRecord(r, [batch |-> id, leaf |-> 1,
                                               block |-> Hash(anchored[id].block)])]
    /\ UNCHANGED <<chainVars, storeVars>>

(* Mutant: the receipt names the block of the view. *)
DecideReadView(r, n) ==
    /\ op = Idle
    /\ \E i \in DOMAIN entries :
          LET id == entries[i].batch IN
          /\ entries[i].rec = RequestRecord(r)
          /\ id \in DOMAIN anchored /\ anchored[id].block <= n
          /\ op' = [pc |-> "decide.export", view |-> Hash(n), id |-> id,
                    meta |-> anchored[id],
                    rec |-> DecisionRecord(r, [batch |-> id, leaf |-> 1,
                                               block |-> Hash(n)])]
    /\ UNCHANGED <<chainVars, storeVars>>

(* item(requestId, 'REQUEST') and chain.batch(batchId) in the view of      *)
(* block n: the latest one for the server, while the operator uses one     *)
(* view for all the decisions of a cycle, which may lag.                   *)
DecideRead(r, n) ==
    /\ op = Idle
    /\ \E i \in DOMAIN entries :
          LET id == entries[i].batch IN
          /\ entries[i].rec = RequestRecord(r)
          /\ id # 0                                          \* RECORD_NOT_BATCHED
          /\ id \in DOMAIN anchored                          \* BATCH_UNAVAILABLE
          /\ anchored[id].block <= n
          /\ id \in DOMAIN batches
          /\ \E leaf \in DOMAIN batches[id] :
                /\ batches[id][leaf] = RequestRecord(r)
                /\ op' = [pc   |-> "decide.export",
                          view |-> Hash(n),
                          id   |-> id,
                          meta |-> anchored[id],
                          rec  |-> DecisionRecord(r,
                                     [batch |-> id,
                                      leaf  |-> leaf,
                                      block |-> Hash(anchored[id].block)])]
    /\ UNCHANGED <<chainVars, storeVars>>

(* A decision for this very receipt is returned as it stands.  Otherwise   *)
(* makeDecision reads the state pinned to the receipt's block, unless the  *)
(* amount is over the limit, and signs.                                    *)
Evaluate ==
    /\ op.pc = "evaluate"
    /\ IF Recorded(op.rec)
       THEN op' = Idle
       ELSE /\ op.rec.req \in Oversize \/ Canonical(op.rec.ref.block)
            /\ op' = [op EXCEPT !.pc = "check"]
    /\ UNCHANGED <<chainVars, storeVars>>

(* The node answers assertCanonical; the chain may move before the commit. *)
DecideCheck ==
    /\ op.pc = "check"
    /\ Canonical(op.view)
    /\ op' = [op EXCEPT !.pc = "commit"]
    /\ UNCHANGED <<chainVars, storeVars>>

(* Mutant: the snapshot is not stored. *)
DecideCommitNoBlob ==
    /\ op.pc = "commit"
    /\ IF Recorded(op.rec) THEN UNCHANGED entries ELSE Insert(op.rec)
    /\ op' = Idle
    /\ UNCHANGED <<chainVars, batches, blobs, archive, archiveBlobs>>

(* One SQLite transaction: INSERT OR IGNORE of the snapshot and of the     *)
(* decision under its unique key.                                          *)
DecideCommit ==
    /\ op.pc = "commit"
    /\ blobs' = blobs \cup SnapshotOf(op.rec)
    /\ IF Recorded(op.rec) THEN UNCHANGED entries ELSE Insert(op.rec)
    /\ op' = Idle
    /\ UNCHANGED <<chainVars, batches, archive, archiveBlobs>>

(* A failed check, an RPC or file error, NO_PENDING_RECORDS, or a crash of *)
(* the process: the handler is gone, what reached the disk stays.          *)
Interrupt ==
    /\ op # Idle
    /\ op' = Idle
    /\ UNCHANGED <<chainVars, storeVars>>

-----------------------------------------------------------------------------
Init ==
    /\ ChainInit
    /\ entries = <<>>
    /\ batches = <<>>
    /\ blobs = {}
    /\ archive = <<>>
    /\ archiveBlobs = {}
    /\ op = Idle

Chain == ChainStep /\ UNCHANGED <<storeVars, op>>

Next ==
    \/ \E r \in Requests : Submit(r) \/ \E n \in DOMAIN blocks : DecideRead(r, n)
    \/ PrepareRead \/ Freeze \/ PrepareReturn
    \/ ExportBlob \/ ExportBatch
    \/ Evaluate \/ DecideCheck \/ DecideCommit
    \/ Interrupt
    \/ Chain

Spec == Init /\ [][Next]_vars

-----------------------------------------------------------------------------
(* Types *)

Block == [number : Nat \ {0}, fork : Nat]
Receipt == [batch : Nat \ {0}, leaf : Nat \ {0}, block : Block]
Request == [kind : {"REQUEST"}, req : Requests]
Decision == [kind : {"DECISION"}, req : Requests, ref : Receipt]
Record == Request \cup Decision
Entry == [rec : Record, batch : Nat]
Snapshot == [subject : {Subject[r] : r \in Requests}, block : Block]
Anchor == [records : Seq(Record), block : Nat \ {0}]

PrepareOp == [pc : {"freeze", "prepare.export", "confirm"},
              view : Block, id : Nat \ {0}]
DecideOp == [pc : {"decide.export", "evaluate", "check", "commit"},
             view : Block, id : Nat \ {0}, meta : Anchor, rec : Decision]

IsTable(table, Value) ==
    /\ DOMAIN table \subseteq Nat \ {0}
    /\ \A id \in DOMAIN table : table[id] \in Value

(* The values every variable takes; the tables are partial functions. *)
TypeOK ==
    /\ blocks \in Seq(Nat) \ {<<>>}
    /\ fork \in Nat
    /\ anchored \in Seq(Anchor)
    /\ calls \subseteq [id : Nat \ {0}, records : Seq(Record)]
    /\ entries \in Seq(Entry)
    /\ IsTable(batches, Seq(Record))
    /\ blobs \subseteq Snapshot
    /\ IsTable(archive, Seq(Record))
    /\ archiveBlobs \subseteq Snapshot
    /\ op \in {Idle} \cup PrepareOp \cup DecideOp

-----------------------------------------------------------------------------
(* Safety, whatever the chain does *)

Published(id, records) ==
    /\ id \in DOMAIN archive
    /\ archive[id] = records
    /\ SnapshotsOf(records) \subseteq archiveBlobs

(* Nobody can be shown a commitment without the data behind it: before a   *)
(* call for a batch leaves prepare, the batch file and all the snapshots   *)
(* its decisions refer to are in the public archive, and they stay there.  *)
AnchoredIsPublished ==
    /\ \A call \in calls : Published(call.id, call.records)
    /\ \A id \in DOMAIN anchored : Published(id, anchored[id].records)

(* The publisher never signs two contents for one batch id, even when a    *)
(* reorganisation makes it anchor that id again.                           *)
NoEquivocation ==
    \A c, d \in calls : c.id = d.id => c.records = d.records

(* The two tables tell one story: a batch holds exactly the rows stamped   *)
(* with its id, no record twice, and never more than the contract takes.   *)
FrozenPartition ==
    /\ \A i \in DOMAIN entries :
          \/ entries[i].batch = 0
          \/ /\ entries[i].batch \in DOMAIN batches
             /\ \E k \in DOMAIN batches[entries[i].batch] :
                   batches[entries[i].batch][k] = entries[i].rec
    /\ \A id \in DOMAIN batches :
          /\ Len(batches[id]) \in 1..BatchLimit
          /\ \A k \in DOMAIN batches[id] :
                \E i \in DOMAIN entries :
                    entries[i] = [rec |-> batches[id][k], batch |-> id]
          /\ \A j, k \in DOMAIN batches[id] : batches[id][j] = batches[id][k] => j = k

(* No record overtakes an older one: rows are batched in seq order. *)
FirstComeFirstAnchored ==
    \A i, j \in DOMAIN entries :
        i < j /\ entries[j].batch # 0 =>
            entries[i].batch # 0 /\ entries[i].batch <= entries[j].batch

(* A decision answers a request committed in an earlier batch, at the leaf *)
(* its receipt names; so decisions made first can never pass for answers.  *)
CommitmentFirst ==
    \A i \in Decisions :
        LET d == entries[i].rec IN
        /\ d.ref.batch \in DOMAIN batches
        /\ d.ref.leaf \in DOMAIN batches[d.ref.batch]
        /\ batches[d.ref.batch][d.ref.leaf] = RequestRecord(d.req)
        /\ entries[i].batch # 0 => entries[i].batch > d.ref.batch

(* The snapshot behind a stateHash is never lost, so no batch gets stuck   *)
(* in exportBatch for want of a blob row.                                  *)
SnapshotsKept ==
    \A i \in DOMAIN entries : SnapshotOf(entries[i].rec) \subseteq blobs

(* What is recorded, frozen or published is never rewritten. *)
HistoryIsImmutable ==
    [][ /\ \A i \in DOMAIN entries :
              /\ i \in DOMAIN entries'
              /\ entries'[i].rec = entries[i].rec
              /\ entries[i].batch # 0 => entries'[i].batch = entries[i].batch
        /\ \A id \in DOMAIN batches : id \in DOMAIN batches' /\ batches'[id] = batches[id]
        /\ \A id \in DOMAIN archive : id \in DOMAIN archive' /\ archive'[id] = archive[id]
      ]_vars

-----------------------------------------------------------------------------
(* Safety that needs a chain which keeps its blocks *)

(* The receipt of every decision names the place of its request: the batch *)
(* anchored under that id holds the request at that leaf, and it is that   *)
(* block it is anchored in.                                                *)
ReceiptsHold ==
    \A i \in Decisions :
        LET ref == entries[i].rec.ref IN
        /\ ref.batch \in DOMAIN anchored
        /\ ref.block = Hash(anchored[ref.batch].block)
        /\ ref.leaf \in DOMAIN anchored[ref.batch].records
        /\ anchored[ref.batch].records[ref.leaf] = RequestRecord(entries[i].rec.req)

(* An anchored decision lies in a later block than its request.            *)
EventOrder ==
    \A i \in Decisions :
        LET answer == entries[i].batch
            asked  == entries[i].rec.ref.batch
        IN  answer \in DOMAIN anchored =>
                /\ asked \in DOMAIN anchored
                /\ anchored[asked].block < anchored[answer].block

(* A request is decided once, however often evaluate is called. *)
SingleDecision ==
    \A i, j \in Decisions : entries[i].rec.req = entries[j].rec.req => i = j

-----------------------------------------------------------------------------
(* The store implements the commitment log: batches are its log, archive   *)
(* files make them public, and the contract confirms them.                 *)

Log == INSTANCE CommitmentLog WITH
           log <- batches, public <- DOMAIN archive, tip <- Len(anchored)

(* Every step of the store, the chain and the callers is a step of the     *)
(* log, or changes nothing the log knows of.                               *)
ImplementsLog == Log!Spec
=============================================================================
