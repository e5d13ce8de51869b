------------------------- MODULE EvidenceStoreProofs -------------------------
(***************************************************************************)
(* Proofs about EvidenceStore, for any number of requests, any batch       *)
(* limit, any number of blocks and any number of reorganisations.          *)
(***************************************************************************)
EXTENDS EvidenceStore, NumberFacts, FiniteSetTheorems, SequenceTheorems, TLAPS

-----------------------------------------------------------------------------
(* Types *)

(* The number of batches a pinned count sees never exceeds those anchored. *)
LEMMA CountBound ==
    ASSUME TypeOK, NEW n \in Nat
    PROVE  CountAt(n) \in 0..Len(anchored)
<1> DEFINE S == {id \in DOMAIN anchored : anchored[id].block <= n}
<1>1. Len(anchored) \in Nat /\ DOMAIN anchored = 1..Len(anchored)
  BY DEF TypeOK
<1>2. IsFiniteSet(1..Len(anchored)) /\ Cardinality(1..Len(anchored)) = Len(anchored)
  BY <1>1, IntervalSize
<1>3. S \subseteq 1..Len(anchored)
  BY <1>1
<1>4. IsFiniteSet(S) /\ Cardinality(S) <= Len(anchored)
  BY <1>2, <1>3, FS_Subset
<1>5. Cardinality(S) \in Nat
  BY <1>4, FS_CardinalityType
<1> QED
  BY <1>1, <1>4, <1>5 DEF CountAt

LEMMA HashIsBlock ==
    ASSUME TypeOK, NEW n \in DOMAIN blocks
    PROVE  Hash(n) \in Block
BY DEF TypeOK, Hash, Block

LEMMA LatestIsBlock ==
    ASSUME TypeOK
    PROVE  Latest \in Block
<1>1. Len(blocks) \in DOMAIN blocks
  BY DEF TypeOK
<1> QED
  BY <1>1, HashIsBlock DEF Latest

(* Every field of the operation in progress is determined by its phase. *)
LEMMA OpCases ==
    ASSUME TypeOK
    PROVE  /\ op = Idle => op.pc = "idle"
           /\ op.pc \in {"freeze", "prepare.export", "confirm"} => op \in PrepareOp
           /\ op.pc \in {"decide.export", "evaluate", "check", "commit"} => op \in DecideOp
BY DEF TypeOK, Idle, PrepareOp, DecideOp

LEMMA SnapshotType ==
    ASSUME NEW rec \in Record
    PROVE  SnapshotOf(rec) \subseteq Snapshot
BY DEF SnapshotOf, Record, Request, Decision, Receipt, Snapshot

LEMMA SnapshotsType ==
    ASSUME NEW records \in Seq(Record)
    PROVE  SnapshotsOf(records) \subseteq Snapshot
BY SnapshotType DEF SnapshotsOf

LEMMA RowType ==
    ASSUME TypeOK
    PROVE  /\ Len(entries) \in Nat
           /\ DOMAIN entries = 1..Len(entries)
           /\ \A i \in DOMAIN entries : entries[i] \in Entry
<1>1. entries \in Seq(Entry)
  BY DEF TypeOK
<1> QED
  BY <1>1

LEMMA InsertType ==
    ASSUME TypeOK, NEW rec \in Record, Insert(rec)
    PROVE  entries' \in Seq(Entry)
<1>1. [rec |-> rec, batch |-> 0] \in Entry /\ entries \in Seq(Entry)
  BY DEF TypeOK, Entry
<1> QED
  BY <1>1 DEF Insert

LEMMA ExtendType ==
    ASSUME NEW Value, NEW table, IsTable(table, Value),
           NEW id \in Nat \ {0}, NEW value \in Value
    PROVE  IsTable(Extend(table, id, value), Value)
BY DEF IsTable, Extend

LEMMA FrozenType ==
    ASSUME TypeOK, op.id \in Nat \ {0},
           NEW n \in 1..BatchLimit, BatchLimit \in Nat,
           NEW rows \in [1..n -> Pending], FreezeRows(rows)
    PROVE  /\ entries' \in Seq(Entry)
           /\ IsTable(batches', Seq(Record))
<1> DEFINE records == [k \in DOMAIN rows |-> entries[rows[k]].rec]
<1>1. \A k \in 1..n : rows[k] \in DOMAIN entries
  BY DEF Pending
<1>2. \A k \in 1..n : entries[rows[k]].rec \in Record
  BY <1>1, RowType DEF Entry
<1>3. records \in Seq(Record)
  BY <1>2
<1>4. IsTable(batches, Seq(Record))
  BY DEF TypeOK
<1>5. batches' = Extend(batches, op.id, records)
  BY DEF FreezeRows
<1>6. IsTable(batches', Seq(Record))
  <2> HIDE DEF records
  <2> QED
    BY <1>3, <1>4, <1>5, ExtendType
<1>7. entries' \in Seq(Entry)
  <2>1. \A i \in DOMAIN entries : [rec |-> entries[i].rec, batch |-> op.id] \in Entry
    BY RowType DEF Entry
  <2>2. entries' \in [1..Len(entries) -> Entry]
    BY <2>1, RowType DEF FreezeRows
  <2>3. Len(entries) \in Nat
    BY RowType
  <2> QED
    BY <2>2, <2>3, SeqDef, Zenon
<1> QED
  BY <1>6, <1>7

(* What a phase needs to stay well-typed: the batch it handles is there. *)
BatchKnown ==
    op.pc \in {"prepare.export", "confirm", "decide.export", "evaluate", "check", "commit"}
        => op.id \in DOMAIN batches

TypeInv == TypeOK /\ BatchKnown

LEMMA TypeStep == TypeInv /\ [Next]_vars => TypeInv'
<1> SUFFICES ASSUME TypeInv, [Next]_vars PROVE TypeInv'
  OBVIOUS
<1> USE ChainAssumption DEF TypeInv, BatchKnown
<1>0. CASE UNCHANGED vars
  BY <1>0 DEF vars, chainVars, storeVars, TypeOK
<1>1. ASSUME NEW r \in Requests, Submit(r) PROVE TypeInv'
  <2>1. RequestRecord(r) \in Record
    BY DEF RequestRecord, Record, Request
  <2> QED
    BY <1>1, <2>1, InsertType DEF Submit, chainVars, TypeOK
<1>2. ASSUME NEW r \in Requests, NEW n \in DOMAIN blocks, DecideRead(r, n) PROVE TypeInv'
  <2>1. PICK i \in DOMAIN entries :
            LET id == entries[i].batch IN
            /\ id # 0
            /\ id \in DOMAIN anchored
            /\ anchored[id].block <= n
            /\ id \in DOMAIN batches
            /\ \E leaf \in DOMAIN batches[id] :
                  op' = [pc   |-> "decide.export",
                         view |-> Hash(n),
                         id   |-> id,
                         meta |-> anchored[id],
                         rec  |-> DecisionRecord(r,
                                   [batch |-> id,
                                    leaf  |-> leaf,
                                    block |-> Hash(anchored[id].block)])]
    BY <1>2 DEF DecideRead
  <2> DEFINE id == entries[i].batch
  <2>2. PICK leaf \in DOMAIN batches[id] :
            op' = [pc   |-> "decide.export",
                   view |-> Hash(n),
                   id   |-> id,
                   meta |-> anchored[id],
                   rec  |-> DecisionRecord(r,
                             [batch |-> id,
                              leaf  |-> leaf,
                              block |-> Hash(anchored[id].block)])]
    BY <2>1
  <2>3. id \in Nat \ {0} /\ anchored[id] \in Anchor /\ id \in DOMAIN batches
    BY <2>1 DEF TypeOK
  <2>4. leaf \in Nat \ {0}
    BY <2>2, <2>3 DEF TypeOK, IsTable
  <2>5. anchored[id].block \in DOMAIN blocks
    BY SMTT(30), <2>1, <2>3 DEF TypeOK, Anchor
  <2>6. Hash(anchored[id].block) \in Block /\ Hash(n) \in Block
    BY <2>5, HashIsBlock
  <2>7. op' \in DecideOp
    BY <2>2, <2>3, <2>4, <2>6 DEF DecideOp, DecisionRecord, Decision, Receipt
  <2>8. op'.pc = "decide.export" /\ op'.id = id
    BY <2>2
  <2> HIDE DEF id
  <2> QED
    BY <1>2, <2>3, <2>7, <2>8 DEF DecideRead, chainVars, storeVars, TypeOK
<1>3. CASE PrepareRead
  <2>1. CountAt(Len(blocks)) \in Nat
    <3>1. Len(blocks) \in Nat /\ Len(anchored) \in Nat
      BY DEF TypeOK
    <3>2. CountAt(Len(blocks)) \in 0..Len(anchored)
      BY <3>1, CountBound
    <3> QED
      BY <3>1, <3>2
  <2>2. op' \in PrepareOp
    BY <1>3, <2>1, LatestIsBlock DEF PrepareRead, PrepareOp
  <2> QED
    BY <1>3, <2>2 DEF PrepareRead, chainVars, storeVars, TypeOK
<1>4. CASE Freeze
  <2>1. op \in PrepareOp
    BY <1>4, OpCases DEF Freeze
  <2>2. op' \in PrepareOp /\ op'.id = op.id
    BY <1>4, <2>1 DEF Freeze, PrepareOp
  <2>3. CASE op.id \in DOMAIN batches
    BY <1>4, <2>2, <2>3 DEF Freeze, chainVars, TypeOK
  <2>4. CASE op.id \notin DOMAIN batches
    <3>1. PICK n \in 1..BatchLimit : \E rows \in [1..n -> Pending] : FreezeRows(rows)
      BY <1>4, <2>4 DEF Freeze
    <3>2. PICK rows \in [1..n -> Pending] : FreezeRows(rows)
      BY <3>1
    <3>3. /\ entries' \in Seq(Entry)
          /\ IsTable(batches', Seq(Record))
      BY <2>1, <3>2, FrozenType DEF PrepareOp
    <3>4. op.id \in DOMAIN batches'
      BY <3>2 DEF FreezeRows, Extend
    <3> QED
      BY <1>4, <2>2, <3>3, <3>4 DEF Freeze, chainVars, TypeOK
  <2> QED
    BY <2>3, <2>4
<1>5. CASE PrepareReturn
  <2>1. op \in PrepareOp /\ op.id \in DOMAIN batches
    BY <1>5, OpCases DEF PrepareReturn
  <2>2. batches[op.id] \in Seq(Record)
    BY <2>1 DEF TypeOK, IsTable
  <2>3. calls' \subseteq [id : Nat \ {0}, records : Seq(Record)]
    BY <1>5, <2>1, <2>2 DEF PrepareReturn, PrepareOp, TypeOK
  <2> QED
    BY <1>5, <2>3 DEF PrepareReturn, storeVars, TypeOK, Idle
<1>6. CASE ExportBlob
  BY <1>6 DEF ExportBlob, chainVars, TypeOK
<1>7. CASE ExportBatch
  <2>1. op.id \in DOMAIN batches /\ op.id \in Nat \ {0} /\ batches[op.id] \in Seq(Record)
    BY <1>7 DEF ExportBatch, Exporting, TypeOK, IsTable
  <2>2. IsTable(archive', Seq(Record))
    BY <1>7, <2>1, ExtendType DEF ExportBatch, TypeOK
  <2>3. op' \in {Idle} \cup PrepareOp \cup DecideOp /\ (op' = Idle \/ op'.id = op.id)
    BY <1>7, OpCases DEF ExportBatch, Exporting, PrepareOp, DecideOp
  <2> QED
    BY <1>7, <2>1, <2>2, <2>3 DEF ExportBatch, chainVars, TypeOK, Idle
<1>8. CASE Evaluate
  <2>1. op \in DecideOp
    BY <1>8, OpCases DEF Evaluate
  <2>2. op' = Idle \/ (op' \in DecideOp /\ op'.id = op.id)
    BY <1>8, <2>1 DEF Evaluate, DecideOp
  <2> QED
    BY <1>8, <2>1, <2>2 DEF Evaluate, chainVars, storeVars, TypeOK, Idle
<1>9. CASE DecideCheck
  <2>1. op \in DecideOp
    BY <1>9, OpCases DEF DecideCheck
  <2>2. op' \in DecideOp /\ op'.id = op.id
    BY <1>9, <2>1 DEF DecideCheck, DecideOp
  <2> QED
    BY <1>9, <2>1, <2>2 DEF DecideCheck, chainVars, storeVars, TypeOK
<1>10. CASE DecideCommit
  <2>1. op.rec \in Record
    BY <1>10, OpCases DEF DecideCommit, DecideOp, Record
  <2>2. blobs' \subseteq Snapshot
    BY <1>10, <2>1, SnapshotType DEF DecideCommit, TypeOK
  <2>3. entries' \in Seq(Entry)
    BY <1>10, <2>1, InsertType DEF DecideCommit, TypeOK
  <2> QED
    BY <1>10, <2>2, <2>3 DEF DecideCommit, chainVars, TypeOK, Idle
<1>11. CASE Interrupt
  BY <1>11 DEF Interrupt, chainVars, storeVars, TypeOK, Idle
<1>12. CASE Chain
  <2> USE <1>12 DEF Chain, storeVars
  <2>1. ASSUME NEW call \in calls, AnchorBatch(call) PROVE TypeInv'
    <3>1. [records |-> call.records, block |-> Len(blocks) + 1] \in Anchor
      BY DEF TypeOK, Anchor
    <3> QED
      BY <2>1, <3>1 DEF AnchorBatch, TypeOK
  <2>2. CASE Seal
    <3>1. blocks' \in Seq(Nat) \ {<<>>}
      <4>1. blocks \in Seq(Nat) /\ fork \in Nat /\ blocks' = Append(blocks, fork)
        BY <2>2 DEF Seal, TypeOK
      <4> QED
        BY <4>1
    <3> QED
      BY <2>2, <3>1 DEF Seal, TypeOK
  <2>3. ASSUME NEW h \in 1..(Len(blocks) - 1), Reorg(h) PROVE TypeInv'
    <3>1. h \in Nat \ {0} /\ h <= Len(blocks)
      BY DEF TypeOK
    <3>2. blocks' \in Seq(Nat) \ {<<>>}
      <4>1. blocks \in Seq(Nat) /\ blocks' = SubSeq(blocks, 1, h)
        BY <2>3 DEF Reorg, TypeOK
      <4>2. blocks' \in Seq(Nat) /\ Len(blocks') = h
        BY <3>1, <4>1
      <4> QED
        BY <3>1, <4>2
    <3>3. CountAt(h) \in 0..Len(anchored)
      BY <3>1, CountBound
    <3>4. anchored' \in Seq(Anchor)
      <4>1. anchored \in Seq(Anchor) /\ anchored' = SubSeq(anchored, 1, CountAt(h))
        BY <2>3 DEF Reorg, TypeOK
      <4> QED
        BY <3>3, <4>1
    <3>5. fork' \in Nat
      BY <2>3 DEF Reorg, TypeOK
    <3> QED
      BY <2>3, <3>2, <3>4, <3>5 DEF Reorg, TypeOK
  <2> QED
    BY <2>1, <2>2, <2>3 DEF ChainStep
<1> QED
  BY <1>0, <1>1, <1>2, <1>3, <1>4, <1>5, <1>6, <1>7, <1>8, <1>9, <1>10, <1>11, <1>12
     DEF Next

(* Tables, files, memory of the handler, chain and calls are well typed,   *)
(* whatever is dropped or interrupted.                                     *)
THEOREM TypeCorrect == Spec => []TypeOK
<1>1. Init => TypeInv
  BY DEF Init, ChainInit, TypeInv, BatchKnown, TypeOK, IsTable, Idle
<1> QED
  BY <1>1, TypeStep, PTL DEF Spec, TypeInv

-----------------------------------------------------------------------------
(* Nothing recorded, frozen or published is rewritten *)

Kept(table, new) == \A id \in DOMAIN table : id \in DOMAIN new /\ new[id] = table[id]

(* Batches and files only accumulate: a batch is frozen under a free id,   *)
(* and a file that exists is written again only with the same contents.    *)
LEMMA LogGrows ==
    ASSUME TypeInv, [Next]_vars
    PROVE  /\ Kept(batches, batches')
           /\ Kept(archive, archive')
           /\ archiveBlobs \subseteq archiveBlobs'
<1> USE DEF Kept
<1>1. CASE Freeze
  BY <1>1 DEF Freeze, FreezeRows, Extend
<1>2. CASE ExportBatch
  BY <1>2 DEF ExportBatch, Extend
<1>3. CASE ExportBlob
  BY <1>3, Zenon DEF ExportBlob
<1>4. CASE UNCHANGED <<batches, archive, archiveBlobs>>
  BY <1>4, Zenon
<1>5. \/ Freeze \/ ExportBatch \/ ExportBlob
      \/ UNCHANGED <<batches, archive, archiveBlobs>>
  BY Zenon DEF Next, vars, storeVars, Submit, DecideRead, PrepareRead, PrepareReturn,
               Evaluate, DecideCheck, DecideCommit, Interrupt, Chain
<1> QED
  BY <1>1, <1>2, <1>3, <1>4, <1>5

(* A row keeps its record, and its batch once it has one. *)
LEMMA RowsKept ==
    ASSUME TypeInv, [Next]_vars
    PROVE  \A i \in DOMAIN entries :
              /\ i \in DOMAIN entries'
              /\ entries'[i].rec = entries[i].rec
              /\ entries[i].batch # 0 => entries'[i] = entries[i]
<1> USE RowType DEF TypeInv
<1>1. ASSUME NEW rec, Insert(rec)
      PROVE  \A i \in DOMAIN entries : i \in DOMAIN entries' /\ entries'[i] = entries[i]
  <2>1. entries \in Seq(Entry)
    BY DEF TypeOK
  <2> QED
    BY <1>1, <2>1, AppendProperties DEF Insert
<1>2. CASE Freeze
  <2>1. CASE op.id \in DOMAIN batches
    BY <1>2, <2>1 DEF Freeze
  <2>2. CASE op.id \notin DOMAIN batches
    <3>1. PICK n \in 1..BatchLimit : \E rows \in [1..n -> Pending] : FreezeRows(rows)
      BY <1>2, <2>2 DEF Freeze
    <3>2. PICK rows \in [1..n -> Pending] : FreezeRows(rows)
      BY <3>1
    <3>3. \A k \in DOMAIN rows : entries[rows[k]].batch = 0
      BY DEF Pending
    <3> QED
      BY <3>2, <3>3 DEF FreezeRows
  <2> QED
    BY <2>1, <2>2
<1>3. CASE UNCHANGED entries
  BY <1>3
<1>4. \/ \E rec : Insert(rec)
      \/ Freeze
      \/ UNCHANGED entries
  BY Zenon DEF Next, vars, storeVars, Submit, DecideRead, PrepareRead, PrepareReturn,
               ExportBlob, ExportBatch, Evaluate, DecideCheck, DecideCommit, Interrupt, Chain
<1> QED
  BY <1>1, <1>2, <1>3, <1>4

(* What is recorded, frozen or published is never rewritten. *)
THEOREM History == Spec => HistoryIsImmutable
<1>1. Init => TypeInv
  BY DEF Init, ChainInit, TypeInv, BatchKnown, TypeOK, IsTable, Idle
<1>2. TypeInv /\ [Next]_vars =>
        [ /\ \A i \in DOMAIN entries :
                /\ i \in DOMAIN entries'
                /\ entries'[i].rec = entries[i].rec
                /\ entries[i].batch # 0 => entries'[i].batch = entries[i].batch
          /\ \A id \in DOMAIN batches : id \in DOMAIN batches' /\ batches'[id] = batches[id]
          /\ \A id \in DOMAIN archive : id \in DOMAIN archive' /\ archive'[id] = archive[id]
        ]_vars
  BY LogGrows, RowsKept DEF Kept
<1> QED
  BY <1>1, <1>2, TypeStep, PTL DEF Spec, HistoryIsImmutable

-----------------------------------------------------------------------------
(* The ledger: what is anchored was signed, what is signed was published,  *)
(* what is published was frozen, and the frozen batches have no gap        *)

Gapless == \E n \in Nat : DOMAIN batches = 1..n

ArchiveFaithful ==
    \A id \in DOMAIN archive : id \in DOMAIN batches /\ Published(id, batches[id])

CallsFaithful ==
    \A call \in calls : call.id \in DOMAIN archive /\ call.records = batches[call.id]

AnchorsFaithful ==
    \A id \in DOMAIN anchored : id \in DOMAIN archive /\ anchored[id].records = batches[id]

(* prepare freezes id only once it has seen every earlier batch anchored,  *)
(* and hands out a call only for what it has exported.                     *)
PrepareSound ==
    /\ op.pc = "freeze" => \A j \in 1..(op.id - 1) : j \in DOMAIN archive
    /\ op.pc = "confirm" => op.id \in DOMAIN archive

Ledger == Gapless /\ ArchiveFaithful /\ CallsFaithful /\ AnchorsFaithful /\ PrepareSound

(* A batch is always frozen under the id after the last one. *)
LEMMA NextBatch ==
    ASSUME TypeInv, Ledger, op.pc = "freeze", op.id \notin DOMAIN batches
    PROVE  DOMAIN batches = 1..(op.id - 1)
<1>1. PICK n \in Nat : DOMAIN batches = 1..n
  BY DEF Ledger, Gapless
<1>2. op.id \in Nat \ {0}
  BY OpCases DEF TypeInv, PrepareOp
<1>3. \A j \in 1..(op.id - 1) : j \in DOMAIN batches
  BY DEF Ledger, PrepareSound, ArchiveFaithful
<1>4. op.id > n
  BY <1>1, <1>2
<1>5. op.id - 1 <= n
  <2>1. SUFFICES ASSUME op.id - 1 > n PROVE FALSE
    BY <1>1, <1>2
  <2>2. n + 1 \in 1..(op.id - 1) /\ n + 1 \notin 1..n
    BY <1>1, <1>2, <2>1
  <2> QED
    BY <1>1, <1>3, <2>2
<1>6. n = op.id - 1
  BY <1>1, <1>2, <1>4, <1>5
<1> QED
  BY <1>1, <1>6

LEMMA LedgerInit == Init => Ledger
BY DEF Init, ChainInit, Ledger, Gapless, ArchiveFaithful, CallsFaithful,
       AnchorsFaithful, PrepareSound, Idle

(* The parts that speak of tables only, when calls and anchors stay. *)
LEMMA LedgerKept ==
    ASSUME TypeInv, Ledger, [Next]_vars, UNCHANGED <<calls, anchored>>
    PROVE  CallsFaithful' /\ AnchorsFaithful'
BY LogGrows DEF Ledger, Kept, CallsFaithful, AnchorsFaithful, ArchiveFaithful

LEMMA LedgerStep == TypeInv /\ Ledger /\ [Next]_vars => Ledger'
<1> SUFFICES ASSUME TypeInv, Ledger, [Next]_vars PROVE Ledger'
  OBVIOUS
<1> USE DEF TypeInv
<1>1. CASE UNCHANGED <<batches, archive, archiveBlobs, calls, anchored, op>>
  BY <1>1 DEF Ledger, Gapless, ArchiveFaithful, Published, CallsFaithful,
              AnchorsFaithful, PrepareSound
<1>2. CASE UNCHANGED <<batches, archive, archiveBlobs, calls, anchored>>
           /\ op'.pc \notin {"freeze", "confirm"}
  BY <1>2 DEF Ledger, Gapless, ArchiveFaithful, Published, CallsFaithful,
              AnchorsFaithful, PrepareSound
<1>3. CASE PrepareRead
  <2>1. Len(anchored) \in Nat /\ DOMAIN anchored = 1..Len(anchored) /\ Len(blocks) \in Nat
    BY DEF TypeOK
  <2>2. CountAt(Len(blocks)) \in 0..Len(anchored)
    BY <2>1, CountBound
  <2>3. \A j \in 1..CountAt(Len(blocks)) : j \in DOMAIN archive
    BY <2>1, <2>2 DEF Ledger, AnchorsFaithful
  <2>4. PrepareSound'
    BY <1>3, <2>1, <2>2, <2>3 DEF PrepareRead, PrepareSound, storeVars
  <2>5. UNCHANGED <<batches, archive, archiveBlobs, calls, anchored>>
    BY <1>3 DEF PrepareRead, storeVars, chainVars
  <2> QED
    BY <2>4, <2>5 DEF Ledger, Gapless, ArchiveFaithful, Published, CallsFaithful,
                      AnchorsFaithful
<1>4. CASE Freeze
  <2>1. UNCHANGED <<calls, anchored, archive, archiveBlobs>>
    BY <1>4 DEF Freeze, chainVars
  <2>2. CallsFaithful' /\ AnchorsFaithful'
    BY <2>1, LedgerKept
  <2>3. ArchiveFaithful'
    BY <2>1, LogGrows DEF Ledger, ArchiveFaithful, Published, Kept
  <2>4. PrepareSound'
    BY <1>4, OpCases DEF Freeze, PrepareSound, PrepareOp
  <2>5. Gapless'
    <3>1. CASE op.id \in DOMAIN batches
      BY <1>4, <3>1 DEF Freeze, Ledger, Gapless
    <3>2. CASE op.id \notin DOMAIN batches
      <4>1. op.id \in Nat \ {0} /\ DOMAIN batches = 1..(op.id - 1)
        BY <1>4, <3>2, NextBatch, OpCases DEF Freeze, PrepareOp
      <4>2. DOMAIN batches' = DOMAIN batches \cup {op.id}
        BY <1>4, <3>2 DEF Freeze, FreezeRows, Extend
      <4>3. DOMAIN batches' = 1..op.id
        BY <4>1, <4>2
      <4> QED
        BY <4>1, <4>3 DEF Gapless
    <3> QED
      BY <3>1, <3>2
  <2> QED
    BY <2>2, <2>3, <2>4, <2>5 DEF Ledger
<1>5. CASE PrepareReturn
  <2>1. op.id \in DOMAIN archive
    BY <1>5 DEF PrepareReturn, Ledger, PrepareSound
  <2>2. CallsFaithful'
    BY <1>5, <2>1 DEF PrepareReturn, storeVars, Ledger, CallsFaithful
  <2>3. PrepareSound'
    BY <1>5 DEF PrepareReturn, PrepareSound, Idle
  <2>4. UNCHANGED <<batches, archive, archiveBlobs, anchored>>
    BY <1>5 DEF PrepareReturn, storeVars
  <2> QED
    BY <2>2, <2>3, <2>4 DEF Ledger, Gapless, ArchiveFaithful, Published, AnchorsFaithful
<1>6. CASE ExportBlob
  <2>1. UNCHANGED <<batches, archive, calls, anchored, op>>
    BY <1>6 DEF ExportBlob, chainVars
  <2>2. ArchiveFaithful'
    BY <2>1, LogGrows DEF Ledger, ArchiveFaithful, Published
  <2> QED
    BY <2>1, <2>2 DEF Ledger, Gapless, CallsFaithful, AnchorsFaithful, PrepareSound
<1>7. CASE ExportBatch
  <2>1. UNCHANGED <<batches, archiveBlobs, calls, anchored>>
    BY <1>7 DEF ExportBatch, chainVars
  <2>2. op.id \in DOMAIN batches /\ SnapshotsOf(batches[op.id]) \subseteq archiveBlobs
    BY <1>7 DEF ExportBatch, Exporting
  <2>3. ArchiveFaithful'
    BY <1>7, <2>1, <2>2 DEF ExportBatch, Extend, Ledger, ArchiveFaithful, Published
  <2>4. PrepareSound'
    BY <1>7, <2>2, OpCases
       DEF ExportBatch, Exporting, Extend, PrepareSound, Idle, PrepareOp, DecideOp
  <2>5. CallsFaithful' /\ AnchorsFaithful'
    BY <2>1, LedgerKept
  <2> QED
    BY <2>1, <2>3, <2>4, <2>5 DEF Ledger, Gapless
<1>8. CASE Chain
  <2>1. UNCHANGED <<batches, archive, archiveBlobs, calls, op>>
    BY <1>8 DEF Chain, storeVars, ChainStep, AnchorBatch, Seal, Reorg
  <2>2. AnchorsFaithful'
    <3>1. anchored \in Seq(Anchor)
      BY DEF TypeOK
    <3>2. ASSUME NEW call \in calls, AnchorBatch(call) PROVE AnchorsFaithful'
      <4>1. /\ DOMAIN anchored' = 1..(Len(anchored) + 1)
            /\ \A id \in 1..Len(anchored) : anchored'[id] = anchored[id]
            /\ anchored'[Len(anchored) + 1].records = call.records
        BY <3>1, <3>2 DEF AnchorBatch
      <4>2. call.id = Len(anchored) + 1
        BY <3>2 DEF AnchorBatch
      <4>3. DOMAIN anchored = 1..Len(anchored) /\ Len(anchored) \in Nat
        BY <3>1
      <4> QED
        BY <2>1, <4>1, <4>2, <4>3 DEF Ledger, AnchorsFaithful, CallsFaithful
    <3>3. CASE UNCHANGED anchored
      BY <2>1, <3>3 DEF Ledger, AnchorsFaithful
    <3>4. ASSUME NEW h \in 1..(Len(blocks) - 1), Reorg(h) PROVE AnchorsFaithful'
      <4>1. Len(blocks) \in Nat /\ h \in Nat
        BY DEF TypeOK
      <4>2. CountAt(h) \in 0..Len(anchored)
        BY <4>1, CountBound
      <4>3. /\ DOMAIN anchored' = 1..CountAt(h)
            /\ \A id \in 1..CountAt(h) : id \in DOMAIN anchored /\ anchored'[id] = anchored[id]
        BY <3>1, <3>4, <4>2 DEF Reorg
      <4> QED
        BY <2>1, <4>3 DEF Ledger, AnchorsFaithful
    <3> QED
      BY <1>8, <3>2, <3>3, <3>4 DEF Chain, ChainStep, Seal
  <2> QED
    BY <2>1, <2>2 DEF Ledger, Gapless, ArchiveFaithful, Published, CallsFaithful, PrepareSound
<1>9. CASE DecideCommit \/ Evaluate \/ DecideCheck \/ Interrupt
  <2>1. UNCHANGED <<batches, archive, archiveBlobs, calls, anchored>>
    BY <1>9 DEF DecideCommit, Evaluate, DecideCheck, Interrupt, storeVars, chainVars
  <2>2. op'.pc \notin {"freeze", "confirm"}
    BY <1>9, OpCases DEF DecideCommit, Evaluate, DecideCheck, Interrupt, Idle, DecideOp
  <2> QED
    BY <1>2, <2>1, <2>2
<1>10. ASSUME NEW r \in Requests, Submit(r) \/ \E n \in DOMAIN blocks : DecideRead(r, n)
       PROVE  Ledger'
  <2>1. UNCHANGED <<batches, archive, archiveBlobs, calls, anchored>>
    BY <1>10 DEF Submit, DecideRead, storeVars, chainVars
  <2>2. op'.pc \notin {"freeze", "confirm"}
    <3>1. CASE Submit(r)
      BY <3>1 DEF Submit, Idle
    <3>2. ASSUME NEW n \in DOMAIN blocks, DecideRead(r, n)
          PROVE  op'.pc \notin {"freeze", "confirm"}
      <4>1. op'.pc = "decide.export"
        BY <3>2 DEF DecideRead
      <4> QED
        BY <4>1
    <3> QED
      BY <1>10, <3>1, <3>2
  <2> QED
    BY <1>2, <2>1, <2>2
<1>11. CASE UNCHANGED vars
  BY <1>1, <1>11 DEF vars, storeVars, chainVars
<1> QED
  BY <1>3, <1>4, <1>5, <1>6, <1>7, <1>8, <1>9, <1>10, <1>11 DEF Next

LEMMA LedgerAlways == Spec => [](TypeInv /\ Ledger)
<1>1. Init => TypeInv
  BY DEF Init, ChainInit, TypeInv, BatchKnown, TypeOK, IsTable, Idle
<1> QED
  BY <1>1, TypeStep, LedgerInit, LedgerStep, PTL DEF Spec

(* Nobody can be shown a commitment without the data behind it. *)
THEOREM Publication == Spec => []AnchoredIsPublished
<1>1. TypeInv /\ Ledger => AnchoredIsPublished
  BY DEF Ledger, ArchiveFaithful, CallsFaithful, AnchorsFaithful, AnchoredIsPublished, Published
<1> QED
  BY <1>1, LedgerAlways, PTL

(* The publisher never signs two contents for one batch id. *)
THEOREM OneCommitment == Spec => []NoEquivocation
<1>1. Ledger => NoEquivocation
  BY DEF Ledger, CallsFaithful, NoEquivocation
<1> QED
  BY <1>1, LedgerAlways, PTL

-----------------------------------------------------------------------------
(* Rows and batches *)

LEMMA InsertEffect ==
    ASSUME TypeInv, NEW rec, Insert(rec)
    PROVE  /\ DOMAIN entries' = 1..(Len(entries) + 1)
           /\ \A i \in 1..Len(entries) : entries'[i] = entries[i]
           /\ entries'[Len(entries) + 1] = [rec |-> rec, batch |-> 0]
<1>1. entries \in Seq(Entry)
  BY DEF TypeInv, TypeOK
<1> QED
  BY <1>1 DEF Insert

(* What freezing a new batch does to the two tables. *)
Froze(n, rows) ==
    /\ op.id \in Nat \ {0}
    /\ DOMAIN batches = 1..(op.id - 1)
    /\ DOMAIN rows = 1..n
    /\ \A k \in 1..n : rows[k] \in DOMAIN entries /\ entries[rows[k]].batch = 0
    /\ OldestPending(rows)
    /\ DOMAIN batches' = 1..op.id
    /\ \A id \in DOMAIN batches : batches'[id] = batches[id]
    /\ batches'[op.id] = [k \in 1..n |-> entries[rows[k]].rec]
    /\ DOMAIN entries' = DOMAIN entries
    /\ \A i \in DOMAIN entries :
          /\ (\E k \in 1..n : rows[k] = i) =>
                entries'[i] = [rec |-> entries[i].rec, batch |-> op.id]
          /\ ~(\E k \in 1..n : rows[k] = i) => entries'[i] = entries[i]

LEMMA FreezeEffect ==
    ASSUME TypeInv, Ledger, Freeze, op.id \notin DOMAIN batches
    PROVE  \E n \in 1..BatchLimit : \E rows \in [1..n -> Pending] : Froze(n, rows)
<1>1. PICK n \in 1..BatchLimit :
          \E rows \in [1..n -> Pending] : OldestPending(rows) /\ FreezeRows(rows)
  BY DEF Freeze
<1>2. PICK rows \in [1..n -> Pending] : OldestPending(rows) /\ FreezeRows(rows)
  BY <1>1
<1>3. op.id \in Nat \ {0} /\ DOMAIN batches = 1..(op.id - 1)
  BY NextBatch, OpCases DEF Freeze, TypeInv, PrepareOp
<1>4. /\ DOMAIN batches' = 1..op.id
      /\ \A id \in DOMAIN batches : batches'[id] = batches[id]
      /\ batches'[op.id] = [k \in 1..n |-> entries[rows[k]].rec]
  BY <1>2, <1>3 DEF FreezeRows, Extend
<1>5. \A k \in 1..n : rows[k] \in DOMAIN entries /\ entries[rows[k]].batch = 0
  BY DEF Pending
<1>6. /\ DOMAIN entries' = DOMAIN entries
      /\ \A i \in DOMAIN entries :
            /\ (\E k \in 1..n : rows[k] = i) =>
                  entries'[i] = [rec |-> entries[i].rec, batch |-> op.id]
            /\ ~(\E k \in 1..n : rows[k] = i) => entries'[i] = entries[i]
  BY <1>2 DEF FreezeRows
<1>7. DOMAIN rows = 1..n
  OBVIOUS
<1>8. Froze(n, rows)
  BY <1>2, <1>3, <1>4, <1>5, <1>6, <1>7 DEF Froze
<1> QED
  BY <1>8

(* unique_key *)
Unique == \A i, j \in DOMAIN entries : entries[i].rec = entries[j].rec => i = j

(* The steps that touch the rows, one by one. *)
LEMMA RowSteps ==
    ASSUME TypeInv, Ledger, [Next]_vars
    PROVE  \/ UNCHANGED <<entries, batches>>
           \/ /\ UNCHANGED batches
              /\ \E rec : Insert(rec) /\ ~Recorded(rec)
           \/ /\ Freeze
              /\ \E n \in 1..BatchLimit : \E rows \in [1..n -> Pending] : Froze(n, rows)
<1>1. CASE Freeze
  BY <1>1, FreezeEffect DEF Freeze
<1>2. CASE \E r \in Requests : Submit(r)
  BY <1>2, Zenon DEF Submit
<1>3. CASE DecideCommit
  BY <1>3, Zenon DEF DecideCommit
<1> QED
  BY <1>1, <1>2, <1>3, Zenon
     DEF Next, vars, storeVars, DecideRead, PrepareRead, PrepareReturn,
         ExportBlob, ExportBatch, Evaluate, DecideCheck, Interrupt, Chain

RowsInv == Unique /\ FrozenPartition /\ FirstComeFirstAnchored

LEMMA RowsStep ==
    TypeInv /\ Ledger /\ RowsInv /\ [Next]_vars => RowsInv'
<1> SUFFICES ASSUME TypeInv, Ledger, RowsInv, [Next]_vars PROVE RowsInv'
  OBVIOUS
<1> USE DEF RowsInv
<1>1. CASE UNCHANGED <<entries, batches>>
  BY <1>1 DEF Unique, FrozenPartition, FirstComeFirstAnchored
<1>2. ASSUME UNCHANGED batches, NEW rec, Insert(rec), ~Recorded(rec) PROVE RowsInv'
  <2>1. /\ DOMAIN entries' = 1..(Len(entries) + 1)
        /\ \A i \in 1..Len(entries) : entries'[i] = entries[i]
        /\ entries'[Len(entries) + 1] = [rec |-> rec, batch |-> 0]
    BY <1>2, InsertEffect
  <2>2. Len(entries) \in Nat /\ DOMAIN entries = 1..Len(entries)
    BY RowType DEF TypeInv
  <2>3. Unique'
    BY <1>2, <2>1, <2>2 DEF Unique, Recorded
  <2>4. FrozenPartition'
    BY <1>2, <2>1, <2>2 DEF FrozenPartition
  <2>5. FirstComeFirstAnchored'
    BY <2>1, <2>2 DEF FirstComeFirstAnchored
  <2> QED
    BY <2>3, <2>4, <2>5
<1>3. ASSUME NEW n \in 1..BatchLimit, NEW rows \in [1..n -> Pending], Froze(n, rows)
      PROVE  RowsInv'
  <2> DEFINE Chosen(i) == \E k \in 1..n : rows[k] = i
  <2>1. /\ DOMAIN entries' = DOMAIN entries
        /\ \A i \in DOMAIN entries : entries'[i].rec = entries[i].rec
        /\ \A i \in DOMAIN entries :
              /\ Chosen(i) => entries'[i].batch = op.id
              /\ ~Chosen(i) => entries'[i].batch = entries[i].batch
    <3>1. \A i \in DOMAIN entries :
             /\ Chosen(i) => entries'[i] = [rec |-> entries[i].rec, batch |-> op.id]
             /\ ~Chosen(i) => entries'[i] = entries[i]
      BY <1>3 DEF Froze
    <3>2. DOMAIN entries' = DOMAIN entries
      BY <1>3 DEF Froze
    <3> HIDE DEF Chosen
    <3> QED
      BY <3>1, <3>2
  <2>2. n \in Nat \ {0} /\ n <= BatchLimit
    BY ChainAssumption
  <2>3. /\ op.id \in Nat \ {0}
        /\ op.id \notin DOMAIN batches
        /\ DOMAIN batches' = DOMAIN batches \cup {op.id}
        /\ \A id \in DOMAIN batches : batches'[id] = batches[id] /\ id < op.id
    BY <1>3 DEF Froze
  <2>4. /\ batches'[op.id] = [k \in 1..n |-> entries[rows[k]].rec]
        /\ Len(batches'[op.id]) = n
        /\ DOMAIN batches'[op.id] = 1..n
    BY <1>3, <2>2 DEF Froze
  <2>5. \A i \in DOMAIN entries : Chosen(i) => entries[i].batch = 0
    BY <1>3 DEF Froze
  <2>6. \A i \in DOMAIN entries : entries[i].batch = 0 \/ entries[i].batch \in DOMAIN batches
    BY DEF FrozenPartition
  <2>7. Unique'
    BY <2>1 DEF Unique
  <2>8. ASSUME NEW i \in DOMAIN entries'
        PROVE  \/ entries'[i].batch = 0
               \/ /\ entries'[i].batch \in DOMAIN batches'
                  /\ \E k \in DOMAIN batches'[entries'[i].batch] :
                        batches'[entries'[i].batch][k] = entries'[i].rec
    <3>1. CASE Chosen(i)
      BY <2>1, <2>3, <2>4, <3>1
    <3>2. CASE ~Chosen(i)
      BY <2>1, <2>3, <3>2 DEF FrozenPartition
    <3> QED
      BY <3>1, <3>2
  <2>9. ASSUME NEW id \in DOMAIN batches'
        PROVE  /\ Len(batches'[id]) \in 1..BatchLimit
               /\ \A k \in DOMAIN batches'[id] :
                     \E i \in DOMAIN entries' :
                         entries'[i] = [rec |-> batches'[id][k], batch |-> id]
               /\ \A j, k \in DOMAIN batches'[id] : batches'[id][j] = batches'[id][k] => j = k
    <3>1. CASE id \in DOMAIN batches
      <4>1. /\ Len(batches[id]) \in 1..BatchLimit
            /\ \A k \in DOMAIN batches[id] :
                  \E i \in DOMAIN entries : entries[i] = [rec |-> batches[id][k], batch |-> id]
            /\ \A j, k \in DOMAIN batches[id] : batches[id][j] = batches[id][k] => j = k
        BY <3>1 DEF FrozenPartition
      <4>2. id # 0
        BY <1>3, <3>1 DEF Froze
      <4>3. ASSUME NEW i \in DOMAIN entries, entries[i].batch = id
            PROVE  entries'[i] = entries[i]
        BY <1>3, <2>5, <4>2, <4>3 DEF Froze
      <4> QED
        BY <2>1, <2>3, <3>1, <4>1, <4>3
    <3>2. CASE id = op.id
      <4>1. ASSUME NEW k \in 1..n
            PROVE  entries'[rows[k]] = [rec |-> batches'[id][k], batch |-> id]
        BY SMTT(30), <1>3, <2>4, <3>2 DEF Froze
      <4>2. ASSUME NEW j \in 1..n, NEW k \in 1..n, batches'[id][j] = batches'[id][k]
            PROVE  j = k
        <5>1. rows[j] = rows[k]
          BY SMTT(30), <1>3, <2>4, <3>2, <4>2 DEF Froze, Unique
        <5>2. rows[j] \in Nat
          BY <1>3, RowType DEF Froze, TypeInv
        <5>3. (j < k => rows[j] < rows[k]) /\ (k < j => rows[k] < rows[j])
          BY <1>3 DEF Froze, OldestPending
        <5> QED
          BY <5>1, <5>2, <5>3
      <4> QED
        BY SMTT(30), <1>3, <2>1, <2>2, <2>4, <3>2, <4>1, <4>2 DEF Froze
    <3> QED
      BY <2>3, <3>1, <3>2
  <2>10. ASSUME NEW i \in DOMAIN entries', NEW j \in DOMAIN entries',
                i < j, entries'[j].batch # 0
         PROVE  entries'[i].batch # 0 /\ entries'[i].batch <= entries'[j].batch
    <3>1. entries[i].batch = 0 \/ entries[i].batch \in DOMAIN batches
      BY <2>1, <2>6
    <3>2. \A id \in DOMAIN batches : id \in Nat \ {0} /\ id < op.id
      BY <1>3 DEF Froze
    <3>3. i \in Nat /\ j \in Nat
      BY <2>1, RowType DEF TypeInv
    <3>4. CASE Chosen(j)
      <4>1. entries[i].batch = 0 => Chosen(i)
        <5>1. SUFFICES ASSUME entries[i].batch = 0, ~Chosen(i) PROVE FALSE
          OBVIOUS
        <5>2. i \in Pending
          BY <2>1, <5>1 DEF Pending
        <5>3. \A k \in 1..n : rows[k] < i
          BY <1>3, <5>1, <5>2 DEF Froze, OldestPending
        <5> QED
          BY <2>10, <3>3, <3>4, <5>3
      <4> QED
        BY <2>1, <2>3, <3>1, <3>2, <3>4, <4>1
    <3>5. CASE ~Chosen(j)
      <4>1. entries[j].batch # 0
        BY <2>1, <2>10, <3>5
      <4>2. entries[i].batch # 0 /\ entries[i].batch <= entries[j].batch
        BY <2>1, <2>10, <4>1 DEF FirstComeFirstAnchored
      <4> QED
        BY <2>1, <2>5, <3>5, <4>2
    <3> QED
      BY <3>4, <3>5
  <2> QED
    BY <2>7, <2>8, <2>9, <2>10 DEF FrozenPartition, FirstComeFirstAnchored
<1> QED
  BY <1>1, <1>2, <1>3, RowSteps

LEMMA RowsAlways == Spec => [](TypeInv /\ Ledger /\ RowsInv)
<1>1. Init => RowsInv
  BY DEF Init, RowsInv, Unique, FrozenPartition, FirstComeFirstAnchored
<1> QED
  BY <1>1, RowsStep, LedgerAlways, PTL DEF Spec

(* A batch holds exactly the rows stamped with its id, each record once,   *)
(* and fits the contract's limit.                                          *)
THEOREM TablesAgree == Spec => []FrozenPartition
  BY RowsAlways, PTL DEF RowsInv

(* Rows are batched in the order they were recorded. *)
THEOREM SeqOrder == Spec => []FirstComeFirstAnchored
  BY RowsAlways, PTL DEF RowsInv

-----------------------------------------------------------------------------
(* Decisions answer requests *)

InPlace(rec, table) ==
    /\ rec.ref.batch \in DOMAIN table
    /\ rec.ref.leaf \in DOMAIN table[rec.ref.batch]
    /\ table[rec.ref.batch][rec.ref.leaf] = RequestRecord(rec.req)

(* decide works on a request in place from its first read on. *)
DecideSound ==
    op.pc \in {"decide.export", "evaluate", "check", "commit"} =>
        op.rec.kind = "DECISION" /\ InPlace(op.rec, batches)

AnswersInv == DecideSound /\ CommitmentFirst /\ SnapshotsKept

(* A request in place stays in place. *)
LEMMA InPlaceKept ==
    ASSUME TypeInv, [Next]_vars, NEW rec, InPlace(rec, batches)
    PROVE  InPlace(rec, batches')
BY LogGrows DEF InPlace, Kept

LEMMA DecideSoundStep ==
    ASSUME TypeInv, DecideSound, [Next]_vars
    PROVE  DecideSound'
<1>1. ASSUME NEW r \in Requests, NEW n \in DOMAIN blocks, DecideRead(r, n) PROVE DecideSound'
  <2>1. DecideRead(r, n)
    BY <1>1
  <2>2. UNCHANGED batches
    BY <2>1 DEF DecideRead, storeVars
  <2>3. PICK i \in DOMAIN entries :
            LET id == entries[i].batch IN
            /\ id \in DOMAIN batches
            /\ \E leaf \in DOMAIN batches[id] :
                  /\ batches[id][leaf] = RequestRecord(r)
                  /\ op'.rec = DecisionRecord(r, [batch |-> id,
                                                  leaf  |-> leaf,
                                                  block |-> Hash(anchored[id].block)])
    BY <2>1 DEF DecideRead
  <2> QED
    BY <2>2, <2>3 DEF DecideSound, InPlace, DecisionRecord
<1>2. CASE op' = op \/ (op' # Idle /\ op \in DecideOp /\ op'.rec = op.rec)
  <2>1. CASE op'.pc \in {"decide.export", "evaluate", "check", "commit"}
    <3>1. op'.rec = op.rec /\ op.pc \in {"decide.export", "evaluate", "check", "commit"}
      BY <1>2, <2>1 DEF DecideOp
    <3> QED
      BY <3>1, InPlaceKept DEF DecideSound, InPlace
  <2> QED
    BY <2>1 DEF DecideSound
<1>3. CASE op'.pc \notin {"decide.export", "evaluate", "check", "commit"}
  BY <1>3 DEF DecideSound
<1>4. CASE PrepareRead \/ Freeze \/ PrepareReturn \/ DecideCommit \/ Interrupt
  <2>1. op'.pc \notin {"decide.export", "evaluate", "check", "commit"}
    BY <1>4, OpCases
       DEF TypeInv, PrepareRead, Freeze, PrepareReturn, DecideCommit, Interrupt, Idle, PrepareOp
  <2> QED
    BY <1>3, <2>1
<1>5. CASE ExportBatch \/ Evaluate \/ DecideCheck
  <2>1. \/ op'.pc \notin {"decide.export", "evaluate", "check", "commit"}
        \/ op' # Idle /\ op \in DecideOp /\ op'.rec = op.rec
    BY <1>5, OpCases
       DEF TypeInv, ExportBatch, Exporting, Evaluate, DecideCheck, Idle, PrepareOp, DecideOp
  <2> QED
    BY <1>2, <1>3, <2>1
<1>6. CASE UNCHANGED op
  BY <1>2, <1>6
<1> QED
  BY <1>1, <1>4, <1>5, <1>6, Zenon DEF Next, vars, Submit, ExportBlob, Chain

LEMMA AnswersStep ==
    TypeInv /\ Ledger /\ RowsInv /\ AnswersInv /\ [Next]_vars => AnswersInv'
<1> SUFFICES ASSUME TypeInv, Ledger, RowsInv, AnswersInv, [Next]_vars PROVE AnswersInv'
  OBVIOUS
<1>1. DecideSound'
  BY DecideSoundStep DEF AnswersInv
<1>2. blobs \subseteq blobs'
  BY Zenon DEF Next, vars, storeVars, Submit, DecideRead, PrepareRead, Freeze, PrepareReturn,
               ExportBlob, ExportBatch, Evaluate, DecideCheck, DecideCommit, Interrupt, Chain
<1>3. CASE UNCHANGED entries
  <2>1. CommitmentFirst'
    BY <1>3, InPlaceKept DEF AnswersInv, CommitmentFirst, Decisions, InPlace
  <2>2. SnapshotsKept'
    BY <1>2, <1>3 DEF AnswersInv, SnapshotsKept, SnapshotOf
  <2> QED
    BY <1>1, <2>1, <2>2 DEF AnswersInv
<1>4. ASSUME NEW rec, Insert(rec),
             rec.kind = "DECISION" => InPlace(rec, batches'), SnapshotOf(rec) \subseteq blobs'
      PROVE  AnswersInv'
  <2>1. /\ DOMAIN entries' = 1..(Len(entries) + 1)
        /\ \A i \in 1..Len(entries) : entries'[i] = entries[i]
        /\ entries'[Len(entries) + 1] = [rec |-> rec, batch |-> 0]
    BY <1>4, InsertEffect
  <2>2. Len(entries) \in Nat /\ DOMAIN entries = 1..Len(entries)
    BY RowType DEF TypeInv
  <2>3. ASSUME NEW i \in DOMAIN entries', entries'[i].rec.kind = "DECISION"
        PROVE  /\ InPlace(entries'[i].rec, batches')
               /\ entries'[i].batch # 0 => entries'[i].batch > entries'[i].rec.ref.batch
    <3>1. CASE i \in DOMAIN entries
      <4>1. entries'[i] = entries[i]
        BY <2>1, <2>2, <3>1
      <4>2. InPlace(entries[i].rec, batches)
        BY <2>3, <3>1, <4>1 DEF AnswersInv, CommitmentFirst, Decisions, InPlace
      <4>3. InPlace(entries[i].rec, batches')
        BY <4>2, InPlaceKept
      <4> QED
        BY <2>3, <3>1, <4>1, <4>3 DEF AnswersInv, CommitmentFirst, Decisions, InPlace
    <3>2. CASE i = Len(entries) + 1
      BY <1>4, <2>1, <2>3, <3>2 DEF InPlace
    <3> QED
      BY <2>1, <2>2, <3>1, <3>2
  <2>4. CommitmentFirst'
    BY <2>3 DEF CommitmentFirst, Decisions, InPlace
  <2>5. SnapshotsKept'
    <3>1. ASSUME NEW i \in DOMAIN entries' PROVE SnapshotOf(entries'[i].rec) \subseteq blobs'
      <4>1. CASE i \in DOMAIN entries
        BY <1>2, <2>1, <2>2, <4>1 DEF AnswersInv, SnapshotsKept
      <4>2. CASE i = Len(entries) + 1
        BY <1>4, <2>1, <4>2
      <4> QED
        BY <2>1, <2>2, <4>1, <4>2
    <3> QED
      BY <3>1 DEF SnapshotsKept, SnapshotOf
  <2> QED
    BY <1>1, <2>4, <2>5 DEF AnswersInv
<1>5. CASE \E r \in Requests : Submit(r)
  <2>1. PICK r \in Requests : Submit(r)
    BY <1>5
  <2>2. Insert(RequestRecord(r))
    BY <2>1 DEF Submit
  <2>3. RequestRecord(r).kind = "REQUEST" /\ SnapshotOf(RequestRecord(r)) = {}
    BY DEF RequestRecord, SnapshotOf
  <2> QED
    BY <1>4, <2>2, <2>3
<1>6. CASE DecideCommit
  <2>1. op.rec.kind = "DECISION" /\ InPlace(op.rec, batches)
    BY <1>6 DEF DecideCommit, AnswersInv, DecideSound
  <2>2. InPlace(op.rec, batches') /\ SnapshotOf(op.rec) \subseteq blobs'
    BY <1>6, <2>1 DEF DecideCommit
  <2>3. CASE Recorded(op.rec)
    BY <1>3, <1>6, <2>3 DEF DecideCommit
  <2>4. CASE ~Recorded(op.rec)
    BY <1>4, <1>6, <2>2, <2>4 DEF DecideCommit
  <2> QED
    BY <2>3, <2>4
<1>7. CASE Freeze /\ op.id \notin DOMAIN batches
  <2>1. PICK n \in 1..BatchLimit : \E rows \in [1..n -> Pending] : Froze(n, rows)
    BY <1>7, FreezeEffect
  <2>2. PICK rows \in [1..n -> Pending] : Froze(n, rows)
    BY <2>1
  <2>3. DOMAIN entries' = DOMAIN entries
    BY <2>2 DEF Froze
  <2>4. \A i \in DOMAIN entries :
            /\ entries'[i].rec = entries[i].rec
            /\ entries'[i].batch = op.id \/ entries'[i].batch = entries[i].batch
    <3>1. ASSUME NEW i \in DOMAIN entries
          PROVE  \/ entries'[i] = [rec |-> entries[i].rec, batch |-> op.id]
                 \/ entries'[i] = entries[i]
      BY <2>2 DEF Froze
    <3>2. ASSUME NEW i \in DOMAIN entries
          PROVE  /\ entries'[i].rec = entries[i].rec
                 /\ entries'[i].batch = op.id \/ entries'[i].batch = entries[i].batch
      <4>1. CASE entries'[i] = [rec |-> entries[i].rec, batch |-> op.id]
        BY <4>1
      <4>2. CASE entries'[i] = entries[i]
        BY <4>2
      <4> QED
        BY <3>1, <4>1, <4>2
    <3> QED
      BY <3>2
  <2>5. ASSUME NEW i \in DOMAIN entries', entries'[i].rec.kind = "DECISION"
        PROVE  /\ InPlace(entries'[i].rec, batches')
               /\ entries'[i].batch # 0 => entries'[i].batch > entries'[i].rec.ref.batch
    <3>1. InPlace(entries[i].rec, batches)
      BY <2>3, <2>4, <2>5 DEF AnswersInv, CommitmentFirst, Decisions, InPlace
    <3>2. entries[i].batch # 0 => entries[i].batch > entries[i].rec.ref.batch
      BY <2>3, <2>4, <2>5 DEF AnswersInv, CommitmentFirst, Decisions
    <3>3. InPlace(entries[i].rec, batches')
      BY <3>1, InPlaceKept
    <3>4. op.id > entries[i].rec.ref.batch
      BY <2>2, <3>1 DEF Froze, InPlace
    <3> QED
      BY <2>3, <2>4, <3>2, <3>3, <3>4
  <2>6. CommitmentFirst'
    BY <2>5 DEF CommitmentFirst, Decisions, InPlace
  <2>7. SnapshotsKept'
    <3>1. \A i \in DOMAIN entries' : SnapshotOf(entries'[i].rec) \subseteq blobs'
      BY <1>2, <2>3, <2>4 DEF AnswersInv, SnapshotsKept
    <3> QED
      BY <3>1 DEF SnapshotsKept, SnapshotOf
  <2> QED
    BY <1>1, <2>6, <2>7 DEF AnswersInv
<1>8. CASE Freeze /\ op.id \in DOMAIN batches
  BY <1>3, <1>8 DEF Freeze
<1> QED
  BY <1>3, <1>5, <1>6, <1>7, <1>8, Zenon
     DEF Next, vars, storeVars, DecideRead, PrepareRead, PrepareReturn,
         ExportBlob, ExportBatch, Evaluate, DecideCheck, Interrupt, Chain

LEMMA AnswersAlways == Spec => [](TypeInv /\ Ledger /\ RowsInv /\ AnswersInv)
<1>1. Init => AnswersInv
  BY DEF Init, AnswersInv, DecideSound, CommitmentFirst, SnapshotsKept, Decisions, Idle
<1> QED
  BY <1>1, AnswersStep, RowsAlways, PTL DEF Spec

(* A decision answers a request committed in an earlier batch, at the leaf *)
(* its receipt names.                                                      *)
THEOREM AnswersFollow == Spec => []CommitmentFirst
  BY AnswersAlways, PTL DEF AnswersInv

(* The snapshot behind a stateHash is never lost. *)
THEOREM SnapshotsStay == Spec => []SnapshotsKept
  BY AnswersAlways, PTL DEF AnswersInv

(* What any step of the store adds to the records it holds. *)
LEMMA RecordSteps ==
    ASSUME TypeInv, Ledger, [Next]_vars
    PROVE  \/ /\ DOMAIN entries' = DOMAIN entries
              /\ \A i \in DOMAIN entries : entries'[i].rec = entries[i].rec
           \/ \E r \in Requests : Insert(RequestRecord(r))
           \/ DecideCommit /\ Insert(op.rec)
<1>1. CASE Freeze
  <2>1. CASE op.id \in DOMAIN batches
    BY <1>1, <2>1 DEF Freeze
  <2>2. CASE op.id \notin DOMAIN batches
    <3>1. \E n \in 1..BatchLimit : \E rows \in [1..n -> Pending] : Froze(n, rows)
      BY <1>1, <2>2, FreezeEffect
    <3> QED
      BY <3>1 DEF Froze
  <2> QED
    BY <2>1, <2>2
<1>2. CASE \E r \in Requests : Submit(r)
  BY <1>2, Zenon DEF Submit
<1>3. CASE DecideCommit
  BY <1>3, Zenon DEF DecideCommit
<1>4. CASE UNCHANGED entries
  BY <1>4
<1> QED
  BY <1>1, <1>2, <1>3, <1>4, Zenon
     DEF Next, vars, storeVars, DecideRead, PrepareRead, PrepareReturn,
         ExportBlob, ExportBatch, Evaluate, DecideCheck, Interrupt, Chain

LEMMA InsertDecisions ==
    ASSUME TypeInv, NEW rec, Insert(rec)
    PROVE  /\ Decisions' = Decisions \cup
                            (IF rec.kind = "DECISION" THEN {Len(entries) + 1} ELSE {})
           /\ \A i \in Decisions : entries'[i] = entries[i]
           /\ entries'[Len(entries) + 1].rec = rec
<1>1. /\ DOMAIN entries' = 1..(Len(entries) + 1)
      /\ \A i \in 1..Len(entries) : entries'[i] = entries[i]
      /\ entries'[Len(entries) + 1] = [rec |-> rec, batch |-> 0]
  BY InsertEffect
<1>2. Len(entries) \in Nat /\ DOMAIN entries = 1..Len(entries)
  BY RowType DEF TypeInv
<1> QED
  BY <1>1, <1>2 DEF Decisions

-----------------------------------------------------------------------------
(* A chain that keeps its blocks *)

Deciding == op.pc \in {"decide.export", "evaluate", "check", "commit"}

(* The receipt names the sealed block that anchors the request now. *)
Stands(ref) ==
    /\ ref.batch \in DOMAIN anchored
    /\ anchored[ref.batch].block <= Len(blocks)
    /\ ref.block = Hash(anchored[ref.batch].block)

SteadyInv ==
    /\ MaxReorgs = 0
    /\ Deciding => Stands(op.rec.ref)
    /\ \A i \in Decisions : Stands(entries[i].rec.ref)
    /\ EventOrder

(* Without reorganisations blocks and anchors are only added, an anchor in *)
(* the block that is sealed next.                                          *)
LEMMA ChainGrows ==
    ASSUME TypeInv, MaxReorgs = 0, [Next]_vars
    PROVE  /\ Len(blocks) <= Len(blocks')
           /\ \A n \in 1..Len(blocks) : blocks'[n] = blocks[n]
           /\ \A id \in DOMAIN anchored : id \in DOMAIN anchored' /\ anchored'[id] = anchored[id]
           /\ \A id \in DOMAIN anchored' \ DOMAIN anchored : anchored'[id].block = Len(blocks) + 1
<1>1. /\ blocks \in Seq(Nat) /\ Len(blocks) \in Nat
      /\ anchored \in Seq(Anchor) /\ Len(anchored) \in Nat
      /\ DOMAIN anchored = 1..Len(anchored) /\ fork \in Nat
  BY DEF TypeInv, TypeOK
<1>2. ASSUME NEW call \in calls, AnchorBatch(call)
      PROVE  /\ UNCHANGED blocks /\ DOMAIN anchored' = 1..(Len(anchored) + 1)
             /\ \A id \in DOMAIN anchored : anchored'[id] = anchored[id]
             /\ anchored'[Len(anchored) + 1].block = Len(blocks) + 1
  <2> DEFINE new == [records |-> call.records, block |-> Len(blocks) + 1]
  <2>1. anchored' = Append(anchored, new) /\ UNCHANGED blocks
    BY <1>2 DEF AnchorBatch
  <2>2. new.block = Len(blocks) + 1
    OBVIOUS
  <2> HIDE DEF new
  <2> QED
    BY <1>1, <2>1, <2>2
<1>3. CASE UNCHANGED <<blocks, anchored>>
  BY <1>1, <1>3
<1>4. CASE Seal
  BY <1>1, <1>4 DEF Seal
<1>5. ASSUME NEW h \in 1..(Len(blocks) - 1), Reorg(h) PROVE FALSE
  BY <1>1, <1>5 DEF Reorg
<1>6. \/ UNCHANGED <<blocks, anchored>> \/ Seal
      \/ \E call \in calls : AnchorBatch(call)
      \/ \E h \in 1..(Len(blocks) - 1) : Reorg(h)
  BY Zenon DEF Next, vars, chainVars, Submit, DecideRead, PrepareRead, Freeze, PrepareReturn, ExportBlob,
         ExportBatch, Evaluate, DecideCheck, DecideCommit, Interrupt, Chain, ChainStep
<1> QED
  BY <1>1, <1>2, <1>3, <1>4, <1>5, <1>6

LEMMA StandsKept ==
    ASSUME TypeInv, MaxReorgs = 0, [Next]_vars, NEW ref, Stands(ref)
    PROVE  Stands(ref)'
<1>1. anchored[ref.batch] \in Anchor /\ Len(blocks) \in Nat /\ Len(blocks') \in Nat
  BY SMTT(30), TypeStep DEF TypeInv, TypeOK, Stands
<1>2. anchored[ref.batch].block \in 1..Len(blocks)
  BY <1>1 DEF Stands, Anchor
<1> QED
  BY <1>1, <1>2, ChainGrows DEF Stands, Hash

(* What decide works on is what it read, or what it has just read.         *)
LEMMA DecidingSteps ==
    ASSUME TypeInv, [Next]_vars, Deciding'
    PROVE  \/ Deciding /\ op'.rec = op.rec
           \/ \E r \in Requests, n \in DOMAIN blocks : DecideRead(r, n)
<1>1. CASE UNCHANGED op
  BY <1>1 DEF Deciding
<1>2. CASE PrepareRead \/ Freeze \/ PrepareReturn \/ DecideCommit \/ Interrupt
  BY <1>2, OpCases
     DEF TypeInv, PrepareRead, Freeze, PrepareReturn, DecideCommit, Interrupt, Idle, PrepareOp, Deciding
<1>3. CASE ExportBatch \/ Evaluate \/ DecideCheck
  BY <1>3, OpCases
     DEF TypeInv, ExportBatch, Exporting, Evaluate, DecideCheck, Idle, PrepareOp, DecideOp, Deciding
<1> QED
  BY <1>1, <1>2, <1>3, Zenon DEF Next, vars, Submit, ExportBlob, Chain

LEMMA SteadyStep ==
    TypeInv /\ Ledger /\ SteadyInv /\ [Next]_vars => SteadyInv'
<1> SUFFICES ASSUME TypeInv, Ledger, SteadyInv, [Next]_vars PROVE SteadyInv'
  OBVIOUS
<1>1. MaxReorgs = 0
  BY DEF SteadyInv
<1>2. ASSUME Deciding' PROVE Stands(op.rec.ref)'
  <2>1. CASE Deciding /\ op'.rec = op.rec
    <3>1. PICK ref : ref = op.rec.ref
      OBVIOUS
    <3>2. Stands(ref)'
      BY <1>1, <2>1, <3>1, StandsKept DEF SteadyInv
    <3> QED
      BY <2>1, <3>1, <3>2 DEF Stands
  <2>2. ASSUME NEW r \in Requests, NEW n \in DOMAIN blocks, DecideRead(r, n)
        PROVE  Stands(op.rec.ref)'
    <3>1. UNCHANGED <<blocks, anchored>>
      BY <2>2 DEF DecideRead, chainVars
    <3>0. PICK i \in DOMAIN entries :
            LET id == entries[i].batch IN
            /\ id \in DOMAIN anchored /\ anchored[id].block <= n
            /\ \E leaf \in DOMAIN batches[id] :
                  op'.rec = DecisionRecord(r, [batch |-> id,
                                               leaf  |-> leaf,
                                               block |-> Hash(anchored[id].block)])
      BY <2>2 DEF DecideRead
    <3>2. /\ entries[i].batch \in DOMAIN anchored /\ anchored[entries[i].batch].block <= n
          /\ op'.rec.ref.batch = entries[i].batch
          /\ op'.rec.ref.block = Hash(anchored[entries[i].batch].block)
      BY <3>0 DEF DecisionRecord
    <3>3. Len(blocks) \in Nat /\ n \in 1..Len(blocks)
      BY DEF TypeInv, TypeOK
    <3>4. anchored[entries[i].batch].block \in Nat
      <4>1. anchored[entries[i].batch] \in Anchor
        BY <3>2 DEF TypeInv, TypeOK
      <4> QED
        BY <4>1 DEF Anchor
    <3>5. anchored[entries[i].batch].block <= Len(blocks)
      BY <3>2, <3>3, <3>4
    <3> QED
      BY <3>1, <3>2, <3>5 DEF Stands, Hash
  <2> QED
    BY <1>2, <2>1, <2>2, DecidingSteps
<1>3. ASSUME NEW i \in Decisions, Stands(entries[i].rec.ref) PROVE Stands(entries[i].rec.ref)'
                                                          \/ entries'[i].rec # entries[i].rec
  <2>1. PICK ref : ref = entries[i].rec.ref
    OBVIOUS
  <2>2. Stands(ref)'
    BY <1>1, <1>3, <2>1, StandsKept
  <2> QED
    BY <2>1, <2>2 DEF Stands
<1>4. \A i \in Decisions' : Stands(entries[i].rec.ref)'
  <2>1. CASE /\ DOMAIN entries' = DOMAIN entries
             /\ \A i \in DOMAIN entries : entries'[i].rec = entries[i].rec
    BY <1>3, <2>1 DEF Decisions, SteadyInv
  <2>2. ASSUME NEW rec, Insert(rec), rec.kind = "DECISION" => Stands(rec.ref)
        PROVE  \A i \in Decisions' : Stands(entries[i].rec.ref)'
    <3>1. rec.kind = "DECISION" => Stands(rec.ref)'
      BY <1>1, <2>2, StandsKept
    <3>2. /\ Decisions' = Decisions \cup (IF rec.kind = "DECISION" THEN {Len(entries) + 1} ELSE {})
          /\ \A i \in Decisions : entries'[i] = entries[i]
          /\ entries'[Len(entries) + 1].rec = rec
      BY <2>2, InsertDecisions
    <3> QED
      BY <1>3, <3>1, <3>2 DEF SteadyInv, Stands
  <2>3. ASSUME NEW r \in Requests, Insert(RequestRecord(r))
        PROVE  \A i \in Decisions' : Stands(entries[i].rec.ref)'
    BY <2>2, <2>3 DEF RequestRecord
  <2>4. CASE DecideCommit /\ Insert(op.rec)
    <3>1. PICK rec : rec = op.rec
      OBVIOUS
    <3>2. Insert(rec) /\ Stands(rec.ref)
      BY <2>4, <3>1 DEF DecideCommit, SteadyInv, Deciding, Insert
    <3> QED
      BY <2>2, <3>2
  <2> QED
    BY <2>1, <2>3, <2>4, RecordSteps
<1>5. EventOrder'
  <2> SUFFICES ASSUME NEW i \in Decisions', entries'[i].batch \in DOMAIN anchored'
               PROVE  /\ entries'[i].rec.ref.batch \in DOMAIN anchored'
                      /\ anchored'[entries'[i].rec.ref.batch].block
                            < anchored'[entries'[i].batch].block
    BY DEF EventOrder
  <2> DEFINE answer == entries'[i].batch
             asked == entries'[i].rec.ref.batch
  <2>1. Stands(entries[i].rec.ref)'
    BY <1>4
  <2>2. asked \in DOMAIN anchored' /\ anchored'[asked].block <= Len(blocks')
    BY <2>1 DEF Stands
  <2>3. /\ Len(anchored) \in Nat /\ DOMAIN anchored = 1..Len(anchored)
        /\ Len(blocks) \in Nat /\ Len(blocks') \in Nat
        /\ anchored'[asked].block \in Nat /\ anchored'[answer].block \in Nat
    <3>1. TypeInv /\ TypeInv'
      BY TypeStep
    <3>2. /\ anchored \in Seq(Anchor) /\ anchored' \in Seq(Anchor)
          /\ blocks \in Seq(Nat) /\ blocks' \in Seq(Nat)
      BY <3>1 DEF TypeInv, TypeOK
    <3>3. answer \in DOMAIN anchored'
      OBVIOUS
    <3> HIDE DEF answer, asked
    <3>4. anchored'[asked] \in Anchor /\ anchored'[answer] \in Anchor
      BY <2>2, <3>2, <3>3
    <3>5. anchored'[asked].block \in Nat /\ anchored'[answer].block \in Nat
      BY <3>4 DEF Anchor
    <3> QED
      BY <3>2, <3>5
  <2>4. ASSUME i \in Decisions, entries'[i] = entries[i]
        PROVE  anchored'[asked].block < anchored'[answer].block
    <3>1. asked \in DOMAIN anchored /\ anchored[asked].block <= Len(blocks)
      BY <2>4 DEF SteadyInv, Stands
    <3>2. anchored'[asked] = anchored[asked]
      BY <1>1, <3>1, ChainGrows
    <3>3. CASE answer \in DOMAIN anchored
      <4>1. anchored[asked].block < anchored[answer].block
        BY <2>4, <3>3 DEF SteadyInv, EventOrder
      <4> QED
        BY <1>1, <3>2, <3>3, <4>1, ChainGrows
    <3>4. CASE answer \notin DOMAIN anchored
      <4>1. anchored'[answer].block = Len(blocks) + 1
        BY <1>1, <3>4, ChainGrows
      <4> HIDE DEF answer, asked
      <4> QED
        BY <2>3, <3>1, <3>2, <4>1
    <3> QED
      BY <3>3, <3>4
  <2>5. CASE UNCHANGED <<entries, batches>>
    <3>1. i \in Decisions /\ entries'[i] = entries[i]
      BY <2>5 DEF Decisions
    <3> QED
      BY <2>2, <2>4, <3>1
  <2>6. ASSUME NEW rec, Insert(rec) PROVE anchored'[asked].block < anchored'[answer].block
    <3>1. /\ DOMAIN entries' = 1..(Len(entries) + 1)
          /\ \A j \in 1..Len(entries) : entries'[j] = entries[j]
          /\ entries'[Len(entries) + 1] = [rec |-> rec, batch |-> 0]
      BY <2>6, InsertEffect
    <3>2. Len(entries) \in Nat /\ DOMAIN entries = 1..Len(entries)
      BY RowType DEF TypeInv
    <3>3. 0 \notin DOMAIN anchored'
      BY TypeStep DEF TypeInv, TypeOK
    <3>4. i \in 1..Len(entries)
      BY <3>1, <3>2, <3>3 DEF Decisions
    <3> QED
      BY <2>4, <3>1, <3>2, <3>4 DEF Decisions
  <2>7. ASSUME Freeze, NEW n \in 1..BatchLimit, NEW rows \in [1..n -> Pending], Froze(n, rows)
        PROVE  anchored'[asked].block < anchored'[answer].block
    <3>1. UNCHANGED anchored /\ op.id \notin DOMAIN batches
      BY <2>7 DEF Freeze, chainVars, Froze
    <3>2. op.id \notin DOMAIN anchored'
      BY <3>1 DEF Ledger, AnchorsFaithful, ArchiveFaithful
    <3>3. i \in DOMAIN entries /\ entries'[i].rec = entries[i].rec
          /\ (entries'[i] = entries[i] \/ entries'[i].batch = op.id)
      BY <2>7 DEF Froze, Decisions
    <3> QED
      BY <2>4, <3>2, <3>3 DEF Decisions
  <2> QED
    BY <2>2, <2>5, <2>6, <2>7, RowSteps
<1> QED
  BY <1>1, <1>2, <1>4, <1>5 DEF SteadyInv

LEMMA SteadyAlways == MaxReorgs = 0 /\ Spec => []SteadyInv
<1>1. MaxReorgs = 0 /\ Init => SteadyInv
  BY DEF Init, SteadyInv, Deciding, Decisions, EventOrder, Idle
<1> QED
  BY <1>1, SteadyStep, LedgerAlways, PTL DEF Spec

(* While the chain keeps its blocks, the receipt of every decision names   *)
(* the batch, the leaf and the block its request is anchored in (store.js, *)
(* decide).                                                                *)
THEOREM ReceiptsStand == MaxReorgs = 0 /\ Spec => []ReceiptsHold
<1>1. ASSUME Ledger, AnswersInv, SteadyInv PROVE ReceiptsHold
  <2> SUFFICES ASSUME NEW i \in Decisions
               PROVE  LET ref == entries[i].rec.ref IN
                      /\ ref.batch \in DOMAIN anchored
                      /\ ref.block = Hash(anchored[ref.batch].block)
                      /\ ref.leaf \in DOMAIN anchored[ref.batch].records
                      /\ anchored[ref.batch].records[ref.leaf] = RequestRecord(entries[i].rec.req)
    BY DEF ReceiptsHold
  <2> DEFINE ref == entries[i].rec.ref
  <2>1. ref.batch \in DOMAIN anchored /\ ref.block = Hash(anchored[ref.batch].block)
    BY <1>1 DEF SteadyInv, Stands
  <2>2. anchored[ref.batch].records = batches[ref.batch]
    BY <1>1, <2>1 DEF Ledger, AnchorsFaithful
  <2>3. /\ ref.leaf \in DOMAIN batches[ref.batch]
        /\ batches[ref.batch][ref.leaf] = RequestRecord(entries[i].rec.req)
    BY <1>1 DEF AnswersInv, CommitmentFirst
  <2> QED
    BY <2>1, <2>2, <2>3
<1> QED
  BY <1>1, SteadyAlways, AnswersAlways, PTL

(* While the chain keeps its blocks, an anchored decision lies in a later  *)
(* block than the request it answers.                                      *)
THEOREM AnswersComeLater == MaxReorgs = 0 /\ Spec => []EventOrder
<1>1. SteadyInv => EventOrder
  BY DEF SteadyInv
<1> QED
  BY <1>1, SteadyAlways, PTL

-----------------------------------------------------------------------------
(* The store implements the commitment log *)

(* Freezing a batch is what the log calls closing one. *)
LEMMA FreezeCloses ==
    ASSUME TypeInv, Ledger, RowsInv, AnswersInv, Freeze, op.id \notin DOMAIN batches
    PROVE  Log!Close
<1>1. PICK n \in 1..BatchLimit : \E rows \in [1..n -> Pending] : Froze(n, rows)
  BY FreezeEffect
<1>2. PICK rows \in [1..n -> Pending] : Froze(n, rows)
  BY <1>1
<1>3. /\ op.id \in Nat \ {0}
      /\ DOMAIN batches = 1..(op.id - 1)
      /\ DOMAIN batches' = 1..op.id
      /\ \A k \in DOMAIN batches : batches'[k] = batches[k]
  BY <1>2 DEF Froze
<1>4. DOMAIN archive = DOMAIN batches
  <2>1. \A j \in DOMAIN batches : j \in DOMAIN archive
    BY <1>3 DEF Freeze, Ledger, PrepareSound
  <2> QED
    BY <2>1 DEF Ledger, ArchiveFaithful
<1>5. DOMAIN archive' = DOMAIN archive /\ Len(anchored)' = Len(anchored)
  BY DEF Freeze, chainVars
<1>6. /\ DOMAIN batches'[op.id] = 1..n
      /\ \A k \in 1..n : batches'[op.id][k] = entries[rows[k]].rec
      /\ \A k \in 1..n : rows[k] \in DOMAIN entries /\ entries[rows[k]].batch = 0
  BY <1>2 DEF Froze
<1>7. ASSUME NEW k \in 1..n PROVE ~Log!Committed(batches'[op.id][k])
  <2>1. SUFFICES ASSUME NEW id \in DOMAIN batches, NEW j \in DOMAIN batches[id],
                        batches[id][j] = entries[rows[k]].rec
                 PROVE  FALSE
    BY <1>6 DEF Log!Committed
  <2>2. PICK i \in DOMAIN entries : entries[i] = [rec |-> batches[id][j], batch |-> id]
    BY DEF RowsInv, FrozenPartition
  <2>3. entries[i].rec = entries[rows[k]].rec /\ entries[i].batch = id
    BY <2>1, <2>2
  <2>4. i = rows[k]
    BY SMTT(30), <1>6, <2>3 DEF RowsInv, Unique
  <2> QED
    BY <1>3, <1>6, <2>3, <2>4
<1>8. ASSUME NEW k \in 1..n PROVE Log!Answers(batches'[op.id][k])
  BY <1>6 DEF Log!Answers, AnswersInv, CommitmentFirst, Decisions, RequestRecord
<1>9. ASSUME NEW j \in 1..n, NEW k \in 1..n, batches'[op.id][j] = batches'[op.id][k]
       PROVE  j = k
  <2>1. rows[j] = rows[k]
    BY <1>6, <1>9 DEF RowsInv, Unique
  <2>2. rows[j] \in Nat
    BY <1>6, RowType DEF TypeInv
  <2>3. (j < k => rows[j] < rows[k]) /\ (k < j => rows[k] < rows[j])
    BY <1>2 DEF Froze, OldestPending
  <2> QED
    BY <2>1, <2>2, <2>3
<1>10. Log!Acceptable(batches'[op.id])
  BY <1>6, <1>7, <1>8, <1>9 DEF Log!Acceptable
<1>11. UNCHANGED <<DOMAIN archive, Len(anchored)>>
  BY <1>5
<1>12. \E id \in DOMAIN batches' :
          /\ DOMAIN batches = 1..(id - 1)
          /\ DOMAIN batches' = 1..id
          /\ Log!Acceptable(batches'[id])
  BY <1>3, <1>10
<1>13. \A k \in DOMAIN batches : batches'[k] = batches[k]
  BY <1>3
<1> QED
  BY <1>4, <1>11, <1>12, <1>13 DEF Log!Close

LEMMA StepImplementsLog ==
    TypeInv /\ Ledger /\ RowsInv /\ AnswersInv /\ [Next]_vars => [Log!Next]_Log!vars
<1> SUFFICES ASSUME TypeInv, Ledger, RowsInv, AnswersInv, [Next]_vars
             PROVE  [Log!Next]_Log!vars
  OBVIOUS
<1>1. CASE UNCHANGED <<batches, archive, anchored>>
  BY <1>1 DEF Log!vars
<1>2. CASE Freeze
  <2>1. CASE op.id \in DOMAIN batches
    BY <1>1, <1>2, <2>1 DEF Freeze, chainVars
  <2>2. CASE op.id \notin DOMAIN batches
    BY <1>2, <2>2, FreezeCloses DEF Log!Next
  <2> QED
    BY <2>1, <2>2
<1>3. CASE ExportBatch
  <2>1. op.id \in DOMAIN batches /\ UNCHANGED <<batches, anchored>>
    BY <1>3 DEF ExportBatch, Exporting, chainVars
  <2>2. DOMAIN archive' = DOMAIN archive \cup {op.id}
    BY <1>3 DEF ExportBatch, Extend
  <2>3. CASE op.id \in DOMAIN archive
    BY <2>1, <2>2, <2>3 DEF Log!vars
  <2>4. CASE op.id \notin DOMAIN archive
    BY <2>1, <2>2, <2>4 DEF Log!Next, Log!Publish
  <2> QED
    BY <2>3, <2>4
<1>4. CASE Chain
  <2>1. UNCHANGED <<batches, archive>>
    BY <1>4 DEF Chain, storeVars
  <2>2. anchored \in Seq(Anchor) /\ Len(anchored) \in Nat
    BY DEF TypeInv, TypeOK
  <2>3. ASSUME NEW call \in calls, AnchorBatch(call) PROVE Log!Confirm
    <3>1. call.id = Len(anchored) + 1 /\ Len(anchored') = Len(anchored) + 1
      BY <2>2, <2>3 DEF AnchorBatch
    <3> QED
      BY <2>1, <3>1 DEF Ledger, CallsFaithful, Log!Confirm
  <2>4. ASSUME NEW h \in 1..(Len(blocks) - 1), Reorg(h)
        PROVE  Log!Rollback \/ UNCHANGED Log!vars
    <3>1. CountAt(h) \in 0..Len(anchored)
      <4>1. h \in Nat
        OBVIOUS
      <4> QED
        BY <4>1, CountBound DEF TypeInv
    <3>2. Len(anchored') = CountAt(h)
      BY <2>2, <2>4, <3>1 DEF Reorg
    <3> QED
      BY <2>1, <2>2, <3>1, <3>2 DEF Log!Rollback, Log!vars
  <2> QED
    BY <1>1, <1>4, <2>1, <2>3, <2>4 DEF Chain, ChainStep, Seal, Log!Next
<1> QED
  BY <1>1, <1>2, <1>3, <1>4, Zenon
     DEF Next, vars, storeVars, chainVars, Submit, DecideRead, PrepareRead, PrepareReturn,
         ExportBlob, Evaluate, DecideCheck, DecideCommit, Interrupt

(* Every behaviour of the store, whatever chain and callers do, is one of  *)
(* the append-only commitment log.                                         *)
THEOREM Implementation == Spec => ImplementsLog
<1>1. Init => Log!Init
  BY DEF Init, ChainInit, Log!Init
<1> QED
  BY <1>1, StepImplementsLog, AnswersAlways, PTL DEF Spec, ImplementsLog, Log!Spec
=============================================================================
