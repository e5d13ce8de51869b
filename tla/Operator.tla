------------------------------ MODULE Operator ------------------------------
(***************************************************************************)
(* The operator daemon (operator/run.js): one process that loops over      *)
(* submit, register, decide, register and audit on one EvidenceStore, and  *)
(* sends every anchor transaction through a journal it can resume after a  *)
(* crash.                                                                  *)
(*                                                                         *)
(* Everything the store does is an action of EvidenceStore, taken here     *)
(* when the daemon's loop calls it.  Files are durable; `phase', `tx',     *)
(* `view' and `todo' live in memory and are lost with the process.         *)
(***************************************************************************)
EXTENDS EvidenceStore

CONSTANTS
    DailyFees,     \* transactions the daily budget pays for
    MaxStops,      \* bound: crashes and orderly stops
    MaxFaults,     \* bound: errors of the RPC node or the file system
    LockCleared    \* TRUE if somebody deletes a stale operator.lock

ASSUME OperatorAssumption ==
    /\ DailyFees \in Nat /\ MaxStops \in Nat /\ MaxFaults \in Nat
    /\ LockCleared \in BOOLEAN

VARIABLES
    files,      \* request-<id>.json files, written by producers
    lock,       \* operator.lock exists
    phase,      \* where in its cycle the daemon is
    view,       \* the block the decisions of this cycle are taken in
    todo,       \* requests of this cycle still to be decided
    tx,         \* transaction in progress
    journal,    \* tx-batch-<id>.json: id -> signed transaction
    spent,      \* fees booked in budget.json today
    network,    \* transactions ever sent to the network
    executed,   \* transactions of the publisher on the chain, by nonce
    stops, faults

loopVars == <<phase, view, todo, tx>>
diskVars == <<files, lock, journal, spent>>
netVars == <<network, executed>>
bounds == <<stops, faults>>
operatorVars == <<loopVars, diskVars, netVars, bounds>>
allVars == <<vars, operatorVars>>

Down == "down"
None == [step |-> "none"]

NoView == Hash(1)

(* A signed transaction; its hash and bytes are fixed by these two. *)
Signed(nonce, call) == [nonce |-> nonce, call |-> call]

Quiet == op = Idle /\ tx = None

Registering == phase \in {"register", "answer"}

AfterRegister == IF phase = "register" THEN "list" ELSE "audit"

GoTo(p) == phase' = p /\ UNCHANGED <<view, todo, tx>>

-----------------------------------------------------------------------------
(* Producers and the life of the process *)

(* `run.js request' links the finished file into place. *)
Produce(r) ==
    /\ r \notin files
    /\ files' = files \cup {r}
    /\ UNCHANGED <<vars, loopVars, lock, journal, spent, netVars, bounds>>

(* The lock file is created exclusively: an existing one is an error. *)
Start ==
    /\ phase = Down
    /\ ~lock
    /\ lock' = TRUE
    /\ GoTo("submit")
    /\ UNCHANGED <<vars, files, journal, spent, netVars, bounds>>

Forget == view' = NoView /\ todo' = {} /\ tx' = None

(* SIGTERM only sets a flag; the loop ends after its pause and close()     *)
(* deletes the lock.                                                       *)
Stop ==
    /\ phase = "sleep" /\ stops < MaxStops
    /\ stops' = stops + 1
    /\ phase' = Down
    /\ lock' = FALSE
    /\ UNCHANGED <<vars, view, todo, tx, files, journal, spent, netVars, faults>>

Crash ==
    /\ phase # Down /\ stops < MaxStops
    /\ stops' = stops + 1
    /\ phase' = Down
    /\ op' = Idle
    /\ Forget
    /\ UNCHANGED <<chainVars, storeVars, diskVars, netVars, faults>>

(* Outside the code: nothing in src/ deletes the lock of a dead process. *)
ClearLock ==
    /\ LockCleared /\ phase = Down /\ lock
    /\ lock' = FALSE
    /\ UNCHANGED <<vars, loopVars, files, journal, spent, netVars, bounds>>

-----------------------------------------------------------------------------
(* cycle *)

SubmitFile(r) ==
    /\ phase = "submit" /\ r \in files
    /\ Submit(r)
    /\ UNCHANGED operatorVars

SubmitDone ==
    /\ phase = "submit"
    /\ \A r \in files : Recorded(RequestRecord(r))
    /\ GoTo("register")
    /\ UNCHANGED <<vars, diskVars, netVars, bounds>>

(* Mutant: frozen batches the chain lacks are forgotten. *)
RowsPending == Pending # {}

(* register: a frozen batch the chain lacks, or rows in no batch yet. *)
WorkPending ==
    \/ \E id \in DOMAIN batches : id > CountAt(Len(blocks))
    \/ Pending # {}

RegisterNothing ==
    /\ Registering /\ Quiet /\ ~WorkPending
    /\ GoTo(AfterRegister)
    /\ UNCHANGED <<vars, diskVars, netVars, bounds>>

RegisterPrepare ==
    /\ Registering /\ Quiet /\ WorkPending
    /\ PrepareRead
    /\ UNCHANGED operatorVars

(* The awaited steps of prepare and decide, in EvidenceStore's words. *)
StoreWorks ==
    /\ Freeze \/ ExportBlob \/ ExportBatch \/ Evaluate \/ DecideCheck \/ DecideCommit
    /\ UNCHANGED operatorVars

(* Mutant: the transaction is taken for the newest batch of the table. *)
RegisterPreparedNewest ==
    /\ Registering
    /\ PrepareReturn
    /\ LET newest == Cardinality(DOMAIN batches) IN
       tx' = [step |-> "open", call |-> [id |-> newest, records |-> batches[op.id]]]
    /\ UNCHANGED <<phase, view, todo, diskVars, netVars, bounds>>

(* Mutant: the transaction is sent though prepare did not return it. *)
RegisterUnconfirmed ==
    /\ Registering /\ op.pc = "confirm"
    /\ op' = Idle
    /\ tx' = [step |-> "open", call |-> [id |-> op.id, records |-> batches[op.id]]]
    /\ UNCHANGED <<chainVars, storeVars, phase, view, todo, diskVars, netVars, bounds>>

RegisterPrepared ==
    /\ Registering
    /\ PrepareReturn
    /\ tx' = [step |-> "open", call |-> [id |-> op.id, records |-> batches[op.id]]]
    /\ UNCHANGED <<phase, view, todo, diskVars, netVars, bounds>>

(* Mutant: requests that have a decision are listed too. *)
ListAll ==
    /\ phase = "list"
    /\ phase' = "decide"
    /\ view' = Latest
    /\ todo' = {r \in Requests :
                  \E i \in DOMAIN entries :
                     entries[i].rec = RequestRecord(r) /\ entries[i].batch # 0}
    /\ UNCHANGED <<vars, tx, diskVars, netVars, bounds>>

(* One view for all decisions; every batched request without a decision,   *)
(* whatever receipt that decision carries.                                 *)
ListUndecided ==
    /\ phase = "list"
    /\ phase' = "decide"
    /\ view' = Latest
    /\ todo' = {r \in Requests :
                  /\ \E i \in DOMAIN entries :
                        entries[i].rec = RequestRecord(r) /\ entries[i].batch # 0
                  /\ \A i \in Decisions : entries[i].rec.req # r}
    /\ UNCHANGED <<vars, tx, diskVars, netVars, bounds>>

DecideNext(r) ==
    /\ phase = "decide" /\ r \in todo
    /\ Canonical(view)
    /\ DecideRead(r, view.number)
    /\ todo' = todo \ {r}
    /\ UNCHANGED <<phase, view, tx, diskVars, netVars, bounds>>

DecideDone ==
    /\ phase = "decide" /\ todo = {} /\ op = Idle
    /\ phase' = "answer" /\ view' = NoView
    /\ UNCHANGED <<vars, todo, tx, diskVars, netVars, bounds>>

(* audit.json is built from the archive alone, one file per anchored batch. *)
Audit ==
    /\ phase = "audit"
    /\ 1..CountAt(Len(blocks)) \subseteq DOMAIN archive
    /\ GoTo("sleep")
    /\ UNCHANGED <<vars, diskVars, netVars, bounds>>

Wake ==
    /\ phase = "sleep"
    /\ GoTo("submit")
    /\ UNCHANGED <<vars, diskVars, netVars, bounds>>

-----------------------------------------------------------------------------
(* transact *)

Step(s) == tx' = [tx EXCEPT !.step = s] /\ UNCHANGED <<phase, view, todo>>

(* A journal left by an earlier attempt is used as it stands, if it is for *)
(* the same call (JOURNAL_MISMATCH).                                       *)
OpenJournal ==
    /\ tx.step = "open"
    /\ tx.call.id \in DOMAIN journal
    /\ journal[tx.call.id].call = tx.call
    /\ Step("lookup")
    /\ UNCHANGED <<vars, diskVars, netVars, bounds>>

(* Mutant: a journal is not looked for. *)
EstimateAlways ==
    /\ tx.step = "open"
    /\ tx.call.id = CountAt(Len(blocks)) + 1
    /\ Step("quote")
    /\ UNCHANGED <<vars, diskVars, netVars, bounds>>

(* estimateGas runs the call on the latest state and fails if it reverts.  *)
Estimate ==
    /\ tx.step = "open"
    /\ tx.call.id \notin DOMAIN journal
    /\ tx.call.id = CountAt(Len(blocks)) + 1
    /\ Step("quote")
    /\ UNCHANGED <<vars, diskVars, netVars, bounds>>

(* The nonce the node proposes: the next on its chain, or the next after   *)
(* the transactions its pool still holds.  After a reorganisation the pool *)
(* may or may not have taken the dropped ones back.                        *)
ProposedNonces ==
    LET next == Len(executed) + 1
    IN  {next} \cup {n \in next..(next + Cardinality(network)) :
                        /\ \A m \in next..(n - 1) : \E raw \in network : raw.nonce = m
                        /\ \A raw \in network : raw.nonce # n}

(* Mutant: the budget is booked but not checked. *)
ChargeUnchecked ==
    /\ tx.step = "quote"
    /\ spent' = spent + 1
    /\ \E n \in ProposedNonces :
          tx' = [step |-> "sign", call |-> tx.call, nonce |-> n]
    /\ UNCHANGED <<vars, phase, view, todo, files, lock, journal, netVars, bounds>>

(* prepareTransactionRequest, and the fee booked before anything is signed. *)
Charge ==
    /\ tx.step = "quote"
    /\ spent < DailyFees
    /\ spent' = spent + 1
    /\ \E n \in ProposedNonces :
          tx' = [step |-> "sign", call |-> tx.call, nonce |-> n]
    /\ UNCHANGED <<vars, phase, view, todo, files, lock, journal, netVars, bounds>>

(* Mutant: the transaction is sent before it is journaled. *)
SendUnsaved ==
    /\ tx.step = "sign"
    /\ network' = network \cup {Signed(tx.nonce, tx.call)}
    /\ UNCHANGED <<vars, loopVars, diskVars, executed, bounds>>

SaveJournal ==
    /\ tx.step = "sign"
    /\ journal' = Extend(journal, tx.call.id, Signed(tx.nonce, tx.call))
    /\ tx' = [step |-> "lookup", call |-> tx.call]
    /\ UNCHANGED <<vars, phase, view, todo, files, lock, spent, netVars, bounds>>

(* The receipt of a transaction, once its block is sealed. *)
Receipts(raw) ==
    {n \in DOMAIN executed : executed[n].raw = raw /\ executed[n].block <= Len(blocks)}

Send ==
    /\ tx.step = "lookup"
    /\ Receipts(journal[tx.call.id]) = {}
    /\ network' = network \cup {journal[tx.call.id]}
    /\ Step("wait")
    /\ UNCHANGED <<vars, diskVars, executed, bounds>>

(* A receipt that says success, in a block that is still canonical.  While *)
(* waiting, the client library also takes that of the transaction which    *)
(* used the nonce instead.                                                 *)
Settle ==
    /\ tx.step \in {"lookup", "wait"}
    /\ LET raw == journal[tx.call.id] IN
       /\ raw.nonce \in DOMAIN executed
       /\ executed[raw.nonce].block <= Len(blocks)
       /\ executed[raw.nonce].ok
       /\ tx.step = "lookup" => executed[raw.nonce].raw = raw
    /\ tx' = None
    /\ phase' = AfterRegister
    /\ UNCHANGED <<vars, view, todo, diskVars, netVars, bounds>>

-----------------------------------------------------------------------------
(* Errors: every one ends the cycle, which starts over after a pause *)

(* A check of the code fails, or 60 seconds pass without a receipt. *)
CheckFails ==
    \/ op.pc \in {"confirm", "check"} /\ ~Canonical(op.view)          \* REORG
    \/ op.pc = "evaluate" /\ ~Canonical(op.rec.ref.block)             \* REORG
    \/ /\ phase = "decide" /\ op = Idle                               \* BATCH_UNAVAILABLE
       /\ \E r \in todo, i \in DOMAIN entries :
             /\ entries[i].rec = RequestRecord(r)
             /\ ~ /\ Canonical(view)
                  /\ entries[i].batch \in DOMAIN anchored
                  /\ anchored[entries[i].batch].block <= view.number
    \/ tx.step = "open" /\ tx.call.id \notin DOMAIN journal           \* would revert
       /\ tx.call.id # CountAt(Len(blocks)) + 1
    \/ tx.step = "quote" /\ spent = DailyFees                         \* DAILY_BUDGET_EXCEEDED
    \/ tx.step = "wait"                                               \* no receipt in time
    \/ tx.step = "lookup"                                             \* TRANSACTION_REVERTED
       /\ \E n \in Receipts(journal[tx.call.id]) : ~executed[n].ok

Abandon ==
    /\ phase' = "sleep"
    /\ op' = Idle
    /\ Forget
    /\ UNCHANGED <<chainVars, storeVars, diskVars, netVars, stops>>

Retry == CheckFails /\ Abandon /\ UNCHANGED faults

(* An RPC call or a file operation fails for a reason of its own. *)
Fault ==
    /\ phase \notin {Down, "sleep"} /\ faults < MaxFaults
    /\ faults' = faults + 1
    /\ Abandon

-----------------------------------------------------------------------------
(* The chain executes the publisher's transactions in nonce order *)

Execute(raw) ==
    /\ raw.nonce = Len(executed) + 1
    /\ Len(blocks) < MaxHeight
    /\ LET ok == raw.call.id = Len(anchored) + 1 IN
       /\ executed' = Append(executed, [raw |-> raw, ok |-> ok, block |-> Len(blocks) + 1])
       /\ IF ok THEN AnchorBatch(raw.call) ELSE UNCHANGED chainVars
    /\ UNCHANGED <<storeVars, op, loopVars, diskVars, network, bounds>>

(* Blocks without a transaction of the publisher are left out. *)
SealBlock ==
    /\ \E n \in DOMAIN executed : executed[n].block = Len(blocks) + 1
    /\ Seal
    /\ UNCHANGED <<storeVars, op, operatorVars>>

ReorgBlocks(h) ==
    /\ Reorg(h)
    /\ executed' = SubSeq(executed, 1,
                          Cardinality({n \in DOMAIN executed : executed[n].block <= h}))
    /\ UNCHANGED <<storeVars, op, loopVars, diskVars, network, bounds>>

-----------------------------------------------------------------------------
OperatorInit ==
    /\ Init
    /\ files = {} /\ lock = FALSE
    /\ phase = Down /\ view = NoView /\ todo = {} /\ tx = None
    /\ journal = <<>> /\ spent = 0
    /\ network = {} /\ executed = <<>>
    /\ stops = 0 /\ faults = 0

Daemon ==
    \/ \E r \in Requests : SubmitFile(r) \/ DecideNext(r)
    \/ SubmitDone \/ RegisterNothing \/ RegisterPrepare \/ StoreWorks \/ RegisterPrepared
    \/ ListUndecided \/ DecideDone \/ Audit \/ Wake
    \/ OpenJournal \/ Estimate \/ Charge \/ SaveJournal \/ Send \/ Settle
    \/ Retry

Network == (\E raw \in network : Execute(raw)) \/ SealBlock

OperatorNext ==
    \/ \E r \in Requests : Produce(r)
    \/ Start \/ Stop \/ Crash \/ ClearLock
    \/ Daemon \/ Fault
    \/ Network
    \/ \E h \in 1..(Len(blocks) - 1) : ReorgBlocks(h)

OperatorSpec == OperatorInit /\ [][OperatorNext]_allVars

(* The daemon is restarted when it is down and never stops in mid-cycle of *)
(* its own accord, a person clears the lock if anybody does, and the chain *)
(* executes what it is sent.  Nothing makes producers produce, processes   *)
(* crash, nodes fail or blocks vanish.                                     *)
FairOperatorSpec ==
    /\ OperatorSpec
    /\ WF_allVars(Daemon)
    /\ WF_allVars(Start)
    /\ WF_allVars(ClearLock)
    /\ WF_allVars(\E raw \in network : Execute(raw))
    /\ WF_allVars(SealBlock)

-----------------------------------------------------------------------------
(* Types *)

Phases == {Down, "submit", "register", "list", "decide", "answer", "audit", "sleep"}
Call == [id : Nat \ {0}, records : Seq(Record)]
RawTransaction == [nonce : Nat \ {0}, call : Call]

OperatorTypeOK ==
    /\ TypeOK
    /\ files \subseteq Requests
    /\ lock \in BOOLEAN
    /\ phase \in Phases
    /\ view \in Block
    /\ todo \subseteq Requests
    /\ tx \in {None} \cup [step : {"open", "quote", "lookup", "wait"}, call : Call]
                     \cup [step : {"sign"}, call : Call, nonce : Nat \ {0}]
    /\ IsTable(journal, RawTransaction)
    /\ spent \in 0..DailyFees
    /\ network \subseteq RawTransaction
    /\ executed \in Seq([raw : RawTransaction, ok : BOOLEAN, block : Nat \ {0}])
    /\ stops \in 0..MaxStops /\ faults \in 0..MaxFaults

-----------------------------------------------------------------------------
(* Safety *)

(* The loop uses the store the way the store is meant to be used. *)
UsesStore == Spec

(* After any crash the journal tells which transaction of a batch may be   *)
(* out there: nothing is sent that is not journaled, in exactly that form, *)
(* and nothing is journaled whose fee was not booked first.                *)
JournalCoversNetwork ==
    /\ \A raw \in network :
          raw.call.id \in DOMAIN journal /\ journal[raw.call.id] = raw
    /\ Cardinality(DOMAIN journal) <= spent

(* The journal of a batch that is prepared again, after a crash, a timeout *)
(* or a reorganisation, is for the call that is now asked for.             *)
JournalFits ==
    tx # None /\ tx.call.id \in DOMAIN journal => journal[tx.call.id].call = tx.call

(* "Never allocate another nonce while their outcome is unknown": a nonce  *)
(* is taken only when every journaled transaction has its receipt.         *)
OutcomesKnown ==
    [][ tx.step = "quote" /\ tx'.step = "sign" =>
            \A id \in DOMAIN journal : Receipts(journal[id]) # {} ]_allVars

(* No fee is paid for a transaction that reverts. *)
NothingReverts == \A n \in DOMAIN executed : executed[n].ok

-----------------------------------------------------------------------------
(* Liveness *)

(* The answer to r is in a batch that a sealed block anchors. *)
Answered(r) ==
    \E i \in Decisions :
        /\ entries[i].rec.req = r
        /\ entries[i].batch \in DOMAIN anchored
        /\ anchored[entries[i].batch].block <= Len(blocks)

(* Every request file put down is decided and its decision anchored. *)
RequestsAnswered == \A r \in Requests : r \in files ~> Answered(r)

(* A daemon that went down comes back. *)
ComesBack == phase = Down ~> phase # Down

(* The receipt of the answer to r names the block that anchors r now. *)
TrulyAnswered(r) ==
    \E i \in Decisions :
        LET ref == entries[i].rec.ref IN
        /\ entries[i].rec.req = r
        /\ ref.batch \in DOMAIN anchored
        /\ anchored[ref.batch].block <= Len(blocks)
        /\ ref.block = Hash(anchored[ref.batch].block)

(* An answer whose receipt the chain has outdated is given again.  Without *)
(* reorganisations none is outdated, by ReceiptsHold.                      *)
ReceiptsEndTrue == \A r \in Requests : Answered(r) ~> TrulyAnswered(r)
=============================================================================
