------------------------------ MODULE ChainView ------------------------------
(***************************************************************************)
(* Reading evidence from a node that reorganises (chain/reader.js), one    *)
(* JSON-RPC request at a time: EvidenceStore.decide, which makes a         *)
(* decision from what it reads, and verifyOne (verifier/verify.js), which  *)
(* checks a bundle nobody vouches for.                                     *)
(*                                                                         *)
(* The node answers from a block `head' that changes between requests.     *)
(* Some requests are pinned to a block's hash and fail once the node drops *)
(* that block (requireCanonical); headers are asked for by number and come *)
(* from whatever chain the node is then on.  The blocks form a constant    *)
(* tree in which forks may share numbers, timestamps and anchored batches. *)
(***************************************************************************)
EXTENDS Merkle, Policy, FiniteSets

CONSTANTS
    Blocks,    \* block hashes
    Chain,     \* Chain[b]: b and the blocks below it
    Num,       \* Num[b]: its number
    Time,      \* Time[b]: its timestamp
    Anchors,   \* Anchors[b]: the batches anchored in its state, in order:
               \*   [records, number, time] with the block that anchored them
    State,     \* State[b]: [balance, collateral, debt] of the borrower in it
    Policies,  \* the policies; one is in force
    Bundles,   \* Bundles[p]: what somebody may hand to a verifier under policy p
    Local,     \* the institution's own batch: [batch, records]
    None,      \* null
    MaxReads,  \* balances a reader keeps
    MaxMoves,  \* bound: changes of head
    MaxOps     \* bound: procedures run

ASSUME ChainAssumption ==
    /\ Chain \in [Blocks -> SUBSET Blocks] /\ Num \in [Blocks -> Nat]
    /\ \A b \in Blocks : b \in Chain[b]
    /\ \A b \in Blocks, c \in Blocks : c \in Chain[b] => Chain[c] \subseteq Chain[b]
    /\ \A b \in Blocks : \A n \in 0..Num[b] : \E c \in Chain[b] : Num[c] = n
    /\ \A b \in Blocks : \A c \in Chain[b], d \in Chain[b] : Num[c] = Num[d] => c = d

IsBatch(records) == Len(records) \in 1..MaxBatchSize /\ DOMAIN records = 1..Len(records)

(* What anchorBatch stores: a count it has checked, and the number and the *)
(* time of the block it runs in.                                           *)
ASSUME AnchorsAssumption ==
    \A b \in Blocks : \A i \in DOMAIN Anchors[b] :
        /\ IsBatch(Anchors[b][i].records)
        /\ Anchors[b][i].number \in 0..Num[b]
        /\ \A c \in Chain[b] : Num[c] = Anchors[b][i].number => Time[c] = Anchors[b][i].time

ASSUME BoundAssumption == MaxReads \in Nat \ {0} /\ MaxMoves \in Nat /\ MaxOps \in Nat

VARIABLES
    policy,    \* the policy in force
    head,      \* the block the node answers from
    dropped,   \* history: blocks that left its chain
    returned,  \* history: one of them came back
    moves,     \* bound on changes of head
    reads,     \* balances the reader keeps, oldest first: [block, balance]
    proc,      \* the procedure in progress
    result,    \* what the last one returned or threw
    ops        \* bound on procedures

node == <<head, dropped, returned, moves>>
vars == <<policy, node, reads, proc, result, ops>>

Idle == [pc |-> "idle"]

-----------------------------------------------------------------------------
(* The node *)

Live(block) == block \in Chain[head]

HasNumber(n) == \E b \in Chain[head] : Num[b] = n

(* eth_getBlockByNumber. *)
BlockAt(n) == CHOOSE b \in Chain[head] : Num[b] = n

Move ==
    /\ moves < MaxMoves
    /\ \E b \in Blocks \ {head} :
          /\ head' = b
          /\ dropped' = dropped \cup (Chain[head] \ Chain[b])
          /\ returned' = (returned \/ dropped \cap Chain[b] # {})
    /\ moves' = moves + 1
    /\ UNCHANGED <<policy, reads, proc, result, ops>>

-----------------------------------------------------------------------------
(* Records.  A request is [kind, id, amount, valid], a decision is         *)
(* [kind, id, ref, state, outcome, reason, valid]: `valid' stands for      *)
(* fields, scope and signature, `state' for the hash of a snapshot.        *)

(* receiptRef *)
Ref(meta, index) ==
    [batch |-> meta.batch, leaf |-> index, number |-> meta.number, block |-> meta.block]

Usdc(p) == p.id = "usdc-reserve-v1"

NeedsState(p, request) == Usdc(p) => WithinLimit(request.amount, p)

(* What a decision under p reads in a block. *)
StateIn(p, block) == IF Usdc(p) THEN State[block].balance ELSE State[block]

IsRequest(record) == record.kind = "REQUEST" /\ record.valid

(* Amounts, balances, debts and the figures of a policy are unsigned.  A   *)
(* record of the local batch is one the store has validated.               *)
ASSUME FiguresAssumption ==
    /\ \A b \in Blocks : State[b].balance \in Nat /\ State[b].collateral \in Nat
                          /\ State[b].debt \in Nat
    /\ \A p \in Policies : IF Usdc(p) THEN p.limit \in Nat /\ p.reserve \in Nat
                            ELSE p.maxLtvBps \in Nat
    /\ \A p \in Policies : \A b \in Bundles[p] :
          IsRequest(b.request.record) => b.request.record.amount \in Nat
    /\ IsBatch(Local.records)
    /\ \A i \in DOMAIN Local.records :
          Local.records[i].kind = "REQUEST" => Local.records[i].amount \in Nat

(* The snapshot of what was read at the receipt's block: usdc snapshots    *)
(* name request and receipt, credit ones (stateSnapshot) only the block.   *)
Snapshot(p, request, ref, state) ==
    IF Usdc(p) THEN [id |-> request.id, ref |-> ref, balance |-> state]
    ELSE [number |-> ref.number, block |-> ref.block,
          collateral |-> state.collateral, debt |-> state.debt]

Evaluation(p, request, state) ==
    IF Usdc(p) THEN Evaluate(request.amount, state, p)
    ELSE EvaluatePolicy(state.collateral, state.debt, request.amount, p)

(* makeDecision, of the state read at the receipt's block. *)
MakeDecision(p, request, ref, state) ==
    [kind    |-> "DECISION",
     id      |-> request.id,
     ref     |-> ref,
     state   |-> IF NeedsState(p, request) THEN Snapshot(p, request, ref, state) ELSE None,
     outcome |-> Evaluation(p, request, state).outcome,
     reason  |-> Evaluation(p, request, state).reason,
     valid   |-> TRUE]

-----------------------------------------------------------------------------
(* Procedures.  A procedure has its pinned block `view', the batches its   *)
(* view has read, the struct of one whose header is still to be read, and  *)
(* the state read at the receipt's block.  Flow gives the step after each  *)
(* step that has only one.                                                 *)

Flow ==
    [verify |-> [at |-> "pinned", pinned |-> "begin", begin |-> "request",
                 request |-> "proof", proof |-> "decision", decision |-> "pair",
                 block |-> "state", state |-> "judge", judge |-> "end",
                 replayBlock |-> "replayState", replayAgain |-> "replay",
                 replay |-> "return"],
     decide |-> [at |-> "pinned", pinned |-> "request", request |-> "local",
                 block |-> "state", state |-> "make", make |-> "end"]]

Verifying == proc.op = "verify"

Request == IF Verifying THEN proc.bundle.request.record ELSE Local.records[proc.index + 1]

RequestBatch == IF Verifying THEN proc.bundle.request.batch ELSE Local.batch

Receipt == Ref(proc.metas[RequestBatch], proc.index)

(* ChainReader.at reads the header it pins.  One asked for by hash may be  *)
(* of a dropped block; that is the case of a block dropped right after.    *)
Open(op, bundle, runtime, index) ==
    /\ proc = Idle /\ ops < MaxOps
    /\ \E b \in Chain[head] :
          proc' = [op |-> op, bundle |-> bundle, runtime |-> runtime, index |-> index,
                   pc |-> "at", view |-> b, metas |-> <<>>, struct |-> None,
                   state |-> None, decision |-> None]
    /\ ops' = ops + 1 /\ result' = None
    /\ UNCHANGED <<policy, node, reads>>

OpenVerify ==
    \E b \in Bundles[policy], r \in BOOLEAN : Open("verify", b, r, b.request.index)

OpenDecide ==
    \E i \in DOMAIN Local.records :
        Local.records[i].kind = "REQUEST" /\ Open("decide", None, FALSE, i - 1)

GoTo(p, pc) == proc' = [p EXCEPT !.pc = pc] /\ UNCHANGED result

Advance(p) == GoTo(p, Flow[p.op][p.pc])

(* A result has the receipt and the decision it stands for, if any. *)
Finish(code, ref, decision) ==
    /\ proc' = Idle
    /\ result' = [code |-> code, op |-> proc.op, view |-> proc.view,
                  bundle |-> proc.bundle, ref |-> ref, decision |-> decision]

Throw(code) == Finish(code, None, None)

Rest == UNCHANGED <<policy, node, ops>>

-----------------------------------------------------------------------------
(* Requests to the node *)

(* Where the procedure goes on after a check that the view is canonical:   *)
(* verifyOne ends by replaying the state of a credit decision.             *)
AfterCanonical ==
    IF proc.pc # "end" THEN Flow[proc.op][proc.pc]
    ELSE IF Verifying /\ ~Usdc(policy) THEN "replayBlock" ELSE "return"

(* Mutant: no second look at the end. *)
AssertCanonicalOnce ==
    /\ proc.pc \in {"at", "begin", "end"}
    /\ IF proc.pc = "end" \/ Live(proc.view) THEN GoTo(proc, AfterCanonical)
       ELSE Throw("REORG")
    /\ Rest /\ UNCHANGED reads

AssertCanonical ==
    /\ proc.pc \in {"at", "begin", "end"}
    /\ IF Live(proc.view) THEN GoTo(proc, AfterCanonical) ELSE Throw("REORG")
    /\ Rest /\ UNCHANGED reads

(* Any request may fail, and a pinned one does once its block is dropped.  *)
NodeFails ==
    /\ proc.pc \in {"at", "pinned", "begin", "request", "decision", "block", "state", "end",
                   "replayBlock", "replayState", "replayAgain"}
    /\ Throw("RPC_UNAVAILABLE")
    /\ Rest /\ UNCHANGED reads

(* eth_getCode and publisher(), which are as the trust profile says. *)
Pinned ==
    /\ proc.pc = "pinned" /\ Live(proc.view)
    /\ Advance(proc)
    /\ Rest /\ UNCHANGED reads

NeedsBatch == proc.pc \in {"request", "decision"}

Wanted == IF proc.pc = "request" THEN RequestBatch ELSE proc.bundle.decision.batch

(* ChainView.batch: the struct, pinned to the view. *)
ReadStruct ==
    /\ NeedsBatch /\ Wanted \notin DOMAIN proc.metas /\ proc.struct = None
    /\ Live(proc.view)
    /\ IF Wanted \in DOMAIN Anchors[proc.view]
       THEN /\ proc' = [proc EXCEPT !.struct = Anchors[proc.view][Wanted]]
            /\ UNCHANGED result
       ELSE Throw("BATCH_UNAVAILABLE")
    /\ Rest /\ UNCHANGED reads

Meta(batch, struct, block) ==
    [batch |-> batch, root |-> Root(struct.records), count |-> Len(struct.records),
     number |-> struct.number, block |-> block]

(* ... and the header of the block that anchored it, by number. *)
ReadHeader ==
    /\ NeedsBatch /\ proc.struct # None
    /\ LET n == proc.struct.number
           metas == [b \in DOMAIN proc.metas \cup {Wanted} |->
                        IF b = Wanted THEN Meta(b, proc.struct, BlockAt(n)) ELSE proc.metas[b]]
       IN  IF HasNumber(n) /\ Time[BlockAt(n)] = proc.struct.time
           THEN Advance([proc EXCEPT !.struct = None, !.metas = metas])
           ELSE Throw("ANCHOR_MISMATCH")
    /\ Rest /\ UNCHANGED reads

(* A view asks for a batch once. *)
KnownBatch ==
    /\ NeedsBatch /\ Wanted \in DOMAIN proc.metas
    /\ Advance(proc)
    /\ Rest /\ UNCHANGED reads

(* ChainView.block, also the two getBlock requests of replayStateAtBlock. *)
ReadBlock ==
    /\ proc.pc \in {"block", "replayBlock", "replayAgain"}
    /\ IF HasNumber(Receipt.number) /\ BlockAt(Receipt.number) = Receipt.block
       THEN Advance(proc) ELSE Throw("REORG")
    /\ Rest /\ UNCHANGED reads

Cached == \E i \in DOMAIN reads : reads[i].block = Receipt.block

CachedBalance == (CHOOSE r \in {reads[i] : i \in DOMAIN reads} : r.block = Receipt.block).balance

WithState(state) ==
    GoTo([proc EXCEPT !.state = state],
         IF proc.pc = "state" THEN Flow[proc.op].state
         ELSE IF proc.runtime THEN "replayAgain" ELSE "replay")

(* A balance the reader has kept. *)
ReuseBalance ==
    /\ proc.pc = "state" /\ Usdc(policy) /\ Cached
    /\ WithState(CachedBalance)
    /\ Rest /\ UNCHANGED reads

(* A new one, pinned to the receipt's block; the oldest makes room for it. *)
ReadBalance ==
    /\ proc.pc = "state" /\ Usdc(policy) /\ ~Cached
    /\ Live(Receipt.block)
    /\ LET balance == State[Receipt.block].balance IN
       /\ WithState(balance)
       /\ reads' = Append(IF Len(reads) >= MaxReads THEN Tail(reads) ELSE reads,
                          [block |-> Receipt.block, balance |-> balance])
    /\ Rest

(* Collateral and debt, pinned alike and never kept. *)
ReadCreditState ==
    /\ proc.pc \in {"state", "replayState"} /\ ~Usdc(policy)
    /\ Live(Receipt.block)
    /\ WithState(State[Receipt.block])
    /\ Rest /\ UNCHANGED reads

-----------------------------------------------------------------------------
(* Steps between requests *)

(* Mutant: the count a bundle claims is not compared with the anchor. *)
InclusionAnyCount(item) ==
    VerifyProof(item.record, item.index, item.count, item.proof,
                proc.metas[item.batch].root)

(* verifyInclusion *)
Inclusion(item) ==
    /\ item.count = proc.metas[item.batch].count
    /\ VerifyProof(item.record, item.index, item.count, item.proof,
                   proc.metas[item.batch].root)

CheckRequest ==
    /\ proc.pc = "proof"
    /\ IF Inclusion(proc.bundle.request) THEN Advance(proc) ELSE Throw("INVALID_INCLUSION")
    /\ Rest /\ UNCHANGED reads

(* A decision over the limit needs no state and must carry none. *)
Carries(d, snapshot) ==
    IF NeedsState(policy, Request) THEN snapshot # None /\ snapshot = d.state
    ELSE snapshot = None /\ d.state = None

(* verifyInclusion of the decision, validateRequest, checkPair and the     *)
(* checks of validateDecision before it reads the chain.                   *)
PairCode ==
    LET d == proc.bundle.decision.record
        number(item) == proc.metas[item.batch].number
    IN  IF ~Inclusion(proc.bundle.decision) THEN "INVALID_INCLUSION"
        ELSE IF ~IsRequest(Request) THEN "INVALID_RECORD"
        ELSE IF number(proc.bundle.decision) <= number(proc.bundle.request)
             THEN "INVALID_EVENT_ORDER"
        ELSE IF d.kind # "DECISION" \/ ~d.valid THEN "INVALID_RECORD"
        ELSE IF d.id # Request.id THEN "DECISION_CONTEXT_MISMATCH"
        ELSE IF d.ref # Receipt THEN "RECEIPT_MISMATCH"
        ELSE IF ~Carries(d, proc.bundle.snapshot) THEN "STATE_HASH_MISMATCH"
        ELSE "ok"

CheckPair ==
    /\ proc.pc = "pair"
    /\ IF PairCode = "ok" THEN GoTo(proc, IF NeedsState(policy, Request) THEN "block" ELSE "judge")
       ELSE Throw(PairCode)
    /\ Rest /\ UNCHANGED reads

Outcome(d) == Decision(d.outcome, d.reason)

(* The rest of validateDecision. *)
JudgeCode ==
    LET d == proc.bundle.decision.record
    IN  IF /\ NeedsState(policy, Request)
           /\ proc.bundle.snapshot # Snapshot(policy, Request, Receipt, proc.state)
        THEN "STATE_MISMATCH"
        ELSE IF Outcome(d) # Evaluation(policy, Request, proc.state) THEN "POLICY_MISMATCH"
        ELSE "ok"

(* Made again of the replayed state of a credit decision. *)
Judge ==
    /\ proc.pc \in {"judge", "replay"}
    /\ IF JudgeCode = "ok" THEN Advance(proc) ELSE Throw(JudgeCode)
    /\ Rest /\ UNCHANGED reads

(* EvidenceStore.decide: the anchor is that of the local batch. *)
CheckLocal ==
    /\ proc.pc = "local"
    /\ LET meta == proc.metas[Local.batch] IN
       IF meta.root = Root(Local.records) /\ meta.count = Len(Local.records)
       THEN GoTo(proc, IF NeedsState(policy, Request) THEN "block" ELSE "make")
       ELSE Throw("ANCHOR_MISMATCH")
    /\ Rest /\ UNCHANGED reads

Make ==
    /\ proc.pc = "make"
    /\ Advance([proc EXCEPT !.decision = MakeDecision(policy, Request, Receipt, proc.state)])
    /\ Rest /\ UNCHANGED reads

Return ==
    /\ proc.pc = "return"
    /\ Finish("ok", Receipt,
              IF Verifying THEN proc.bundle.decision.record ELSE proc.decision)
    /\ Rest /\ UNCHANGED reads

-----------------------------------------------------------------------------
Init ==
    /\ policy \in Policies
    /\ head \in Blocks /\ dropped = {} /\ returned = FALSE /\ moves = 0
    /\ reads = <<>> /\ proc = Idle /\ result = None /\ ops = 0

Next ==
    \/ Move \/ OpenVerify \/ OpenDecide
    \/ AssertCanonical \/ NodeFails \/ Pinned
    \/ ReadStruct \/ ReadHeader \/ KnownBatch \/ ReadBlock
    \/ ReuseBalance \/ ReadBalance \/ ReadCreditState
    \/ CheckRequest \/ CheckPair \/ Judge \/ CheckLocal \/ Make \/ Return

Spec == Init /\ [][Next]_vars

-----------------------------------------------------------------------------
(* Properties.  They are about a verifier's "ok" and a decision made alike. *)

Stands == result # None /\ result.code = "ok"

(* The policies as their documents put them, free of division. *)
Eligible(p, request, state) ==
    IF Usdc(p) THEN /\ request.amount <= p.limit
                    /\ state.balance - request.amount >= p.reserve
    ELSE /\ state.collateral > 0
         /\ (state.debt + request.amount) * 10000 < (p.maxLtvBps + 1) * state.collateral

(* What is found true is true of the view: the request really is at the    *)
(* leaf the receipt names, in a batch anchored at a block of that number   *)
(* and time, the decision approves it exactly if the policy does in the    *)
(* state of the receipt's block, and a decision that was verified is a     *)
(* leaf of a batch anchored later.  Also for a bundle nobody vouches for,  *)
(* and although the node was on other chains meanwhile (reader.js:174,     *)
(* verify.js:48, merkle.js:108, policy.js:261).                            *)
EvidenceTrue ==
    Stands =>
        LET log == Anchors[result.view]
            ref == result.ref
            d == result.decision
        IN  /\ ref.batch \in DOMAIN log
            /\ ref.leaf + 1 \in DOMAIN log[ref.batch].records
            /\ LET request == log[ref.batch].records[ref.leaf + 1]
               IN  /\ request.kind = "REQUEST" /\ request.id = d.id
                   /\ d.outcome = "APPROVED" <=> Eligible(policy, request, State[ref.block])
            /\ Num[ref.block] = log[ref.batch].number
            /\ Time[ref.block] = log[ref.batch].time
            /\ result.op = "verify" =>
                  \E i \in DOMAIN log : /\ \E j \in DOMAIN log[i].records : log[i].records[j] = d
                                       /\ log[i].number > log[ref.batch].number

(* The receipt's block is one the view descends from, so that the verdict  *)
(* is about one chain.  The header that gives its hash is read by number   *)
(* (reader.js:147), possibly on another chain; that the view is canonical  *)
(* once more at the end shows it was the same chain throughout, unless a   *)
(* block the node had dropped came back.                                   *)
OneChain == Stands => returned \/ result.ref.block \in Chain[result.view]

(* The decision on the request of a bundle that is made in a block.        *)
MadeIn(p, b, block) ==
    MakeDecision(p, b.request.record,
                 [batch |-> b.request.batch, leaf |-> b.request.index,
                  number |-> Num[block], block |-> block],
                 StateIn(p, block))

ASSUME NoneAssumption ==
    \A p \in Policies : \A b \in Bundles[p], block \in Blocks :
        IsRequest(b.request.record) /\ NeedsState(p, b.request.record)
            => MadeIn(p, b, block).state # None

Item(log, batch, index) ==
    [batch |-> batch, index |-> index, count |-> Len(log[batch].records),
     proof |-> Proof(log[batch].records, index),
     record |-> log[batch].records[index + 1]]

(* A bundle as EvidenceStore.bundle exports it, of a decision makeDecision *)
(* made on the view's own chain.                                           *)
Honest(b, view) ==
    LET log == Anchors[view]
        item(i) == /\ i.batch \in DOMAIN log /\ i.index \in 0..(Len(log[i.batch].records) - 1)
                   /\ i = Item(log, i.batch, i.index)
    IN  /\ item(b.request) /\ item(b.decision) /\ IsRequest(b.request.record)
        /\ log[b.request.batch].number < log[b.decision.batch].number
        /\ \E block \in Chain[view] :
              /\ Num[block] = log[b.request.batch].number
              /\ b.decision.record = MadeIn(policy, b, block)
        /\ b.snapshot = b.decision.record.state

OperationalErrors == {"RPC_UNAVAILABLE", "REORG", "BATCH_UNAVAILABLE"}

(* An honest institution is not accused: a verdict other than "ok" that is *)
(* no operational error means the bundle is not as it should be, or the    *)
(* node dropped the view (verify.js:11, merkle.js:81).                     *)
HonestAccepted ==
    (/\ result # None /\ result.op = "verify"
     /\ result.code \notin {"ok"} \cup OperationalErrors)
        => result.view \in dropped \/ ~Honest(result.bundle, result.view)

==============================================================================
