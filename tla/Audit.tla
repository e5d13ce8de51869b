-------------------------------- MODULE Audit --------------------------------
(***************************************************************************)
(* The independent verifier (verifier/verify.js, verifier/finality.js): an *)
(* auditor with an RPC node and the published trust profile checks what an *)
(* institution anchored.                                                   *)
(*                                                                         *)
(* The institution commits any records it likes.  The auditor gets them    *)
(* from an archive it does not trust: every read may give the records, or  *)
(* others, or nothing.  The auditor's node tells the truth or nothing.     *)
(* The chain goes on, and may reorganise down to its finalized block,      *)
(* between any two steps of an audit.                                      *)
(***************************************************************************)
EXTENDS RecordAnchor

CONSTANTS
    Universe,    \* records the institution may commit
    Altered,     \* record lists an archive may give for the true ones
    Oversize,    \* request ids over the policy limit
    States,      \* values of the on-chain state decisions depend on
    Sufficient,  \* the states in which a request within the limit is approved
    StateAt,     \* StateAt[number, fork]: the state at the end of that block
    Time,        \* Time[number]: timestamp of that block
    Window,      \* decisionWindowSeconds
    MaxBatches,  \* bound: batches in the log
    MaxAudits    \* bound: audits made

ASSUME AuditAssumption ==
    /\ Sufficient \subseteq States
    /\ StateAt \in [(1..MaxHeight) \X (0..MaxReorgs) -> States]
    /\ Time \in [1..MaxHeight -> Nat]
    /\ \A m, n \in 1..MaxHeight : m < n => Time[m] < Time[n]
    /\ Window \in Nat /\ MaxBatches \in Nat /\ MaxAudits \in Nat
    /\ "null" \notin States /\ "lost" \notin States

VARIABLES
    final,    \* number of the newest finalized block
    audit,    \* the audit in progress
    reports   \* what finished audits said

auditVars == <<chainVars, final, audit, reports>>

Idle == [pc |-> "idle"]
Unread == <<>>
NoState == "null"     \* stateHash of a decision that needs no state
Lost == "lost"        \* an archive that has no such blob

-----------------------------------------------------------------------------
(* Logs.  A log is a sequence of batches, each with its records and the    *)
(* block that anchors it; a leaf is a pair of batch and index.  A record   *)
(* is a request, a decision, or INVALID: a request validateRequest rejects,*)
(* a decision that names no request, anything else.                        *)

(* What is anchored up to block n. *)
LogAt(n) ==
    [id \in 1..CountAt(n) |-> [block   |-> Hash(anchored[id].block),
                               records |-> anchored[id].records]]

Leaves(log, kind) ==
    {p \in UNION {{b} \X DOMAIN log[b].records : b \in DOMAIN log} :
        log[p[1]].records[p[2]].kind = kind}

RecordAt(log, p) == log[p[1]].records[p[2]]

Before(p, q) == p[1] < q[1] \/ (p[1] = q[1] /\ p[2] < q[2])

BlockOf(log, p) == log[p[1]].block

AnchoredAt(log, p) == Time[BlockOf(log, p).number]

ReceiptRef(log, p) == [batch |-> p[1], leaf |-> p[2], block |-> BlockOf(log, p)]

State(block) == StateAt[block.number, block.fork]

-----------------------------------------------------------------------------
(* The checks, in the order in which a failing one throws its code *)

FirstFailure(checks) ==
    IF \A i \in DOMAIN checks : checks[i][1] THEN "VALID"
    ELSE checks[CHOOSE i \in DOMAIN checks :
                   ~checks[i][1] /\ \A k \in 1..(i - 1) : checks[k][1]][2]

(* evaluate: the reason fixes the outcome. *)
Evaluate(r, state) ==
    IF r \in Oversize THEN "LIMIT_EXCEEDED"
    ELSE IF state \in Sufficient THEN "POLICY_SATISFIED" ELSE "RESERVE_FLOOR"

(* checkPair and validateDecision: decision q answers request p, `blob' is *)
(* the snapshot given for its stateHash.  The node is asked for the block  *)
(* of the receipt and the state there, and is `reached' or not.            *)
PairChecks(log, p, q, blob, reached) ==
    LET d == RecordAt(log, q)
        ref == ReceiptRef(log, p)
        within == d.req \notin Oversize
    IN  << <<BlockOf(log, q).number > ref.block.number,    "INVALID_EVENT_ORDER">>,
           <<d.signed,                                     "INVALID_SIGNATURE">>,
           <<d.req = RecordAt(log, p).req,                 "DECISION_CONTEXT_MISMATCH">>,
           <<d.ref = ref,                                  "RECEIPT_MISMATCH">>,
           <<within => blob # NoState,                     "DATA_UNAVAILABLE">>,
           <<within => blob = d.state,                     "STATE_HASH_MISMATCH">>,
           <<within => reached,                            "RPC_UNAVAILABLE">>,
           <<within => Canonical(ref.block),               "REORG">>,
           <<within => blob = State(ref.block),            "STATE_MISMATCH">>,
           <<within \/ (d.state = NoState /\ blob = NoState), "UNEXPECTED_STATE">>,
           <<d.reason = Evaluate(d.req, State(ref.block)), "POLICY_MISMATCH">> >>

(* Mutant: the deadline itself is too late. *)
TimingStrict(log, p, qs, now) ==
    LET deadline == AnchoredAt(log, p) + Window
        first == CHOOSE q \in qs : \A o \in qs : o = q \/ Before(q, o)
    IN  IF qs # {}
        THEN IF AnchoredAt(log, first) < deadline
             THEN "REGISTERED_ON_TIME" ELSE "REGISTERED_LATE"
        ELSE IF now < deadline THEN "PENDING" ELSE "MISSING_AS_OF_H"

(* Mutant: a decision is never late. *)
TimingLenient(log, p, qs, now) ==
    IF qs # {} THEN "REGISTERED_ON_TIME"
    ELSE IF now <= AnchoredAt(log, p) + Window THEN "PENDING" ELSE "MISSING_AS_OF_H"

(* timing: of request p, answered first by the decisions qs, seen at `now'. *)
Timing(log, p, qs, now) ==
    LET deadline == AnchoredAt(log, p) + Window
        first == CHOOSE q \in qs : \A o \in qs : o = q \/ Before(q, o)
    IN  IF qs # {}
        THEN IF AnchoredAt(log, first) <= deadline
             THEN "REGISTERED_ON_TIME" ELSE "REGISTERED_LATE"
        ELSE IF now <= deadline THEN "PENDING" ELSE "MISSING_AS_OF_H"

(* verifyOne, for a bundle that proves the inclusion of leaves p and q in  *)
(* the view of block n and carries the snapshot q commits to, on a node    *)
(* that answers.                                                           *)
VerifyOne(p, q, n) ==
    LET log == LogAt(n)
    IN  FirstFailure(PairChecks(log, p, q, RecordAt(log, q).state, TRUE)) = "VALID"

-----------------------------------------------------------------------------
(* ChainReader.at and auditView *)

(* The header of block n is read, and found canonical. *)
OpenView(n, auto) ==
    /\ audit = Idle /\ Cardinality(reports) < MaxAudits
    /\ auto => n = Len(blocks)
    /\ audit' = [pc |-> "label", view |-> Hash(n), auto |-> auto]
    /\ UNCHANGED <<chainVars, final, reports>>

(* Mutant: the latest block counts as finalized. *)
LabelLatest ==
    /\ audit.pc = "label"
    /\ audit' = [pc       |-> IF audit.auto THEN "choose" ELSE "begin",
                 view     |-> audit.view,
                 finality |-> Len(blocks) >= audit.view.number]
    /\ UNCHANGED <<chainVars, final, reports>>

(* Its finality is read afterwards. *)
LabelView ==
    /\ audit.pc = "label"
    /\ audit' = [pc       |-> IF audit.auto THEN "choose" ELSE "begin",
                 view     |-> audit.view,
                 finality |-> final >= audit.view.number]
    /\ UNCHANGED <<chainVars, final, reports>>

(* auditView takes the finalized block instead if it has the whole log. *)
ChooseView ==
    /\ audit.pc = "choose"
    /\ Canonical(audit.view)
    /\ LET total == CountAt(audit.view.number) IN
       audit' = IF /\ total > 0
                   /\ final >= anchored[total].block
                   /\ CountAt(final) = total
                THEN [pc |-> "begin", view |-> Hash(final), finality |-> TRUE]
                ELSE [audit EXCEPT !.pc = "begin"]
    /\ UNCHANGED <<chainVars, final, reports>>

-----------------------------------------------------------------------------
(* auditAll *)

BeginAudit ==
    /\ audit.pc = "begin"
    /\ Canonical(audit.view)
    /\ audit' = [pc       |-> "scan",
                 view     |-> audit.view,
                 finality |-> audit.finality,
                 count    |-> CountAt(audit.view.number),
                 log      |-> <<>>,
                 checked  |-> {},
                 honest   |-> TRUE]
    /\ UNCHANGED <<chainVars, final, reports>>

(* Mutant: only the number of records is compared. *)
CountMatches(records, id) == Len(records) = Len(anchored[id].records)

(* buildTree(records).root === batchMeta.root *)
RootMatches(records, id) == records = anchored[id].records

(* Mutant: the number of batches is not that of the pinned block. *)
ReadBatchUnpinned ==
    LET id == Len(audit.log) + 1 IN
    /\ audit.pc = "scan" /\ id <= Len(anchored)
    /\ audit' = [audit EXCEPT !.log = Append(@, [block   |-> Hash(Len(blocks)),
                                                 records |-> anchored[id].records])]
    /\ UNCHANGED <<chainVars, final, reports>>

(* One anchor, read at the pinned block, and one archive file.  Records    *)
(* that are not the committed ones are put aside.                          *)
ReadBatch ==
    LET id == Len(audit.log) + 1 IN
    /\ audit.pc = "scan" /\ id <= audit.count
    /\ Canonical(audit.view)
    /\ \E answer \in {anchored[id].records, Unread} \cup Altered :
          audit' = [audit EXCEPT
                      !.log = Append(@, [block   |-> Hash(anchored[id].block),
                                         records |-> IF RootMatches(answer, id)
                                                     THEN answer ELSE Unread]),
                      !.honest = @ /\ answer = anchored[id].records]
    /\ UNCHANGED <<chainVars, final, reports>>

(* Mutant: a later request replaces the earlier one. *)
AcceptedLast(log) ==
    {p \in Leaves(log, "REQUEST") :
        \A o \in Leaves(log, "REQUEST") :
            Before(p, o) => RecordAt(log, o).req # RecordAt(log, p).req}

(* The map of requests keeps the first leaf of every request id. *)
Accepted(log) ==
    {p \in Leaves(log, "REQUEST") :
        \A o \in Leaves(log, "REQUEST") :
            Before(o, p) => RecordAt(log, o).req # RecordAt(log, p).req}

DecisionsOn(log, p) ==
    {q \in Leaves(log, "DECISION") : RecordAt(log, q).req = RecordAt(log, p).req}

Scanned == audit.pc = "scan" /\ Len(audit.log) = audit.count

Checked == {c.at : c \in audit.checked}

(* The archive is asked for a blob only if a signed decision names one.    *)
(* What goes wrong in the check of a decision, a node that does not answer *)
(* included, is set down as its code, and the audit goes on.               *)
CheckDecision ==
    /\ Scanned
    /\ \E p \in Accepted(audit.log), reached \in BOOLEAN :
       \E q \in DecisionsOn(audit.log, p) \ Checked, answer \in States \cup {Lost} :
          LET d == RecordAt(audit.log, q)
              blob == IF d.state = NoState THEN NoState ELSE answer
              code == FirstFailure(<< <<d.signed,    "INVALID_SIGNATURE">>,
                                      <<blob # Lost, "DATA_UNAVAILABLE">> >>
                                   \o PairChecks(audit.log, p, q, blob, reached))
          IN  audit' = [audit EXCEPT !.checked = @ \cup {[at |-> q, code |-> code]},
                                     !.honest = @ /\ (d.signed => blob = d.state)]
    /\ UNCHANGED <<chainVars, final, reports>>

(* Mutant: a node that did not answer counts as a finding. *)
OperationalNoRpc ==
    {"BLOCK_UNAVAILABLE", "FINALITY_UNAVAILABLE", "STATE_UNAVAILABLE",
     "DATA_UNAVAILABLE", "REORG", "BATCH_UNAVAILABLE"}

OperationalErrors ==
    {"RPC_UNAVAILABLE", "BLOCK_UNAVAILABLE", "FINALITY_UNAVAILABLE", "STATE_UNAVAILABLE",
     "DATA_UNAVAILABLE", "REORG", "BATCH_UNAVAILABLE"}

Unreadable == {id \in DOMAIN audit.log : audit.log[id].records = Unread}

(* isComplete: everything was there to be checked. *)
Complete ==
    /\ Unreadable = {}
    /\ Leaves(audit.log, "INVALID") = {}
    /\ \A c \in audit.checked : c.code \notin OperationalErrors

(* Mutant: decisions without a request are not reported. *)
IssuesMatched ==
    {"TAMPERED_EXPORT" : id \in Unreadable}
    \cup {"INVALID_RECORD" : p \in Leaves(audit.log, "INVALID")}
    \cup {"DUPLICATE_REQUEST" : p \in Leaves(audit.log, "REQUEST") \ Accepted(audit.log)}
    \cup {"DUPLICATE_DECISION" :
             p \in {o \in Accepted(audit.log) : Cardinality(DecisionsOn(audit.log, o)) > 1}}
    \cup {c.code : c \in {v \in audit.checked : v.code # "VALID"}}

(* The codes of the issues.  TAMPERED_EXPORT stands for DATA_UNAVAILABLE   *)
(* too, where the archive gave nothing, INVALID_RECORD for all errors of   *)
(* validateRequest, DUPLICATE_DECISION also for CONFLICTING_DECISIONS.     *)
Issues ==
    {"TAMPERED_EXPORT" : id \in Unreadable}
    \cup {"INVALID_RECORD" : p \in Leaves(audit.log, "INVALID")}
    \cup {"DUPLICATE_REQUEST" : p \in Leaves(audit.log, "REQUEST") \ Accepted(audit.log)}
    \cup {"DUPLICATE_DECISION" :
             p \in {o \in Accepted(audit.log) : Cardinality(DecisionsOn(audit.log, o)) > 1}}
    \cup {"UNMATCHED_DECISION" :
             q \in {o \in Leaves(audit.log, "DECISION") :
                      \A p \in Accepted(audit.log) : o \notin DecisionsOn(audit.log, p)}}
    \cup {c.code : c \in {v \in audit.checked : v.code # "VALID"}}

(* A request without decisions is UNKNOWN, not late, in an incomplete log. *)
Late ==
    \E p \in Accepted(audit.log) :
        /\ DecisionsOn(audit.log, p) = {} => Complete
        /\ Timing(audit.log, p, DecisionsOn(audit.log, p), Time[audit.view.number])
              \in {"MISSING_AS_OF_H", "REGISTERED_LATE"}

Report ==
    /\ Scanned
    /\ \A p \in Accepted(audit.log) : DecisionsOn(audit.log, p) \subseteq Checked
    /\ Canonical(audit.view)
    /\ reports' = reports \cup
          {[view     |-> audit.view,
            finality |-> audit.finality,
            ok       |-> Complete /\ Issues = {} /\ ~Late,
            complete |-> Complete,
            issues   |-> Issues,
            late     |-> Late,
            checked  |-> audit.checked,
            honest   |-> audit.honest]}
    /\ audit' = Idle
    /\ UNCHANGED <<chainVars, final>>

(* REORG, RPC_UNAVAILABLE or another error outside the checks of decisions *)
(* ends an audit without a report.                                         *)
Abandon ==
    /\ audit # Idle
    /\ audit' = Idle
    /\ UNCHANGED <<chainVars, final, reports>>

-----------------------------------------------------------------------------
(* The institution and the chain *)

Batches == UNION {[1..n -> Universe] : n \in 1..BatchLimit}

Publish ==
    /\ Len(anchored) < MaxBatches
    /\ \E records \in Batches :
          AnchorBatch([id |-> Len(anchored) + 1, records |-> records])
    /\ UNCHANGED <<final, audit, reports>>

SealBlock == Seal /\ UNCHANGED <<final, audit, reports>>

Finalize ==
    /\ \E n \in (final + 1)..Len(blocks) : final' = n
    /\ UNCHANGED <<chainVars, audit, reports>>

ReorgBlocks ==
    /\ \E h \in final..(Len(blocks) - 1) : Reorg(h)
    /\ UNCHANGED <<final, audit, reports>>

Init ==
    /\ ChainInit
    /\ final = 1 /\ audit = Idle /\ reports = {}

Next ==
    \/ Publish \/ SealBlock \/ Finalize \/ ReorgBlocks
    \/ \E n \in DOMAIN blocks, auto \in BOOLEAN : OpenView(n, auto)
    \/ LabelView \/ ChooseView \/ BeginAudit \/ ReadBatch \/ CheckDecision
    \/ Report \/ Abandon

Spec == Init /\ [][Next]_auditVars

-----------------------------------------------------------------------------
(* Types *)

TypeOK ==
    /\ final \in DOMAIN blocks
    /\ audit.pc \in {"idle", "label", "choose", "begin", "scan"}
    /\ audit.pc = "scan" => /\ Len(audit.log) <= audit.count
                            /\ \A c \in audit.checked : c.at \in Leaves(audit.log, "DECISION")
    /\ \A rep \in reports : /\ rep.view.number \in 1..MaxHeight
                             /\ {rep.ok, rep.complete, rep.late, rep.finality, rep.honest} \subseteq BOOLEAN

-----------------------------------------------------------------------------
(* What a log has to be like, said of the chain and not of the audit *)

Answers(log, p, q) ==
    LET d == RecordAt(log, q)
        asked == BlockOf(log, p)
    IN  /\ d.signed
        /\ d.ref = ReceiptRef(log, p)
        /\ d.req = RecordAt(log, p).req
        /\ d.state = IF d.req \in Oversize THEN NoState ELSE State(asked)
        /\ d.reason = Evaluate(d.req, State(asked))
        /\ asked.number < BlockOf(log, q).number

InTime(log, p, time) == time <= AnchoredAt(log, p) + Window

(* One leaf per request; at most one decision on it, right and in time; no *)
(* decision on anything else; and none outstanding beyond its deadline.    *)
Clean(n) ==
    LET log == LogAt(n)
        asked == Leaves(log, "REQUEST")
        decided == Leaves(log, "DECISION")
    IN  /\ Leaves(log, "INVALID") = {}
        /\ \A p, o \in asked : RecordAt(log, p).req = RecordAt(log, o).req => p = o
        /\ \A q, o \in decided : RecordAt(log, q).req = RecordAt(log, o).req => q = o
        /\ \A q \in decided : \E p \in asked :
              Answers(log, p, q) /\ InTime(log, p, AnchoredAt(log, q))
        /\ \A p \in asked :
              InTime(log, p, Time[n]) \/ \E q \in decided : Answers(log, p, q)

Standing == {rep \in reports : Canonical(rep.view)}

(* An audit that says ok speaks the truth about everything committed,      *)
(* whatever the archive answered.                                          *)
AuditSound == \A rep \in Standing : rep.ok => Clean(rep.view.number)

(* The audit of an honest institution with a working archive finds nothing *)
(* late and has no issue but checks for which the node did not answer.     *)
(* With one of those it is incomplete and not ok, and with none it is ok.  *)
NoFalseAlarm ==
    \A rep \in Standing :
        rep.honest /\ Clean(rep.view.number) =>
            /\ ~rep.late /\ rep.issues \subseteq {"RPC_UNAVAILABLE"}
            /\ rep.complete <=> rep.issues = {}
            /\ rep.ok <=> rep.issues = {}

(* The report finds fault with the log, not with the way to it. *)
Accuses(rep) == rep.late \/ rep.issues \ OperationalErrors # {}

(* A log once found bad does not become good by growing. *)
VerdictStands ==
    \A early, late \in Standing :
        /\ early.view.number <= late.view.number
        /\ early.honest /\ Accuses(early)
        => ~late.ok

(* The two verifiers agree: a bundle that verifyOne accepts holds a        *)
(* decision the audit finds valid, unless the node did not answer in its   *)
(* check or the request was committed before; and all decisions of a log   *)
(* that audits as ok have bundles verifyOne accepts.                       *)
VerifiersAgree ==
    \A rep \in Standing :
        LET log == LogAt(rep.view.number) IN
        \A p \in Leaves(log, "REQUEST"), q \in Leaves(log, "DECISION") :
            /\ rep.honest /\ VerifyOne(p, q, rep.view.number) =>
                    \/ \E c \in rep.checked :
                          c.at = q /\ c.code \in {"VALID", "RPC_UNAVAILABLE"}
                    \/ \E o \in Leaves(log, "REQUEST") :
                          Before(o, p) /\ RecordAt(log, o).req = RecordAt(log, p).req
            /\ rep.ok /\ q \in DecisionsOn(log, p) =>
                    VerifyOne(p, q, rep.view.number)

(* A report labelled FINALIZED is about blocks that stay. *)
FinalIsFinal == \A rep \in reports : rep.finality => Canonical(rep.view)
=============================================================================
