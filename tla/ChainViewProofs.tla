---------------------------- MODULE ChainViewProofs --------------------------
(***************************************************************************)
(* Proofs about ChainView, for any tree of blocks and anchored batches,    *)
(* any policy, bundle and local batch, and any number of reorganisations.  *)
(***************************************************************************)
EXTENDS ChainView, MerkleProofs

-----------------------------------------------------------------------------
(* The inductive invariant *)

Steps ==
    [verify |-> {"at", "pinned", "begin", "request", "proof", "decision", "pair", "block",
                 "state", "judge", "end", "replayBlock", "replayState", "replayAgain",
                 "replay", "return"},
     decide |-> {"at", "pinned", "request", "local", "block", "state", "make", "end", "return"}]

(* Before the batch of the request is read, and after the last look at the *)
(* view.                                                                   *)
Early == {"at", "pinned", "begin", "request"}
Settled == {"replayBlock", "replayState", "replayAgain", "replay", "return"}

Busy == proc.pc # "idle"

(* Every header read so far is one the view descends from. *)
Descends == \A b \in DOMAIN proc.metas : proc.metas[b].block \in Chain[proc.view]

NodeOK ==
    /\ head \in Blocks
    /\ returned \in BOOLEAN
    /\ returned \/ dropped \cap Chain[head] = {}

ShapeOK ==
    Busy =>
        /\ proc = [op |-> proc.op, bundle |-> proc.bundle, runtime |-> proc.runtime,
                   index |-> proc.index, pc |-> proc.pc, view |-> proc.view,
                   metas |-> proc.metas, struct |-> proc.struct, state |-> proc.state,
                   decision |-> proc.decision]
        /\ proc.op \in {"verify", "decide"} /\ proc.pc \in Steps[proc.op]
        /\ proc.view \in Blocks

(* While the node keeps the view, what is read by number is on its chain.  *)
ReadOK ==
    Busy =>
        /\ proc.pc \notin Early => RequestBatch \in DOMAIN proc.metas
        /\ proc.struct # None => /\ NeedsBatch /\ Wanted \notin DOMAIN proc.metas
                                 /\ proc.struct.number \in 0..Num[proc.view]
        /\ proc.view \in dropped \/ (Live(proc.view) /\ Descends)
        /\ proc.pc \in Settled => returned \/ Descends

ViewInv == NodeOK /\ ShapeOK /\ ReadOK /\ OneChain

-----------------------------------------------------------------------------
(* Steps *)

(* The chain of a live view is the part of the node's chain below it. *)
LEMMA HeaderOnChain ==
    ASSUME head \in Blocks, NEW v \in Blocks, Live(v), NEW n \in 0..Num[v]
    PROVE  BlockAt(n) \in Chain[v]
<1>1. PICK c \in Chain[v] : Num[c] = n
  BY ChainAssumption
<1>2. c \in Chain[head]
  BY <1>1, ChainAssumption DEF Live
<1>3. BlockAt(n) \in Chain[head] /\ Num[BlockAt(n)] = n
  BY <1>1, <1>2 DEF BlockAt
<1> QED
  BY <1>1, <1>2, <1>3, ChainAssumption

LEMMA MoveStep ==
    ASSUME ViewInv, Move
    PROVE  ViewInv'
<1>1. PICK b \in Blocks : /\ head' = b
                          /\ dropped' = dropped \cup (Chain[head] \ Chain[b])
                          /\ returned' = (returned \/ dropped \cap Chain[b] # {})
                          /\ UNCHANGED <<policy, reads, proc, result, ops>>
  BY DEF Move
<1>2. head \in Blocks /\ returned \in BOOLEAN
  BY DEF ViewInv, NodeOK
<1>3. NodeOK'
  BY <1>1, <1>2 DEF NodeOK
<1>4. ShapeOK'
  BY <1>1 DEF ViewInv, ShapeOK, Busy
<1>5. (returned => returned') /\ OneChain'
  BY <1>1, <1>2 DEF ViewInv, OneChain, Stands
<1>6. ReadOK'
  <2>1. SUFFICES ASSUME Busy PROVE ReadOK'
    BY <1>1 DEF ReadOK, Busy
  <2>2. proc.view \in dropped' \/ (Live(proc.view)' /\ Descends)
    BY <1>1, <1>2, <2>1 DEF ViewInv, ReadOK, Live
  <2> QED
    BY <1>1, <1>5, <2>1, <2>2
       DEF ViewInv, ReadOK, Descends, NeedsBatch, Wanted, RequestBatch, Verifying
<1> QED
  BY <1>3, <1>4, <1>5, <1>6 DEF ViewInv

LEMMA OpenStep ==
    ASSUME ViewInv, OpenVerify \/ OpenDecide
    PROVE  ViewInv'
<1>0. PICK op \in {"verify", "decide"} : \E bundle, runtime, index : Open(op, bundle, runtime, index)
  BY DEF OpenVerify, OpenDecide
<1>1. PICK bundle, runtime, index : Open(op, bundle, runtime, index)
  BY <1>0
<1>2. PICK b \in Chain[head] :
          proc' = [op |-> op, bundle |-> bundle, runtime |-> runtime, index |-> index,
                   pc |-> "at", view |-> b, metas |-> <<>>, struct |-> None,
                   state |-> None, decision |-> None]
  BY <1>1 DEF Open
<1>3. result' = None /\ UNCHANGED <<head, dropped, returned>>
  BY <1>1 DEF Open, node
<1>4. b \in Blocks /\ (returned \/ b \notin dropped)
  BY <1>2, ChainAssumption DEF ViewInv, NodeOK
<1>5. NodeOK' /\ OneChain'
  BY <1>3 DEF ViewInv, NodeOK, OneChain, Stands
<1>6. ShapeOK'
  BY <1>2, <1>4 DEF ShapeOK, Steps
<1>7. ReadOK'
  BY <1>2, <1>3, <1>4 DEF ReadOK, Early, Settled, Live, Descends
<1> QED
  BY <1>5, <1>6, <1>7 DEF ViewInv

(* The procedure ends. *)
LEMMA EndStep ==
    ASSUME ViewInv, Rest, NEW code, NEW ref, NEW decision, Finish(code, ref, decision),
           code = "ok" => returned \/ ref.block \in Chain[proc.view]
    PROVE  ViewInv'
<1>1. proc' = Idle /\ UNCHANGED <<head, dropped, returned>> /\ ~Busy'
  BY DEF Finish, Rest, node, Busy, Idle
<1>2. NodeOK' /\ ShapeOK' /\ ReadOK'
  BY <1>1 DEF ViewInv, NodeOK, ShapeOK, ReadOK
<1>3. result'.code = code /\ result'.ref = ref /\ result'.view = proc.view
  BY DEF Finish
<1>4. OneChain'
  BY <1>1, <1>3 DEF OneChain, Stands
<1> QED
  BY <1>2, <1>4 DEF ViewInv

LEMMA ThrowStep ==
    ASSUME ViewInv, Rest, NEW code, Throw(code), code # "ok"
    PROVE  ViewInv'
BY EndStep DEF Throw

(* It goes on at p, whatever has become of its state and decision. *)
At(p, state, decision) ==
    [op |-> proc.op, bundle |-> proc.bundle, runtime |-> proc.runtime, index |-> proc.index,
     pc |-> p, view |-> proc.view, metas |-> proc.metas, struct |-> proc.struct,
     state |-> state, decision |-> decision]

LEMMA PassStep ==
    ASSUME ViewInv, Busy, Rest, UNCHANGED result,
           NEW p, NEW state, NEW decision,
           proc' = At(p, state, decision),
           p \in Steps[proc.op], proc.struct = None,
           p \notin Early => RequestBatch \in DOMAIN proc.metas,
           p \in Settled => proc.pc \in Settled \/ Live(proc.view)
    PROVE  ViewInv'
<1>1. UNCHANGED <<head, dropped, returned>>
  BY DEF Rest, node
<1>2. NodeOK' /\ OneChain'
  BY <1>1 DEF ViewInv, NodeOK, OneChain, Stands
<1>3. ShapeOK'
  BY DEF ViewInv, ShapeOK, At
<1>4. RequestBatch' = RequestBatch /\ Descends' = Descends
  BY DEF RequestBatch, Verifying, Descends, At
<1>5. ReadOK'
  BY <1>1, <1>4 DEF ViewInv, NodeOK, ReadOK, Live, At
<1> QED
  BY <1>2, <1>3, <1>5 DEF ViewInv

LEMMA GoToStep ==
    ASSUME ViewInv, Busy, NEW p, NEW state
    PROVE  /\ GoTo(proc, p) => proc' = At(p, proc.state, proc.decision) /\ UNCHANGED result
           /\ GoTo([proc EXCEPT !.state = state], p)
                 => proc' = At(p, state, proc.decision) /\ UNCHANGED result
<1>1. proc = At(proc.pc, proc.state, proc.decision)
  BY DEF ViewInv, ShapeOK, At
<1>2. [proc EXCEPT !.pc = p] = At(p, proc.state, proc.decision)
  BY <1>1 DEF At
<1>3. [proc EXCEPT !.state = state] = At(proc.pc, state, proc.decision)
  BY <1>1 DEF At
<1>4. [At(proc.pc, state, proc.decision) EXCEPT !.pc = p] = At(p, state, proc.decision)
  BY DEF At
<1> QED
  BY <1>2, <1>3, <1>4 DEF GoTo

(* The places a procedure goes on at, from one with a single next place. *)
Branching == {"pair", "local", "replayState", "end", "return"}

LEMMA FlowSteps ==
    ASSUME NEW op \in {"verify", "decide"}, NEW p \in Steps[op]
    PROVE  /\ p \notin Branching => Flow[op][p] \in Steps[op]
           /\ p \in {"at", "pinned", "begin"} => Flow[op][p] \in Early
           /\ p \notin Branching \cup Settled => Flow[op][p] \notin Settled
<1>1. CASE op = "verify"
  <2>1. /\ Flow[op]["at"] = "pinned" /\ Flow[op]["pinned"] = "begin"
        /\ Flow[op]["begin"] = "request" /\ Flow[op]["request"] = "proof"
        /\ Flow[op]["proof"] = "decision" /\ Flow[op]["decision"] = "pair"
    BY <1>1 DEF Flow
  <2>2. /\ Flow[op]["block"] = "state" /\ Flow[op]["state"] = "judge"
        /\ Flow[op]["judge"] = "end" /\ Flow[op]["replayBlock"] = "replayState"
        /\ Flow[op]["replayAgain"] = "replay" /\ Flow[op]["replay"] = "return"
    BY <1>1 DEF Flow
  <2>3. p \in Steps["verify"]
    BY <1>1
  <2> QED
    BY <1>1, <2>1, <2>2, <2>3 DEF Steps, Early, Settled, Branching
<1>2. CASE op = "decide"
  <2>1. /\ Flow[op]["at"] = "pinned" /\ Flow[op]["pinned"] = "request"
        /\ Flow[op]["request"] = "local" /\ Flow[op]["block"] = "state"
        /\ Flow[op]["state"] = "make" /\ Flow[op]["make"] = "end"
    BY <1>2 DEF Flow
  <2> QED
    BY <1>2, <2>1 DEF Steps, Early, Settled, Branching
<1> QED
  BY <1>1, <1>2

LEMMA FlowStep ==
    ASSUME ViewInv, Busy, Rest, proc.pc \notin Branching, proc.struct = None,
           proc.pc \notin {"at", "pinned", "begin"} => RequestBatch \in DOMAIN proc.metas,
           NEW state,
           Advance(proc) \/ GoTo([proc EXCEPT !.state = state], Flow[proc.op][proc.pc])
    PROVE  ViewInv'
<1> DEFINE p == Flow[proc.op][proc.pc]
<1>1. proc.op \in {"verify", "decide"} /\ proc.pc \in Steps[proc.op]
  BY DEF ViewInv, ShapeOK
<1>2. /\ p \in Steps[proc.op]
      /\ p \notin Early => RequestBatch \in DOMAIN proc.metas
      /\ p \in Settled => proc.pc \in Settled
  BY <1>1, FlowSteps
<1>3. GoTo(proc, p) \/ GoTo([proc EXCEPT !.state = state], p)
  BY DEF Advance
<1> HIDE DEF p
<1>4. proc' = At(p, proc.state, proc.decision) \/ proc' = At(p, state, proc.decision)
  BY <1>3, GoToStep
<1>5. UNCHANGED result
  BY <1>3 DEF GoTo
<1> QED
  BY <1>2, <1>4, <1>5, PassStep

(* Outside a read of a batch there is no struct, and past the request its  *)
(* batch is known.                                                         *)
LEMMA NotReading ==
    ASSUME ViewInv, Busy
    PROVE  /\ ~NeedsBatch => proc.struct = None
           /\ proc.pc \notin Early => RequestBatch \in DOMAIN proc.metas
           /\ proc.op \in {"verify", "decide"} /\ proc.pc \in Steps[proc.op]
BY DEF ViewInv, ReadOK, ShapeOK

LEMMA CanonicalStep ==
    ASSUME ViewInv, AssertCanonical
    PROVE  ViewInv'
<1>1. /\ proc.pc \in {"at", "begin", "end"} /\ Busy /\ Rest /\ proc.struct = None
      /\ proc.pc = "end" => RequestBatch \in DOMAIN proc.metas
      /\ proc.op \in {"verify", "decide"} /\ proc.pc \in Steps[proc.op]
  BY NotReading DEF AssertCanonical, Busy, NeedsBatch, Early
<1>2. CASE ~Live(proc.view)
  BY <1>1, <1>2, ThrowStep DEF AssertCanonical
<1>3. CASE Live(proc.view) /\ proc.pc # "end"
  <2>1. Advance(proc)
    BY <1>1, <1>3 DEF AssertCanonical, AfterCanonical, Advance
  <2> QED
    BY <1>1, <1>3, <2>1, FlowStep DEF Branching
<1>4. CASE Live(proc.view) /\ proc.pc = "end"
  <2>1. PICK p \in {"replayBlock", "return"} : GoTo(proc, p) /\ (p = "replayBlock" => Verifying)
    BY <1>1, <1>4 DEF AssertCanonical, AfterCanonical
  <2>2. p \in Steps[proc.op] /\ (p \notin Early => RequestBatch \in DOMAIN proc.metas)
    BY <1>1, <1>4, <2>1 DEF Steps, Verifying
  <2> QED
    BY <1>1, <1>4, <2>1, <2>2, GoToStep, PassStep
<1> QED
  BY <1>1, <1>2, <1>3, <1>4

LEMMA FailStep ==
    ASSUME ViewInv, NodeFails
    PROVE  ViewInv'
BY ThrowStep DEF NodeFails

LEMMA ReadStep ==
    ASSUME ViewInv,
           Pinned \/ KnownBatch \/ ReadBlock \/ ReuseBalance \/ ReadBalance \/ ReadCreditState
    PROVE  ViewInv'
<1> USE DEF Busy
<1>1. CASE Pinned
  BY <1>1, NotReading, FlowStep DEF Pinned, NeedsBatch, Branching
<1>2. CASE KnownBatch
  <2>1. NeedsBatch /\ Wanted \in DOMAIN proc.metas /\ Busy /\ Advance(proc) /\ Rest
    BY <1>2 DEF KnownBatch, NeedsBatch
  <2>2. proc.struct = None
    BY <2>1 DEF ViewInv, ReadOK
  <2>3. RequestBatch \in DOMAIN proc.metas
    BY <2>1, NotReading DEF NeedsBatch, Wanted, Early
  <2> QED
    BY <2>1, <2>2, <2>3, FlowStep DEF NeedsBatch, Branching
<1>3. CASE ReadBlock
  <2>1. proc.pc \in {"block", "replayBlock", "replayAgain"} /\ Busy /\ Rest
    BY <1>3 DEF ReadBlock
  <2>2. CASE Advance(proc)
    BY <2>1, <2>2, NotReading, FlowStep DEF NeedsBatch, Early, Branching
  <2>3. CASE Throw("REORG")
    BY <2>1, <2>3, ThrowStep
  <2> QED
    BY <1>3, <2>2, <2>3 DEF ReadBlock
<1>4. CASE ReuseBalance \/ ReadBalance \/ ReadCreditState
  <2>1. PICK state : WithState(state)
    BY <1>4 DEF ReuseBalance, ReadBalance, ReadCreditState
  <2>2. proc.pc \in {"state", "replayState"} /\ Rest
    BY <1>4 DEF ReuseBalance, ReadBalance, ReadCreditState
  <2>3. /\ proc.struct = None /\ RequestBatch \in DOMAIN proc.metas
        /\ proc.op \in {"verify", "decide"} /\ proc.pc \in Steps[proc.op]
    BY <2>2, NotReading DEF NeedsBatch, Early
  <2>4. CASE proc.pc = "state"
    <3>1. GoTo([proc EXCEPT !.state = state], Flow[proc.op][proc.pc])
      BY <2>1, <2>4 DEF WithState
    <3> QED
      BY <2>2, <2>3, <2>4, <3>1, FlowStep DEF Branching
  <2>5. CASE proc.pc = "replayState"
    <3>1. PICK p \in {"replayAgain", "replay"} : GoTo([proc EXCEPT !.state = state], p)
      BY <2>1, <2>5 DEF WithState
    <3>2. p \in Steps[proc.op] /\ proc.pc \in Settled
      BY <2>3, <2>5, <3>1 DEF Steps, Settled
    <3> QED
      BY <2>2, <2>3, <3>1, <3>2, GoToStep, PassStep
  <2> QED
    BY <2>2, <2>4, <2>5
<1> QED
  BY <1>1, <1>2, <1>3, <1>4

LEMMA StructStep ==
    ASSUME ViewInv, ReadStruct
    PROVE  ViewInv'
<1>1. /\ NeedsBatch /\ Wanted \notin DOMAIN proc.metas /\ proc.struct = None /\ Rest
      /\ Busy
  BY DEF ReadStruct, NeedsBatch, Busy
<1>2. CASE Wanted \notin DOMAIN Anchors[proc.view]
  BY <1>1, <1>2, ThrowStep DEF ReadStruct
<1>3. CASE Wanted \in DOMAIN Anchors[proc.view]
  <2> DEFINE struct == Anchors[proc.view][Wanted]
  <2>1. proc' = [proc EXCEPT !.struct = struct] /\ UNCHANGED result
    BY <1>3 DEF ReadStruct
  <2>2. struct.number \in 0..Num[proc.view]
    BY <1>1, <1>3, AnchorsAssumption DEF ViewInv, ShapeOK
  <2> HIDE DEF struct
  <2>3. proc' = [op |-> proc.op, bundle |-> proc.bundle, runtime |-> proc.runtime,
                 index |-> proc.index, pc |-> proc.pc, view |-> proc.view,
                 metas |-> proc.metas, struct |-> struct, state |-> proc.state,
                 decision |-> proc.decision]
    BY <1>1, <2>1 DEF ViewInv, ShapeOK
  <2>4. UNCHANGED <<head, dropped, returned>>
    BY <1>1 DEF Rest, node
  <2>5. NodeOK' /\ OneChain'
    BY <2>1, <2>4 DEF ViewInv, NodeOK, OneChain, Stands
  <2>6. ShapeOK'
    BY <1>1, <2>3 DEF ViewInv, ShapeOK, Busy
  <2>7. RequestBatch' = RequestBatch /\ Descends' = Descends /\ Wanted' = Wanted
        /\ NeedsBatch'
    BY <1>1, <2>3 DEF RequestBatch, Verifying, Descends, Wanted, NeedsBatch
  <2>8. ReadOK'
    BY <1>1, <2>2, <2>3, <2>4, <2>7 DEF ViewInv, ReadOK, Live
  <2> QED
    BY <2>5, <2>6, <2>8 DEF ViewInv
<1> QED
  BY <1>2, <1>3

(* The node has a header of the struct's number and time. *)
HeaderFound ==
    /\ HasNumber(proc.struct.number)
    /\ Time[BlockAt(proc.struct.number)] = proc.struct.time

(* The batch asked for has a header; what was read of others stays. *)
LEMMA HeaderTaken ==
    ASSUME ViewInv, ReadHeader, HeaderFound
    PROVE  LET n == proc.struct.number
           IN  /\ proc' = [op |-> proc.op, bundle |-> proc.bundle, runtime |-> proc.runtime,
                           index |-> proc.index, pc |-> Flow[proc.op][proc.pc],
                           view |-> proc.view, metas |-> proc'.metas, struct |-> None,
                           state |-> proc.state, decision |-> proc.decision]
               /\ DOMAIN proc'.metas = DOMAIN proc.metas \cup {Wanted}
               /\ proc'.metas[Wanted] = Meta(Wanted, proc.struct, BlockAt(n))
               /\ \A b \in DOMAIN proc.metas : b # Wanted => proc'.metas[b] = proc.metas[b]
               /\ UNCHANGED result
<1> DEFINE n == proc.struct.number
           wanted == Wanted
           meta == Meta(wanted, proc.struct, BlockAt(n))
           metas == [b \in DOMAIN proc.metas \cup {wanted} |->
                        IF b = wanted THEN meta ELSE proc.metas[b]]
<1>1. Busy
  BY DEF ReadHeader, NeedsBatch, Busy
<1>2. Advance([proc EXCEPT !.struct = None, !.metas = metas])
  <2>1. metas = [b \in DOMAIN proc.metas \cup {Wanted} |->
                    IF b = Wanted THEN Meta(b, proc.struct, BlockAt(n)) ELSE proc.metas[b]]
    OBVIOUS
  <2> HIDE DEF metas
  <2> QED
    BY <2>1 DEF ReadHeader, HeaderFound
<1>3. /\ DOMAIN metas = DOMAIN proc.metas \cup {Wanted}
      /\ metas[Wanted] = Meta(Wanted, proc.struct, BlockAt(n))
      /\ \A b \in DOMAIN proc.metas : b # Wanted => metas[b] = proc.metas[b]
  OBVIOUS
<1> HIDE DEF metas, meta, wanted
<1> DEFINE p == Flow[proc.op][proc.pc]
           base == [op |-> proc.op, bundle |-> proc.bundle, runtime |-> proc.runtime,
                    index |-> proc.index, pc |-> proc.pc, view |-> proc.view,
                    metas |-> metas, struct |-> None, state |-> proc.state,
                    decision |-> proc.decision]
<1>4. [proc EXCEPT !.struct = None, !.metas = metas] = base
  <2>1. [proc EXCEPT !.struct = None, !.metas = metas]
           = [[proc EXCEPT !.struct = None] EXCEPT !.metas = metas]
    OBVIOUS
  <2> DEFINE mid == [base EXCEPT !.metas = proc.metas]
  <2>2. mid = [op |-> proc.op, bundle |-> proc.bundle, runtime |-> proc.runtime,
               index |-> proc.index, pc |-> proc.pc, view |-> proc.view,
               metas |-> proc.metas, struct |-> None, state |-> proc.state,
               decision |-> proc.decision]
    OBVIOUS
  <2>3. [proc EXCEPT !.struct = None] = mid
    <3> HIDE DEF mid
    <3> QED
      BY <1>1, <2>2 DEF ViewInv, ShapeOK
  <2>4. [mid EXCEPT !.metas = metas] = base
    <3> HIDE DEF mid
    <3> QED
      BY <2>2
  <2> HIDE DEF base, mid
  <2> QED
    BY <2>1, <2>3, <2>4
<1>5. GoTo(base, Flow[base.op][base.pc])
  BY <1>2, <1>4 DEF Advance
<1>6. base.op = proc.op /\ base.pc = proc.pc
  OBVIOUS
<1>7. proc' = [base EXCEPT !.pc = p] /\ UNCHANGED result
  BY <1>5, <1>6 DEF GoTo
<1> HIDE DEF p
<1>8. proc' = [op |-> proc.op, bundle |-> proc.bundle, runtime |-> proc.runtime,
               index |-> proc.index, pc |-> p, view |-> proc.view,
               metas |-> metas, struct |-> None, state |-> proc.state,
               decision |-> proc.decision]
  BY <1>7
<1> QED
  BY <1>3, <1>7, <1>8 DEF p

(* The header is read by number, on the view's own chain if it is live. *)
LEMMA HeaderStep ==
    ASSUME ViewInv, ReadHeader
    PROVE  ViewInv'
<1> DEFINE n == proc.struct.number
<1>1. NeedsBatch /\ proc.struct # None /\ Rest /\ Busy
  BY DEF ReadHeader, NeedsBatch, Busy
<1>2. CASE ~HeaderFound
  BY <1>1, <1>2, ThrowStep DEF ReadHeader, HeaderFound
<1>3. CASE HeaderFound
  <2> DEFINE p == Flow[proc.op][proc.pc]
             metas == proc'.metas
  <2>1. /\ proc' = [op |-> proc.op, bundle |-> proc.bundle, runtime |-> proc.runtime,
                    index |-> proc.index, pc |-> p, view |-> proc.view, metas |-> metas,
                    struct |-> None, state |-> proc.state, decision |-> proc.decision]
        /\ DOMAIN metas = DOMAIN proc.metas \cup {Wanted}
        /\ metas[Wanted] = Meta(Wanted, proc.struct, BlockAt(n))
        /\ \A b \in DOMAIN proc.metas : b # Wanted => metas[b] = proc.metas[b]
        /\ UNCHANGED result
    BY <1>3, HeaderTaken
  <2>2. metas[Wanted].block = BlockAt(n)
    BY <2>1 DEF Meta
  <2>3. p \in Steps[proc.op] /\ p \notin Settled
        /\ proc.op \in {"verify", "decide"} /\ proc.view \in Blocks
    <3>1. proc.op \in {"verify", "decide"} /\ proc.pc \in Steps[proc.op] /\ proc.view \in Blocks
      BY <1>1 DEF ViewInv, ShapeOK
    <3> QED
      BY <1>1, <3>1, FlowSteps DEF NeedsBatch, Branching, Settled
  <2> HIDE DEF p
  <2>4. UNCHANGED <<head, dropped, returned>>
    BY <1>1 DEF Rest, node
  <2>5. NodeOK' /\ OneChain'
    BY <2>1, <2>4 DEF ViewInv, NodeOK, OneChain, Stands
  <2> HIDE DEF metas
  <2>6. ShapeOK'
    BY <2>1, <2>3 DEF ShapeOK
  <2>7. RequestBatch' = RequestBatch
    BY <2>1 DEF RequestBatch, Verifying
  <2>8. RequestBatch \in DOMAIN metas
    <3>1. CASE proc.pc = "request"
      BY <2>1, <3>1 DEF Wanted
    <3>2. CASE proc.pc = "decision"
      BY <1>1, <2>1, <3>2 DEF ViewInv, ReadOK, Early
    <3> QED
      BY <1>1, <3>1, <3>2 DEF NeedsBatch
  <2>9. proc.view \in dropped \/ (Live(proc.view) /\ Descends)'
    <3>1. proc.view \in dropped \/ (Live(proc.view) /\ Descends)
      BY <1>1 DEF ViewInv, ReadOK
    <3>2. ASSUME Live(proc.view), Descends PROVE Live(proc.view)' /\ Descends'
      <4>1. BlockAt(n) \in Chain[proc.view]
        BY <1>1, <2>3, <3>2, HeaderOnChain DEF ViewInv, ReadOK, NodeOK
      <4>2. \A b \in DOMAIN metas : metas[b].block \in Chain[proc.view]
        BY <2>1, <2>2, <3>2, <4>1 DEF Descends
      <4>3. Descends'
        BY <2>1, <4>2 DEF Descends
      <4> QED
        BY <2>1, <2>4, <3>2, <4>3 DEF Live
    <3> QED
      BY <3>1, <3>2
  <2>10. ReadOK'
    BY <2>1, <2>3, <2>4, <2>7, <2>8, <2>9 DEF ReadOK
  <2> QED
    BY <2>5, <2>6, <2>10 DEF ViewInv
<1> QED
  BY <1>2, <1>3

LEMMA CheckStep ==
    ASSUME ViewInv, CheckRequest \/ CheckPair \/ Judge \/ CheckLocal \/ Make
    PROVE  ViewInv'
<1>1. proc.pc \in {"proof", "pair", "judge", "replay", "local", "make"} /\ Busy /\ Rest
  BY DEF CheckRequest, CheckPair, Judge, CheckLocal, Make, Busy
<1>2. /\ proc.struct = None /\ RequestBatch \in DOMAIN proc.metas
      /\ proc.op \in {"verify", "decide"} /\ proc.pc \in Steps[proc.op]
  BY <1>1, NotReading DEF NeedsBatch, Early
<1>3. CASE \E code : Throw(code) /\ code # "ok"
  BY <1>1, <1>3, ThrowStep
<1>4. CASE Advance(proc) /\ proc.pc \notin Branching
  BY <1>1, <1>2, <1>4, FlowStep
<1>5. CASE \E p \in {"block", "judge"} : proc.pc = "pair" /\ GoTo(proc, p)
  <2>1. PICK p \in {"block", "judge"} : GoTo(proc, p)
    BY <1>5
  <2>2. p \in Steps[proc.op] /\ p \notin Settled
    BY <1>2, <1>5, <2>1 DEF Steps, Settled
  <2> QED
    BY <1>1, <1>2, <2>1, <2>2, GoToStep, PassStep
<1>6. CASE \E p \in {"block", "make"} : proc.pc = "local" /\ GoTo(proc, p)
  <2>1. PICK p \in {"block", "make"} : GoTo(proc, p)
    BY <1>6
  <2>2. p \in Steps[proc.op] /\ p \notin Settled
    BY <1>2, <1>6, <2>1 DEF Steps, Settled
  <2> QED
    BY <1>1, <1>2, <2>1, <2>2, GoToStep, PassStep
<1>7. CASE Make
  <2> DEFINE d == MakeDecision(policy, Request, Receipt, proc.state)
  <2>1. Advance([proc EXCEPT !.decision = d]) /\ proc.pc = "make"
    BY <1>7 DEF Make
  <2> HIDE DEF d
  <2>2. [proc EXCEPT !.decision = d] = At(proc.pc, proc.state, d)
    BY <1>1 DEF At, ViewInv, ShapeOK
  <2>3. GoTo(At(proc.pc, proc.state, d), Flow[proc.op][proc.pc])
    BY <2>1, <2>2 DEF Advance, At
  <2>4. proc' = At(Flow[proc.op][proc.pc], proc.state, d) /\ UNCHANGED result
    BY <2>3 DEF GoTo, At
  <2>5. /\ Flow[proc.op][proc.pc] \in Steps[proc.op]
        /\ Flow[proc.op][proc.pc] \notin Settled
    BY <1>2, <2>1, FlowSteps DEF Branching, Settled
  <2> QED
    BY <1>1, <1>2, <2>4, <2>5, PassStep
<1>8. CASE CheckRequest
  BY <1>3, <1>4, <1>8 DEF CheckRequest, Branching
<1>9. CASE CheckPair
  BY <1>3, <1>5, <1>9 DEF CheckPair
<1>10. CASE Judge
  BY <1>3, <1>4, <1>10 DEF Judge, Branching
<1>11. CASE CheckLocal
  BY <1>3, <1>6, <1>11 DEF CheckLocal
<1> QED
  BY <1>7, <1>8, <1>9, <1>10, <1>11

LEMMA ReturnStep ==
    ASSUME ViewInv, Return
    PROVE  ViewInv'
<1>1. proc.pc = "return" /\ Busy /\ Rest
  BY DEF Return, Busy
<1>2. returned \/ Receipt.block \in Chain[proc.view]
  BY <1>1 DEF ViewInv, ReadOK, Early, Settled, Descends, Receipt, Ref
<1> QED
  BY <1>1, <1>2, EndStep DEF Return

-----------------------------------------------------------------------------
(* Theorems *)

LEMMA ViewStep == ViewInv /\ [Next]_vars => ViewInv'
<1> SUFFICES ASSUME ViewInv, [Next]_vars PROVE ViewInv'
  OBVIOUS
<1>1. CASE Move
  BY <1>1, MoveStep
<1>2. CASE OpenVerify \/ OpenDecide
  BY <1>2, OpenStep
<1>3. CASE AssertCanonical \/ NodeFails
  BY <1>3, CanonicalStep, FailStep
<1>4. CASE Pinned \/ KnownBatch \/ ReadBlock \/ ReuseBalance \/ ReadBalance \/ ReadCreditState
  BY <1>4, ReadStep
<1>5. CASE ReadStruct \/ ReadHeader
  BY <1>5, StructStep, HeaderStep
<1>6. CASE CheckRequest \/ CheckPair \/ Judge \/ CheckLocal \/ Make
  BY <1>6, CheckStep
<1>7. CASE Return
  BY <1>7, ReturnStep
<1>8. CASE UNCHANGED vars
  <2>1. UNCHANGED <<head, dropped, returned, proc, result>>
    BY <1>8 DEF vars, node
  <2>2. NodeOK' /\ ShapeOK' /\ OneChain'
    BY <2>1 DEF ViewInv, NodeOK, ShapeOK, Busy, OneChain, Stands
  <2>3. ReadOK'
    BY <2>1 DEF ViewInv, ReadOK, Busy, RequestBatch, Verifying, NeedsBatch, Wanted, Live, Descends
  <2> QED
    BY <2>2, <2>3 DEF ViewInv
<1> QED
  BY <1>1, <1>2, <1>3, <1>4, <1>5, <1>6, <1>7, <1>8 DEF Next

(* ChainReader's guarantee: whatever is returned as true, after any number *)
(* of changes of the node's chain between its requests, is about a receipt *)
(* in a block the view descends from, unless a dropped block came back.    *)
THEOREM ReadsOneChain == Spec => []OneChain
<1>1. Init => ViewInv
  <2> SUFFICES ASSUME Init PROVE ViewInv
    OBVIOUS
  <2>1. head \in Blocks /\ dropped = {} /\ result = None /\ ~Busy /\ returned = FALSE
    BY DEF Init, Idle, Busy
  <2>2. NodeOK
    BY <2>1 DEF NodeOK
  <2>3. ShapeOK /\ ReadOK /\ OneChain
    BY <2>1 DEF ShapeOK, ReadOK, OneChain, Stands
  <2> QED
    BY <2>2, <2>3 DEF ViewInv
<1>2. ViewInv => OneChain
  BY DEF ViewInv
<1> QED
  BY <1>1, <1>2, ViewStep, PTL DEF Spec

-----------------------------------------------------------------------------
(* The policies *)

LEMMA DivBounds ==
    ASSUME NEW a \in Nat, NEW c \in Nat \ {0}
    PROVE  (a \div c) \in Nat /\ (a \div c) * c <= a /\ a < ((a \div c) + 1) * c
OBVIOUS

LEMMA TimesMonotone ==
    ASSUME NEW a \in Nat, NEW b \in Nat, NEW c \in Nat, a <= b
    PROVE  a * c <= b * c
OBVIOUS

(* Rounding the ratio down before it is compared approves exactly the debt *)
(* below the next basis point: for all amounts, however large, both        *)
(* policies approve what Eligible says of them and nothing else.           *)
THEOREM ApprovesEligible ==
    ASSUME NEW p, NEW request, NEW state, request.amount \in Nat,
           IF Usdc(p) THEN p.limit \in Nat /\ p.reserve \in Nat ELSE p.maxLtvBps \in Nat,
           state.balance \in Nat, state.collateral \in Nat, state.debt \in Nat
    PROVE  Evaluation(p, request, IF Usdc(p) THEN state.balance ELSE state).outcome = "APPROVED"
              <=> Eligible(p, request, state)
<1>1. CASE Usdc(p)
  BY <1>1 DEF Evaluation, Evaluate, WithinLimit, Decision, Approved, Eligible
<1>2. CASE ~Usdc(p) /\ state.collateral = 0
  BY <1>2 DEF Evaluation, EvaluatePolicy, Decision, Approved, Eligible
<1>3. CASE ~Usdc(p) /\ state.collateral # 0
  <2> DEFINE c == state.collateral
             a == (state.debt + request.amount) * 10000
             q == a \div c
             m == p.maxLtvBps
  <2>1. Evaluation(p, request, state).outcome = "APPROVED" <=> ~(q > m)
    BY <1>3 DEF Evaluation, EvaluatePolicy, LtvBps, Decision, Approved
  <2>2. a \in Nat /\ c \in Nat \ {0} /\ m \in Nat /\ c > 0
    BY <1>3
  <2>3. Eligible(p, request, state) <=> a < (m + 1) * c
    BY <1>3, <2>2 DEF Eligible
  <2> HIDE DEF a, c, m
  <2>4. q \in Nat /\ q * c <= a /\ a < (q + 1) * c
    BY <2>2, DivBounds
  <2> HIDE DEF q
  <2>5. CASE q > m
    <3>1. (m + 1) * c <= q * c
      BY <2>2, <2>4, <2>5, TimesMonotone
    <3>2. (m + 1) * c \in Nat /\ q * c \in Nat
      BY <2>2, <2>4
    <3>3. ~(a < (m + 1) * c)
      BY <2>2, <2>4, <3>1, <3>2
    <3> QED
      BY <1>3, <2>1, <2>3, <2>5, <3>3
  <2>6. CASE ~(q > m)
    <3>1. (q + 1) * c <= (m + 1) * c
      BY <2>2, <2>4, <2>6, TimesMonotone
    <3>2. (m + 1) * c \in Nat /\ (q + 1) * c \in Nat
      BY <2>2, <2>4
    <3>3. a < (m + 1) * c
      BY <2>2, <2>4, <3>1, <3>2
    <3> QED
      BY <1>3, <2>1, <2>3, <2>6, <3>3
  <2> QED
    BY <2>5, <2>6
<1> QED
  BY <1>1, <1>2, <1>3

-----------------------------------------------------------------------------
(* What a procedure has found out *)

Paired == {"block", "state", "judge", "end"} \cup Settled
Judged == {"end"} \cup Settled

(* What is known of a batch is what the view's state and chain say of it.  *)
MetaOf(b, log) ==
    LET block == proc.metas[b].block
    IN  /\ b \in DOMAIN log /\ block \in Blocks
        /\ Num[block] = log[b].number /\ Time[block] = log[b].time
        /\ proc.metas[b] = Meta(b, log[b], block)

BatchesOK ==
    /\ \A b \in DOMAIN proc.metas : MetaOf(b, Anchors[proc.view])
    /\ proc.struct # None => /\ Wanted \in DOMAIN Anchors[proc.view]
                             /\ proc.struct = Anchors[proc.view][Wanted]

SubjectOK ==
    IF Verifying THEN proc.bundle \in Bundles[policy] /\ proc.index = proc.bundle.request.index
    ELSE /\ proc.index \in Nat /\ proc.index + 1 \in DOMAIN Local.records
         /\ Local.records[proc.index + 1].kind = "REQUEST"

StateOK ==
    proc.pc \in {"judge", "make"} \cup Judged /\ NeedsState(policy, Request)
        => proc.state = StateIn(policy, Receipt.block)

LocalAnchored ==
    /\ proc.metas[Local.batch].root = Root(Local.records)
    /\ proc.metas[Local.batch].count = Len(Local.records)

CheckedOK ==
    IF Verifying
    THEN /\ proc.pc \notin Early \cup {"proof"} => Inclusion(proc.bundle.request)
         /\ proc.pc \notin Early \cup {"proof", "decision"}
               => proc.bundle.decision.batch \in DOMAIN proc.metas
         /\ proc.pc \in Paired => PairCode = "ok"
         /\ proc.pc \in Judged => JudgeCode = "ok"
    ELSE /\ proc.pc \notin Early \cup {"local"} => LocalAnchored
         /\ proc.pc \in Judged
               => proc.decision = MakeDecision(policy, Request, Receipt, proc.state)

(* The balances a reader keeps are those of their blocks. *)
Balances == {[block |-> b, balance |-> State[b].balance] : b \in Blocks}

TruthInv ==
    /\ policy \in Policies /\ reads \in Seq(Balances)
    /\ Busy => BatchesOK /\ SubjectOK /\ StateOK /\ CheckedOK
    /\ EvidenceTrue /\ HonestAccepted

-----------------------------------------------------------------------------
(* What it comes down to *)

(* EvidenceTrue, of a procedure that may return. *)
TrueOf(op, view, ref, d) ==
    LET log == Anchors[view]
    IN  /\ ref.batch \in DOMAIN log
        /\ ref.leaf + 1 \in DOMAIN log[ref.batch].records
        /\ LET request == log[ref.batch].records[ref.leaf + 1]
           IN  /\ request.kind = "REQUEST" /\ request.id = d.id
               /\ d.outcome = "APPROVED" <=> Eligible(policy, request, State[ref.block])
        /\ Num[ref.block] = log[ref.batch].number
        /\ Time[ref.block] = log[ref.batch].time
        /\ op = "verify" =>
              \E i \in DOMAIN log : /\ \E j \in DOMAIN log[i].records : log[i].records[j] = d
                                   /\ log[i].number > log[ref.batch].number

LEMMA JudgedRight ==
    ASSUME policy \in Policies, NEW request, request.amount \in Nat, NEW block \in Blocks,
           NEW state, NeedsState(policy, request) => state = StateIn(policy, block)
    PROVE  Evaluation(policy, request, state).outcome = "APPROVED"
              <=> Eligible(policy, request, State[block])
<1>1. CASE NeedsState(policy, request)
  <2>1. state = IF Usdc(policy) THEN State[block].balance ELSE State[block]
    BY <1>1 DEF StateIn
  <2> QED
    BY <2>1, ApprovesEligible, FiguresAssumption
<1>2. CASE ~NeedsState(policy, request)
  BY <1>2 DEF NeedsState, Evaluation, Evaluate, Decision, Eligible, WithinLimit
<1> QED
  BY <1>1, <1>2

(* The receipt is about the batch as the view has it. *)
LEMMA ReceiptOf ==
    ASSUME ViewInv, TruthInv, Busy, RequestBatch \in DOMAIN proc.metas
    PROVE  LET log == Anchors[proc.view]
               b == RequestBatch
           IN  /\ b \in DOMAIN log /\ IsBatch(log[b].records)
               /\ Receipt.batch = b /\ Receipt.leaf = proc.index
               /\ Receipt.number = log[b].number
               /\ Receipt = [batch |-> b, leaf |-> proc.index, number |-> log[b].number,
                             block |-> Receipt.block]
               /\ Receipt.block = proc.metas[b].block /\ Receipt.block \in Blocks
               /\ Num[Receipt.block] = log[b].number /\ Time[Receipt.block] = log[b].time
               /\ proc.metas[b].root = Root(log[b].records)
               /\ proc.metas[b].count = Len(log[b].records)
<1> DEFINE log == Anchors[proc.view]
           b == RequestBatch
<1>1. MetaOf(b, log) /\ proc.view \in Blocks
  BY DEF TruthInv, BatchesOK, ViewInv, ShapeOK
<1> HIDE DEF b
<1>2. /\ b \in DOMAIN log /\ proc.metas[b].batch = b
      /\ proc.metas[b].number = log[b].number
      /\ proc.metas[b].root = Root(log[b].records)
      /\ proc.metas[b].count = Len(log[b].records)
      /\ proc.metas[b].block \in Blocks /\ Num[proc.metas[b].block] = log[b].number
      /\ Time[proc.metas[b].block] = log[b].time
  BY <1>1 DEF MetaOf, Meta
<1>3. IsBatch(log[b].records)
  BY <1>1, <1>2, AnchorsAssumption
<1>4. Receipt = [batch |-> proc.metas[b].batch, leaf |-> proc.index,
                 number |-> proc.metas[b].number, block |-> proc.metas[b].block]
  BY DEF Receipt, Ref, b
<1> QED
  BY <1>2, <1>3, <1>4 DEF b

(* What a bundle's item shows to be included is a record of the batch. *)
LEMMA IncludedThere ==
    ASSUME ViewInv, TruthInv, Busy, NEW item, item.batch \in DOMAIN proc.metas, Inclusion(item)
    PROVE  LET records == Anchors[proc.view][item.batch].records
           IN  /\ item.batch \in DOMAIN Anchors[proc.view]
               /\ item.index \in Nat
               /\ item.index + 1 \in DOMAIN records
               /\ item.record = records[item.index + 1]
               /\ proc.metas[item.batch].number = Anchors[proc.view][item.batch].number
<1> DEFINE log == Anchors[proc.view]
           records == log[item.batch].records
<1>1. MetaOf(item.batch, log) /\ proc.view \in Blocks
  BY DEF TruthInv, BatchesOK, ViewInv, ShapeOK
<1>2. /\ item.batch \in DOMAIN log
      /\ proc.metas[item.batch].number = log[item.batch].number
      /\ proc.metas[item.batch].root = Root(records)
      /\ proc.metas[item.batch].count = Len(records)
  BY <1>1 DEF MetaOf, Meta
<1>3. IsBatch(records)
  BY <1>1, <1>2, AnchorsAssumption
<1>4. VerifyProof(item.record, item.index, Len(records), item.proof, Root(records))
  BY <1>2 DEF Inclusion
<1> HIDE DEF records
<1>5. item.index \in 0..(Len(records) - 1) /\ item.record = records[item.index + 1]
  BY <1>4, InclusionSound
<1>6. item.index \in Nat /\ item.index + 1 \in DOMAIN records
  BY <1>3, <1>5 DEF IsBatch, MaxBatchSize
<1> QED
  BY <1>2, <1>5, <1>6 DEF records

LEMMA PairedFacts ==
    ASSUME Verifying, PairCode = "ok"
    PROVE  LET d == proc.bundle.decision.record
           IN  /\ Inclusion(proc.bundle.decision) /\ IsRequest(Request)
               /\ ~(proc.metas[proc.bundle.decision.batch].number
                       <= proc.metas[proc.bundle.request.batch].number)
               /\ d.id = Request.id /\ d.ref = Receipt
<1>1. Inclusion(proc.bundle.decision) /\ IsRequest(Request)
  BY DEF PairCode
<1>2. ~(proc.metas[proc.bundle.decision.batch].number
           <= proc.metas[proc.bundle.request.batch].number)
  BY DEF PairCode
<1>3. proc.bundle.decision.record.id = Request.id
  BY DEF PairCode
<1>4. proc.bundle.decision.record.ref = Receipt
  BY DEF PairCode
<1> QED
  BY <1>1, <1>2, <1>3, <1>4

LEMMA VerifiedTrue ==
    ASSUME ViewInv, TruthInv, proc.pc = "return", Verifying
    PROVE  TrueOf("verify", proc.view, Receipt, proc.bundle.decision.record)
<1> DEFINE log == Anchors[proc.view]
           d == proc.bundle.decision.record
           b == RequestBatch
<1>1. Busy /\ RequestBatch \in DOMAIN proc.metas
  BY NotReading DEF Busy, Early
<1>2. /\ Inclusion(proc.bundle.request) /\ proc.bundle.decision.batch \in DOMAIN proc.metas
      /\ PairCode = "ok" /\ JudgeCode = "ok"
      /\ NeedsState(policy, Request) => proc.state = StateIn(policy, Receipt.block)
      /\ proc.bundle \in Bundles[policy] /\ proc.index = proc.bundle.request.index
      /\ policy \in Policies
  BY <1>1 DEF TruthInv, CheckedOK, StateOK, SubjectOK, Early, Paired, Judged, Settled
<1>3. /\ b = proc.bundle.request.batch /\ Request = proc.bundle.request.record
  BY DEF RequestBatch, Request
<1>4. /\ b \in DOMAIN log /\ Receipt.batch = b /\ Receipt.leaf = proc.index
      /\ Receipt.block \in Blocks
      /\ Num[Receipt.block] = log[b].number /\ Time[Receipt.block] = log[b].time
  BY <1>1, ReceiptOf, SMTT(30)
<1>5. /\ proc.index + 1 \in DOMAIN log[b].records
      /\ Request = log[b].records[proc.index + 1]
      /\ proc.metas[b].number = log[b].number
  BY <1>1, <1>2, <1>3, IncludedThere
<1>6. /\ Inclusion(proc.bundle.decision) /\ IsRequest(Request) /\ d.id = Request.id
      /\ ~(proc.metas[proc.bundle.decision.batch].number <= proc.metas[b].number)
  BY <1>2, <1>3, PairedFacts
<1>7. Request.amount \in Nat /\ Request.kind = "REQUEST"
  BY <1>2, <1>3, <1>6, FiguresAssumption DEF IsRequest
<1>8. d.outcome = Evaluation(policy, Request, proc.state).outcome
  BY <1>2 DEF JudgeCode, Outcome, Decision
<1>9. d.outcome = "APPROVED" <=> Eligible(policy, Request, State[Receipt.block])
  BY <1>2, <1>4, <1>7, <1>8, JudgedRight
<1>10. \E i \in DOMAIN log : /\ \E j \in DOMAIN log[i].records : log[i].records[j] = d
                            /\ log[i].number > log[b].number
  <2> DEFINE i == proc.bundle.decision.batch
             j == proc.bundle.decision.index + 1
  <2> HIDE DEF b, d, log
  <2>1. /\ i \in DOMAIN log /\ j \in DOMAIN log[i].records /\ log[i].records[j] = d
        /\ proc.metas[i].number = log[i].number
    BY <1>1, <1>2, <1>6, IncludedThere, SMTT(30) DEF d, log
  <2>2. log[i].number \in Int /\ log[b].number \in Int
    BY <1>1, <1>4, <2>1, AnchorsAssumption DEF ViewInv, ShapeOK, log
  <2> HIDE DEF i, j
  <2>3. log[i].number > log[b].number
    BY <1>5, <1>6, <2>1, <2>2 DEF i
  <2> QED
    BY <2>1, <2>3, SMTT(30)
<1> QED
  BY <1>4, <1>5, <1>6, <1>7, <1>9, <1>10, Zenon DEF TrueOf

LEMMA DecidedTrue ==
    ASSUME ViewInv, TruthInv, proc.pc = "return", ~Verifying
    PROVE  TrueOf(proc.op, proc.view, Receipt, proc.decision)
<1> DEFINE log == Anchors[proc.view]
           b == Local.batch
           records == log[b].records
<1>1. Busy /\ RequestBatch \in DOMAIN proc.metas
  BY NotReading DEF Busy, Early
<1>2. /\ LocalAnchored /\ policy \in Policies
      /\ proc.decision = MakeDecision(policy, Request, Receipt, proc.state)
      /\ NeedsState(policy, Request) => proc.state = StateIn(policy, Receipt.block)
      /\ proc.index \in Nat /\ proc.index + 1 \in DOMAIN Local.records
      /\ Local.records[proc.index + 1].kind = "REQUEST"
  BY <1>1 DEF TruthInv, CheckedOK, StateOK, SubjectOK, Early, Judged, Settled
<1>3. b = RequestBatch /\ Request = Local.records[proc.index + 1]
  BY DEF RequestBatch, Request
<1>4. /\ b \in DOMAIN log /\ Receipt.batch = b /\ Receipt.leaf = proc.index
      /\ Receipt.block \in Blocks /\ IsBatch(records)
      /\ Num[Receipt.block] = log[b].number /\ Time[Receipt.block] = log[b].time
      /\ proc.metas[b].root = Root(records) /\ proc.metas[b].count = Len(records)
  BY <1>1, <1>3, ReceiptOf
<1>5. /\ Root(Local.records) = Root(records) /\ Len(records) = Len(Local.records)
      /\ IsBatch(Local.records)
  BY <1>2, <1>4, FiguresAssumption DEF LocalAnchored
<1>6. /\ proc.index + 1 \in DOMAIN records
      /\ records[proc.index + 1] = Local.records[proc.index + 1]
  <2>1. \A i \in 1..Len(Local.records) : Local.records[i] = records[i]
    BY <1>5, RootBinds DEF IsBatch, Sizes
  <2> QED
    BY <1>2, <1>4, <1>5, <2>1 DEF IsBatch
<1>7. Request.amount \in Nat /\ Request.kind = "REQUEST"
  BY <1>2, <1>3, FiguresAssumption
<1>8. /\ proc.decision.id = Request.id
      /\ proc.decision.outcome = Evaluation(policy, Request, proc.state).outcome
  BY <1>2 DEF MakeDecision
<1>9. proc.decision.outcome = "APPROVED" <=> Eligible(policy, Request, State[Receipt.block])
  BY <1>2, <1>4, <1>7, <1>8, JudgedRight
<1> QED
  BY <1>3, <1>4, <1>6, <1>7, <1>8, <1>9 DEF TrueOf, Verifying

-----------------------------------------------------------------------------
(* An honest bundle on a live view *)

Fair == Verifying /\ proc.view \notin dropped /\ Honest(proc.bundle, proc.view)

HonestItem(i, log) ==
    /\ i.batch \in DOMAIN log /\ i.index \in 0..(Len(log[i.batch].records) - 1)
    /\ i = Item(log, i.batch, i.index)

LEMMA FairFacts ==
    ASSUME ViewInv, TruthInv, Busy, Fair
    PROVE  LET log == Anchors[proc.view]
               b == proc.bundle
           IN  /\ Live(proc.view) /\ Descends /\ proc.view \in Blocks
               /\ b \in Bundles[policy] /\ policy \in Policies
               /\ proc.index = b.request.index
               /\ HonestItem(b.request, log) /\ HonestItem(b.decision, log)
               /\ IsRequest(b.request.record) /\ Request = b.request.record
               /\ RequestBatch = b.request.batch
               /\ log[b.request.batch].number < log[b.decision.batch].number
               /\ b.snapshot = b.decision.record.state
               /\ \E block \in Chain[proc.view] :
                     /\ Num[block] = log[b.request.batch].number
                     /\ b.decision.record = MadeIn(policy, b, block)
<1>1. Live(proc.view) /\ Descends /\ proc.view \in Blocks
  BY DEF Fair, ViewInv, ReadOK, ShapeOK
<1>2. proc.bundle \in Bundles[policy] /\ proc.index = proc.bundle.request.index
      /\ policy \in Policies
  BY DEF Fair, TruthInv, SubjectOK
<1>3. Request = proc.bundle.request.record /\ RequestBatch = proc.bundle.request.batch
  BY DEF Fair, Request, RequestBatch
<1> QED
  BY <1>1, <1>2, <1>3, Zenon DEF Fair, Honest, HonestItem

(* Its items are shown to be included. *)
LEMMA FairIncluded ==
    ASSUME ViewInv, TruthInv, Busy, NEW item, item.batch \in DOMAIN proc.metas,
           HonestItem(item, Anchors[proc.view])
    PROVE  Inclusion(item)
<1> DEFINE log == Anchors[proc.view]
           records == log[item.batch].records
<1>1. MetaOf(item.batch, log) /\ proc.view \in Blocks
  BY DEF TruthInv, BatchesOK, ViewInv, ShapeOK
<1>2. /\ item.batch \in DOMAIN log
      /\ proc.metas[item.batch].root = Root(records)
      /\ proc.metas[item.batch].count = Len(records)
  BY <1>1 DEF MetaOf, Meta
<1>3. IsBatch(records)
  BY <1>1, <1>2, AnchorsAssumption
<1>4. /\ item.index \in 0..(Len(records) - 1)
      /\ item.count = Len(records) /\ item.proof = Proof(records, item.index)
      /\ item.record = records[item.index + 1]
  <2>1. item = Item(log, item.batch, item.index) /\ item.index \in 0..(Len(records) - 1)
    BY DEF HonestItem
  <2>2. /\ Item(log, item.batch, item.index).count = Len(records)
        /\ Item(log, item.batch, item.index).proof = Proof(records, item.index)
        /\ Item(log, item.batch, item.index).record = records[item.index + 1]
    BY DEF Item
  <2> QED
    BY <2>1, <2>2, Zenon
<1> HIDE DEF records
<1>5. VerifyProof(item.record, item.index, Len(records), item.proof, Root(records))
  BY <1>3, <1>4, InclusionComplete DEF IsBatch, Sizes
<1> QED
  BY <1>2, <1>4, <1>5 DEF Inclusion

(* Its decision is the one of the state in the receipt's block: on one     *)
(* chain no two blocks have a number.                                      *)
LEMMA FairDecision ==
    ASSUME ViewInv, TruthInv, Busy, Fair, RequestBatch \in DOMAIN proc.metas
    PROVE  LET state == StateIn(policy, Receipt.block)
           IN  /\ proc.bundle.decision.record = MakeDecision(policy, Request, Receipt, state)
               /\ NeedsState(policy, Request)
                     => MakeDecision(policy, Request, Receipt, state).state # None
<1> DEFINE log == Anchors[proc.view]
           b == proc.bundle
<1>1. /\ Descends /\ proc.view \in Blocks /\ policy \in Policies /\ b \in Bundles[policy]
      /\ proc.index = b.request.index
      /\ IsRequest(b.request.record) /\ Request = b.request.record
      /\ RequestBatch = b.request.batch
  BY FairFacts
<1>2. PICK block \in Chain[proc.view] : /\ Num[block] = log[b.request.batch].number
                                       /\ b.decision.record = MadeIn(policy, b, block)
  BY FairFacts
<1>3. /\ Receipt.block = proc.metas[RequestBatch].block /\ Receipt.block \in Blocks
      /\ Num[Receipt.block] = log[RequestBatch].number
      /\ Receipt = [batch |-> RequestBatch, leaf |-> proc.index,
                    number |-> log[RequestBatch].number, block |-> Receipt.block]
  BY ReceiptOf, SMTT(30)
<1>4. Receipt.block \in Chain[proc.view]
  BY <1>1, <1>3, SMTT(30) DEF Descends
<1>5. block = Receipt.block
  BY <1>1, <1>2, <1>3, <1>4, ChainAssumption, SMTT(30)
<1>6. Receipt = [batch |-> b.request.batch, leaf |-> b.request.index,
                 number |-> Num[block], block |-> block]
  BY <1>1, <1>2, <1>3, <1>5
<1>7. MadeIn(policy, b, block)
         = MakeDecision(policy, Request, Receipt, StateIn(policy, Receipt.block))
  BY <1>1, <1>5, <1>6, SMTT(30) DEF MadeIn
<1>8. NeedsState(policy, Request) => MadeIn(policy, b, block).state # None
  BY <1>1, <1>3, <1>5, NoneAssumption
<1> QED
  BY <1>2, <1>7, <1>8

LEMMA FairPaired ==
    ASSUME ViewInv, TruthInv, Fair, proc.pc = "pair"
    PROVE  PairCode = "ok"
<1> DEFINE b == proc.bundle
           d == b.decision.record
           log == Anchors[proc.view]
           made == MakeDecision(policy, Request, Receipt, StateIn(policy, Receipt.block))
<1>1. Busy /\ RequestBatch \in DOMAIN proc.metas /\ b.decision.batch \in DOMAIN proc.metas
  <2>1. Busy /\ RequestBatch \in DOMAIN proc.metas
    BY NotReading, SMTT(30) DEF Busy, Early
  <2> QED
    BY <2>1 DEF TruthInv, CheckedOK, Early, Fair
<1>2. /\ HonestItem(b.decision, log) /\ IsRequest(Request) /\ RequestBatch = b.request.batch
      /\ log[b.request.batch].number < log[b.decision.batch].number
      /\ b.snapshot = d.state /\ proc.view \in Blocks /\ b.request.batch \in DOMAIN log
      /\ b.decision.batch \in DOMAIN log
  BY <1>1, FairFacts, Zenon DEF HonestItem
<1>3. d = made /\ (NeedsState(policy, Request) => made.state # None)
  BY <1>1, FairDecision
<1>4. Inclusion(b.decision)
  BY <1>1, <1>2, FairIncluded
<1>5. ~(proc.metas[b.decision.batch].number <= proc.metas[b.request.batch].number)
  <2>1. MetaOf(b.decision.batch, log) /\ MetaOf(b.request.batch, log)
    BY <1>1, <1>2, SMTT(30) DEF TruthInv, BatchesOK
  <2>2. /\ proc.metas[b.decision.batch].number = log[b.decision.batch].number
        /\ proc.metas[b.request.batch].number = log[b.request.batch].number
    <3>1. ASSUME NEW id, MetaOf(id, log) PROVE proc.metas[id].number = log[id].number
      <4> HIDE DEF log
      <4>1. proc.metas[id] = Meta(id, log[id], proc.metas[id].block)
        BY <3>1 DEF MetaOf
      <4> QED
        BY <4>1, SMTT(30) DEF Meta
    <3> QED
      BY <2>1, <3>1
  <2>3. log[b.decision.batch].number \in Int /\ log[b.request.batch].number \in Int
    BY <1>2, AnchorsAssumption
  <2>4. log[b.request.batch].number < log[b.decision.batch].number
    BY <1>2
  <2> HIDE DEF log, b
  <2>5. ~(log[b.decision.batch].number <= log[b.request.batch].number)
    BY <2>3, <2>4
  <2> QED
    BY <2>2, <2>5, Zenon
<1>6. /\ made.kind = "DECISION" /\ made.valid /\ made.id = Request.id /\ made.ref = Receipt
      /\ ~NeedsState(policy, Request) => made.state = None
  BY DEF MakeDecision
<1> HIDE DEF made
<1>7. Carries(d, b.snapshot)
  BY <1>2, <1>3, <1>6 DEF Carries
<1> QED
  BY <1>2, <1>3, <1>4, <1>5, <1>6, <1>7 DEF PairCode

LEMMA FairJudged ==
    ASSUME ViewInv, TruthInv, Fair, proc.pc \in {"judge", "replay"}
    PROVE  JudgeCode = "ok"
<1> DEFINE d == proc.bundle.decision.record
           state == StateIn(policy, Receipt.block)
<1>1. Busy /\ RequestBatch \in DOMAIN proc.metas
  BY NotReading DEF Busy, Early
<1>2. d = MakeDecision(policy, Request, Receipt, state) /\ proc.bundle.snapshot = d.state
  BY <1>1, FairDecision, FairFacts
<1>3. NeedsState(policy, Request) => proc.state = state
  BY <1>1 DEF TruthInv, StateOK, Judged, Settled
<1> HIDE DEF state
<1>4. NeedsState(policy, Request)
         => proc.bundle.snapshot = Snapshot(policy, Request, Receipt, proc.state)
  BY <1>2, <1>3 DEF MakeDecision
<1>5. Outcome(d) = Evaluation(policy, Request, state)
  <2>1. Outcome(d) = Decision(Evaluation(policy, Request, state).outcome,
                              Evaluation(policy, Request, state).reason)
    BY <1>2 DEF MakeDecision, Outcome
  <2>2. \E o, r : Evaluation(policy, Request, state) = Decision(o, r)
    BY DEF Evaluation, Evaluate, EvaluatePolicy, Approved
  <2> QED
    BY <2>1, <2>2 DEF Decision
<1>6. Evaluation(policy, Request, state) = Evaluation(policy, Request, proc.state)
  <2>1. CASE NeedsState(policy, Request)
    BY <1>3, <2>1
  <2>2. CASE ~NeedsState(policy, Request)
    BY <2>2 DEF NeedsState, Evaluation, Evaluate
  <2> QED
    BY <2>1, <2>2
<1> QED
  BY <1>4, <1>5, <1>6 DEF JudgeCode

(* While a view is kept, the headers of its batches are as it says. *)
LEMMA HeaderFits ==
    ASSUME ViewInv, TruthInv, NeedsBatch, proc.struct # None, proc.view \notin dropped
    PROVE  HeaderFound
<1> DEFINE n == proc.struct.number
<1>1. Busy
  BY DEF NeedsBatch, Busy
<1>2. /\ Live(proc.view) /\ proc.view \in Blocks /\ n \in 0..Num[proc.view] /\ head \in Blocks
      /\ Wanted \in DOMAIN Anchors[proc.view] /\ proc.struct = Anchors[proc.view][Wanted]
  BY <1>1 DEF ViewInv, ReadOK, ShapeOK, NodeOK, TruthInv, BatchesOK
<1>3. PICK c \in Chain[proc.view] : Num[c] = n
  BY <1>2, ChainAssumption
<1>4. c \in Chain[head]
  BY <1>2, <1>3, ChainAssumption DEF Live
<1>5. HasNumber(n)
  BY <1>3, <1>4 DEF HasNumber
<1>6. Num[BlockAt(n)] = n
  BY <1>3, <1>4 DEF BlockAt
<1>7. BlockAt(n) \in Chain[proc.view]
  BY <1>2, HeaderOnChain
<1>8. Time[BlockAt(n)] = proc.struct.time
  BY <1>2, <1>6, <1>7, AnchorsAssumption
<1> QED
  BY <1>5, <1>8 DEF HeaderFound

-----------------------------------------------------------------------------
(* Steps, of what is found out *)

LEMMA TruthMove ==
    ASSUME TruthInv, UNCHANGED <<policy, reads, proc, result>>, dropped \subseteq dropped'
    PROVE  TruthInv'
<1>1. (Busy => BatchesOK)' <=> (Busy => BatchesOK)
  BY DEF Busy, BatchesOK, MetaOf, Wanted, RequestBatch, Verifying
<1>2. (Busy => SubjectOK /\ StateOK)' <=> (Busy => SubjectOK /\ StateOK)
  BY DEF Busy, SubjectOK, StateOK, Verifying, Request, Receipt, Ref, RequestBatch
<1>3. PairCode' = PairCode /\ JudgeCode' = JudgeCode
  BY DEF PairCode, JudgeCode, Inclusion, Verifying, Request, Receipt, Ref, RequestBatch, Carries
<1>4. (Busy => CheckedOK)' <=> (Busy => CheckedOK)
  BY <1>3 DEF Busy, CheckedOK, Inclusion, LocalAnchored, Verifying, Request, Receipt, Ref,
              RequestBatch
<1>5. EvidenceTrue' <=> EvidenceTrue
  BY SMTT(30) DEF EvidenceTrue, Stands
<1>6. HonestAccepted => HonestAccepted'
  BY DEF HonestAccepted, Honest
<1> QED
  BY <1>1, <1>2, <1>4, <1>5, <1>6 DEF TruthInv

LEMMA TruthOpen ==
    ASSUME TruthInv, OpenVerify \/ OpenDecide
    PROVE  TruthInv'
<1> DEFINE Opened(op, bundle, index) ==
              /\ proc'.op = op /\ proc'.bundle = bundle /\ proc'.index = index
              /\ proc'.pc = "at" /\ proc'.metas = <<>> /\ proc'.struct = None
              /\ result' = None /\ UNCHANGED <<policy, reads>>
<1>1. ASSUME NEW op, NEW bundle, NEW runtime, NEW index, Open(op, bundle, runtime, index)
      PROVE  Opened(op, bundle, index)
  BY <1>1, SMTT(30) DEF Open
<1>2. CASE OpenVerify
  <2>1. PICK b \in Bundles[policy] : \E r \in BOOLEAN : Open("verify", b, r, b.request.index)
    BY <1>2 DEF OpenVerify
  <2>2. Opened("verify", b, b.request.index)
    BY <1>1, <2>1
  <2>3. SubjectOK'
    BY <2>2, SMTT(30) DEF SubjectOK, Verifying
  <2> QED
    BY <2>2, <2>3 DEF TruthInv, BatchesOK, StateOK, Judged, Settled, CheckedOK, Early, Paired,
                      EvidenceTrue, Stands, HonestAccepted
<1>3. CASE OpenDecide
  <2>1. PICK i \in DOMAIN Local.records :
            Local.records[i].kind = "REQUEST" /\ Open("decide", None, FALSE, i - 1)
    BY <1>3 DEF OpenDecide
  <2>2. Opened("decide", None, i - 1)
    BY <1>1, <2>1
  <2>3. i - 1 \in Nat /\ (i - 1) + 1 = i
    BY FiguresAssumption DEF IsBatch, MaxBatchSize
  <2>4. SubjectOK'
    BY <2>1, <2>2, <2>3 DEF SubjectOK, Verifying
  <2> QED
    BY <2>2, <2>4 DEF TruthInv, BatchesOK, StateOK, Judged, Settled, CheckedOK, Early, Paired,
                      EvidenceTrue, Stands, HonestAccepted
<1> QED
  BY <1>2, <1>3

LEMMA TruthThrow ==
    ASSUME TruthInv, Rest, reads' \in Seq(Balances), NEW code, Throw(code), code # "ok",
           Fair => code \in OperationalErrors
    PROVE  TruthInv'
<1>1. /\ proc' = Idle /\ UNCHANGED <<policy, dropped>>
      /\ result'.code = code /\ result'.op = proc.op /\ result'.view = proc.view
      /\ result'.bundle = proc.bundle
  BY SMTT(30) DEF Throw, Finish, Rest, node
<1>2. ~Busy' /\ EvidenceTrue'
  BY <1>1, SMTT(30) DEF Busy, Idle, EvidenceTrue, Stands
<1>3. HonestAccepted'
  BY <1>1 DEF HonestAccepted, Fair, Verifying, Honest
<1> QED
  BY <1>1, <1>2, <1>3 DEF TruthInv

LEMMA TruthReturn ==
    ASSUME ViewInv, TruthInv, Return
    PROVE  TruthInv'
<1> DEFINE d == IF Verifying THEN proc.bundle.decision.record ELSE proc.decision
<1>1. /\ proc.pc = "return" /\ proc' = Idle /\ UNCHANGED <<policy, dropped, reads>>
      /\ result'.code = "ok" /\ result'.op = proc.op /\ result'.view = proc.view
      /\ result'.ref = Receipt /\ result'.decision = d
  BY DEF Return, Finish, Rest, node
<1>2. TrueOf(proc.op, proc.view, Receipt, d)
  BY <1>1, VerifiedTrue, DecidedTrue DEF Verifying
<1> HIDE DEF d
<1>3. ~Busy' /\ HonestAccepted'
  BY <1>1 DEF Busy, Idle, HonestAccepted
<1>4. EvidenceTrue'
  BY <1>1, <1>2, ZenonT(30) DEF EvidenceTrue, TrueOf
<1> QED
  BY <1>1, <1>3, <1>4 DEF TruthInv

(* What has been found out at p, if the procedure goes on there.           *)
LEMMA TruthPass ==
    ASSUME ViewInv, TruthInv, Busy, Rest, UNCHANGED result, reads' \in Seq(Balances),
           NEW p, NEW state, NEW decision, proc' = At(p, state, decision), proc.struct = None,
           p \in {"judge", "make"} \cup Judged /\ NeedsState(policy, Request)
              => state = StateIn(policy, Receipt.block),
           Verifying =>
              /\ p \notin Early \cup {"proof"} => Inclusion(proc.bundle.request)
              /\ p \notin Early \cup {"proof", "decision"}
                    => proc.bundle.decision.batch \in DOMAIN proc.metas
              /\ p \in Paired => PairCode = "ok"
              /\ p \in Judged => state = proc.state /\ JudgeCode = "ok",
           ~Verifying =>
              /\ p \notin Early \cup {"local"} => LocalAnchored
              /\ p \in Judged => decision = MakeDecision(policy, Request, Receipt, state)
    PROVE  TruthInv'
<1>1. /\ proc'.op = proc.op /\ proc'.bundle = proc.bundle /\ proc'.index = proc.index
      /\ proc'.view = proc.view /\ proc'.metas = proc.metas /\ proc'.struct = None
      /\ proc'.pc = p /\ proc'.state = state /\ proc'.decision = decision
      /\ UNCHANGED <<policy, dropped, result>>
  BY DEF At, Rest, node
<1>2. /\ Verifying' <=> Verifying
      /\ Request' = Request /\ RequestBatch' = RequestBatch /\ Receipt' = Receipt
      /\ LocalAnchored' <=> LocalAnchored
  BY <1>1 DEF Verifying, Request, RequestBatch, Receipt, Ref, LocalAnchored
<1>3. /\ PairCode' = PairCode
      /\ (Inclusion(proc.bundle.request))' <=> Inclusion(proc.bundle.request)
  BY <1>1, <1>2 DEF PairCode, Inclusion, Carries
<1>4. state = proc.state => JudgeCode' = JudgeCode
  BY <1>1, <1>2 DEF JudgeCode
<1>5. BatchesOK'
  BY <1>1 DEF TruthInv, BatchesOK, MetaOf
<1>6. SubjectOK'
  BY <1>1, <1>2 DEF TruthInv, SubjectOK
<1>7. StateOK'
  BY <1>1, <1>2 DEF StateOK
<1>8. CheckedOK'
  <2>1. CASE Verifying
    <3>1. /\ p \notin Early \cup {"proof"} => (Inclusion(proc.bundle.request))'
          /\ p \notin Early \cup {"proof", "decision"}
                => proc'.bundle.decision.batch \in DOMAIN proc'.metas
          /\ p \in Paired => PairCode' = "ok"
          /\ p \in Judged => JudgeCode' = "ok"
      BY <1>1, <1>3, <1>4, <2>1
    <3> QED
      BY <1>1, <1>2, <2>1, <3>1 DEF CheckedOK
  <2>2. CASE ~Verifying
    <3>1. /\ p \notin Early \cup {"local"} => LocalAnchored'
          /\ p \in Judged
                => proc'.decision = MakeDecision(policy', Request', Receipt', proc'.state)
      BY <1>1, <1>2, <2>2
    <3> QED
      BY <1>1, <1>2, <2>2, <3>1 DEF CheckedOK
  <2> QED
    BY <2>1, <2>2
<1>9. EvidenceTrue' /\ HonestAccepted'
  BY <1>1, ZenonT(30) DEF TruthInv, EvidenceTrue, Stands, HonestAccepted, Honest
<1> QED
  BY <1>1, <1>5, <1>6, <1>7, <1>8, <1>9 DEF TruthInv

(* It goes on where no more is expected to have been found out. *)
LEMMA TruthOn ==
    ASSUME ViewInv, TruthInv, Busy, Rest, UNCHANGED result, reads' \in Seq(Balances),
           NEW p, GoTo(proc, p), proc.struct = None,
           \A S \in {Early \cup {"proof"}, Early \cup {"proof", "decision"}, Early \cup {"local"}} :
               proc.pc \in S => p \in S,
           \A S \in {{"judge", "make"} \cup Judged, Paired, Judged} : p \in S => proc.pc \in S
    PROVE  TruthInv'
<1>1. proc' = At(p, proc.state, proc.decision)
  BY GoToStep
<1>2. /\ p \notin Early \cup {"proof"} => proc.pc \notin Early \cup {"proof"}
      /\ p \notin Early \cup {"proof", "decision"} => proc.pc \notin Early \cup {"proof", "decision"}
      /\ p \notin Early \cup {"local"} => proc.pc \notin Early \cup {"local"}
      /\ p \in {"judge", "make"} \cup Judged => proc.pc \in {"judge", "make"} \cup Judged
      /\ p \in Paired => proc.pc \in Paired
      /\ p \in Judged => proc.pc \in Judged
  OBVIOUS
<1>3. StateOK /\ CheckedOK
  BY DEF TruthInv
<1>4. p \in {"judge", "make"} \cup Judged /\ NeedsState(policy, Request)
         => proc.state = StateIn(policy, Receipt.block)
  BY <1>2, <1>3 DEF StateOK
<1>5. CASE Verifying
  <2>1. /\ p \notin Early \cup {"proof"} => Inclusion(proc.bundle.request)
        /\ p \notin Early \cup {"proof", "decision"}
              => proc.bundle.decision.batch \in DOMAIN proc.metas
        /\ p \in Paired => PairCode = "ok"
        /\ p \in Judged => JudgeCode = "ok"
    BY <1>2, <1>3, <1>5 DEF CheckedOK
  <2> QED
    BY <1>1, <1>4, <1>5, <2>1, TruthPass
<1>6. CASE ~Verifying
  <2>1. /\ p \notin Early \cup {"local"} => LocalAnchored
        /\ p \in Judged
              => proc.decision = MakeDecision(policy, Request, Receipt, proc.state)
    BY <1>2, <1>3, <1>6 DEF CheckedOK
  <2> QED
    BY <1>1, <1>4, <1>6, <2>1, TruthPass
<1> QED
  BY <1>5, <1>6

LEMMA FlowTable ==
    /\ Flow["verify"]["at"] = "pinned" /\ Flow["verify"]["pinned"] = "begin"
    /\ Flow["verify"]["begin"] = "request" /\ Flow["verify"]["request"] = "proof"
    /\ Flow["verify"]["proof"] = "decision" /\ Flow["verify"]["decision"] = "pair"
    /\ Flow["verify"]["block"] = "state" /\ Flow["verify"]["state"] = "judge"
    /\ Flow["verify"]["judge"] = "end" /\ Flow["verify"]["replayBlock"] = "replayState"
    /\ Flow["verify"]["replayAgain"] = "replay" /\ Flow["verify"]["replay"] = "return"
    /\ Flow["decide"]["at"] = "pinned" /\ Flow["decide"]["pinned"] = "request"
    /\ Flow["decide"]["request"] = "local" /\ Flow["decide"]["block"] = "state"
    /\ Flow["decide"]["state"] = "make" /\ Flow["decide"]["make"] = "end"
BY DEF Flow

LEMMA TruthCanonical ==
    ASSUME ViewInv, TruthInv, AssertCanonical
    PROVE  TruthInv'
<1>1. /\ proc.pc \in {"at", "begin", "end"} /\ Busy /\ Rest /\ proc.struct = None
      /\ proc.op \in {"verify", "decide"} /\ proc.pc \in Steps[proc.op]
      /\ reads' \in Seq(Balances)
  BY NotReading DEF AssertCanonical, Busy, NeedsBatch, TruthInv
<1>2. CASE ~Live(proc.view)
  BY <1>1, <1>2, TruthThrow DEF AssertCanonical, OperationalErrors
<1>3. CASE Live(proc.view)
  <2>1. GoTo(proc, AfterCanonical) /\ UNCHANGED result
    BY <1>3 DEF AssertCanonical, GoTo
  <2>2. \/ AfterCanonical \in Early
        \/ proc.pc = "end" /\ AfterCanonical \in {"replayBlock", "return"}
    <3>1. proc.pc = "begin" => proc.op = "verify"
      BY <1>1 DEF Steps
    <3> QED
      BY <1>1, <3>1, FlowTable DEF AfterCanonical, Early
  <2> DEFINE p == AfterCanonical
  <2> HIDE DEF p
  <2>3. p \in Early \/ (proc.pc = "end" /\ p \in {"replayBlock", "return"})
    BY <2>2 DEF p
  <2>4. GoTo(proc, p)
    BY <2>1 DEF p
  <2>5. \A S \in {Early \cup {"proof"}, Early \cup {"proof", "decision"}, Early \cup {"local"}} :
            proc.pc \in S => p \in S
    BY <2>3 DEF Early
  <2>6. \A S \in {{"judge", "make"} \cup Judged, Paired, Judged} : p \in S => proc.pc \in S
    BY <2>3 DEF Early, Paired, Judged, Settled
  <2> QED
    BY <1>1, <2>1, <2>4, <2>5, <2>6, TruthOn
<1> QED
  BY <1>2, <1>3

LEMMA TruthFails ==
    ASSUME TruthInv, NodeFails
    PROVE  TruthInv'
BY TruthThrow DEF NodeFails, OperationalErrors, TruthInv

LEMMA TruthPinned ==
    ASSUME ViewInv, TruthInv, Pinned \/ ReadBlock
    PROVE  TruthInv'
<1>1. /\ proc.pc \in {"pinned", "block", "replayBlock", "replayAgain"} /\ Busy /\ Rest
      /\ proc.struct = None /\ reads' \in Seq(Balances)
      /\ proc.op \in {"verify", "decide"} /\ proc.pc \in Steps[proc.op]
  BY NotReading DEF Pinned, ReadBlock, Busy, NeedsBatch, TruthInv
<1>2. CASE Throw("REORG")
  BY <1>1, <1>2, TruthThrow DEF OperationalErrors
<1>3. CASE Advance(proc)
  <2> DEFINE p == Flow[proc.op][proc.pc]
  <2>1. GoTo(proc, p) /\ UNCHANGED result
    BY <1>3 DEF Advance, GoTo
  <2>2. \/ proc.pc = "pinned" /\ p \in {"begin", "request"}
        \/ proc.pc = "block" /\ p = "state"
        \/ proc.pc = "replayBlock" /\ p = "replayState"
        \/ proc.pc = "replayAgain" /\ p = "replay"
    BY <1>1, FlowTable DEF Steps
  <2> HIDE DEF p
  <2>3. \A S \in {Early \cup {"proof"}, Early \cup {"proof", "decision"}, Early \cup {"local"}} :
            proc.pc \in S => p \in S
    BY <2>2 DEF Early
  <2>4. \A S \in {{"judge", "make"} \cup Judged, Paired, Judged} : p \in S => proc.pc \in S
    BY <2>2 DEF Paired, Judged, Settled
  <2> QED
    BY <1>1, <2>1, <2>3, <2>4, TruthOn
<1> QED
  BY <1>2, <1>3 DEF Pinned, ReadBlock

LEMMA TruthKnown ==
    ASSUME ViewInv, TruthInv, KnownBatch
    PROVE  TruthInv'
<1>1. /\ NeedsBatch /\ Wanted \in DOMAIN proc.metas /\ Busy /\ Advance(proc) /\ Rest
      /\ reads' \in Seq(Balances)
  BY DEF KnownBatch, NeedsBatch, Busy, TruthInv
<1>2. proc.struct = None /\ proc.op \in {"verify", "decide"} /\ proc.pc \in Steps[proc.op]
  BY <1>1 DEF ViewInv, ReadOK, ShapeOK
<1> DEFINE p == Flow[proc.op][proc.pc]
<1>3. GoTo(proc, p) /\ UNCHANGED result
  BY <1>1 DEF Advance, GoTo
<1>4. CASE proc.pc = "request"
  <2>1. p \in {"proof", "local"} /\ (p = "proof" <=> Verifying)
    BY <1>2, <1>4, FlowTable DEF Verifying
  <2>2. proc' = At(p, proc.state, proc.decision)
    BY <1>1, <1>3, GoToStep
  <2> HIDE DEF p
  <2> QED
    BY <1>1, <1>2, <1>3, <2>1, <2>2, TruthPass DEF Early, Paired, Judged, Settled
<1>5. CASE proc.pc = "decision"
  <2>1. Verifying /\ p = "pair"
    BY <1>2, <1>5, FlowTable DEF Verifying, Steps
  <2>2. proc' = At(p, proc.state, proc.decision)
    BY <1>1, <1>3, GoToStep
  <2>3. /\ Inclusion(proc.bundle.request)
        /\ proc.bundle.decision.batch \in DOMAIN proc.metas
    BY <1>1, <1>5, <2>1 DEF TruthInv, CheckedOK, Early, Wanted
  <2> HIDE DEF p
  <2> QED
    BY <1>1, <1>2, <1>3, <2>1, <2>2, <2>3, TruthPass DEF Paired, Judged, Settled
<1> QED
  BY <1>1, <1>4, <1>5 DEF NeedsBatch

(* Whether kept or read, the state is that of the receipt's block. *)
LEMMA StateRead ==
    ASSUME ViewInv, TruthInv, ReuseBalance \/ ReadBalance \/ ReadCreditState
    PROVE  /\ WithState(StateIn(policy, Receipt.block)) /\ reads' \in Seq(Balances)
           /\ proc.pc \in {"state", "replayState"} /\ Rest
           /\ proc.pc = "replayState" => ~Usdc(policy)
<1>1. proc.pc \in {"state", "replayState"} /\ Busy /\ Rest
  BY DEF ReuseBalance, ReadBalance, ReadCreditState, Busy
<1>2. Receipt.block \in Blocks
  <2>1. RequestBatch \in DOMAIN proc.metas
    BY <1>1, NotReading DEF Early
  <2> QED
    BY <1>1, <2>1, ReceiptOf
<1>3. CASE ReuseBalance
  <2>1. PICK i \in DOMAIN reads : reads[i].block = Receipt.block
    BY <1>3 DEF ReuseBalance, Cached
  <2>2. \A j \in DOMAIN reads : reads[j] \in Balances
    BY DEF TruthInv
  <2> DEFINE kept == CHOOSE r \in {reads[j] : j \in DOMAIN reads} : r.block = Receipt.block
  <2>3. kept \in {reads[j] : j \in DOMAIN reads} /\ kept.block = Receipt.block
    BY <2>1
  <2>4. CachedBalance = kept.balance
    BY DEF CachedBalance
  <2> HIDE DEF kept
  <2>5. kept \in Balances
    BY <2>2, <2>3
  <2>6. kept.balance = State[Receipt.block].balance
    BY <2>3, <2>5 DEF Balances
  <2> QED
    BY <1>1, <1>3, <2>4, <2>6 DEF ReuseBalance, StateIn, TruthInv
<1>4. CASE ReadBalance
  <2> DEFINE r == [block |-> Receipt.block, balance |-> State[Receipt.block].balance]
             kept == IF Len(reads) >= MaxReads THEN Tail(reads) ELSE reads
  <2>1. WithState(StateIn(policy, Receipt.block)) /\ reads' = Append(kept, r)
    BY <1>4 DEF ReadBalance, StateIn
  <2>2. r \in Balances
    BY <1>2 DEF Balances
  <2>3. kept \in Seq(Balances)
    <3>1. reads \in Seq(Balances) /\ MaxReads \in Nat /\ MaxReads # 0
      BY BoundAssumption DEF TruthInv
    <3>2. Len(reads) >= MaxReads => reads # <<>>
      BY <3>1
    <3> QED
      BY <3>1, <3>2
  <2> HIDE DEF r, kept
  <2>4. Append(kept, r) \in Seq(Balances)
    BY <2>2, <2>3
  <2>5. proc.pc # "replayState"
    BY <1>4 DEF ReadBalance
  <2> QED
    BY <1>1, <2>1, <2>4, <2>5
<1>5. CASE ReadCreditState
  BY <1>1, <1>5 DEF ReadCreditState, StateIn, TruthInv
<1> QED
  BY <1>3, <1>4, <1>5

LEMMA TruthState ==
    ASSUME ViewInv, TruthInv, ReuseBalance \/ ReadBalance \/ ReadCreditState
    PROVE  TruthInv'
<1> DEFINE state == StateIn(policy, Receipt.block)
<1>1. /\ WithState(state) /\ reads' \in Seq(Balances) /\ Rest /\ Busy
      /\ proc.pc \in {"state", "replayState"} /\ (proc.pc = "replayState" => ~Usdc(policy))
  BY StateRead DEF Busy
<1>2. proc.struct = None /\ proc.op \in {"verify", "decide"} /\ proc.pc \in Steps[proc.op]
  BY <1>1, NotReading DEF NeedsBatch
<1>3. PICK p : /\ GoTo([proc EXCEPT !.state = state], p)
               /\ \/ proc.pc = "state" /\ p = (IF Verifying THEN "judge" ELSE "make")
                  \/ proc.pc = "replayState" /\ Verifying /\ p \in {"replayAgain", "replay"}
  <2>1. proc.pc = "replayState" => Verifying
    BY <1>2 DEF Steps, Verifying
  <2> HIDE DEF state
  <2> QED
    BY <1>1, <1>2, <2>1, FlowTable DEF WithState, Verifying
<1>4. proc.pc = "replayState" => proc.state = state
  BY <1>1 DEF TruthInv, StateOK, NeedsState, Judged, Settled
<1> HIDE DEF state
<1>5. proc' = At(p, state, proc.decision) /\ UNCHANGED result
  BY <1>1, <1>3, GoToStep
<1>6. CheckedOK
  BY <1>1 DEF TruthInv
<1>7. CASE Verifying
  <2>1. /\ Inclusion(proc.bundle.request)
        /\ proc.bundle.decision.batch \in DOMAIN proc.metas /\ PairCode = "ok"
        /\ proc.pc = "replayState" => JudgeCode = "ok"
    BY <1>1, <1>6, <1>7 DEF CheckedOK, Early, Paired, Judged, Settled
  <2>2. p \in Judged => proc.pc = "replayState"
    BY <1>3, <1>7 DEF Judged, Settled
  <2> QED
    BY <1>1, <1>2, <1>4, <1>5, <1>7, <2>1, <2>2, TruthPass DEF state
<1>8. CASE ~Verifying
  <2>1. LocalAnchored
    BY <1>1, <1>6, <1>8 DEF CheckedOK, Early
  <2>2. p \notin Judged
    BY <1>3, <1>8 DEF Judged, Settled
  <2> QED
    BY <1>1, <1>2, <1>5, <1>8, <2>1, <2>2, TruthPass DEF state
<1> QED
  BY <1>7, <1>8

LEMMA TruthChecks ==
    ASSUME ViewInv, TruthInv, CheckRequest \/ CheckPair \/ Judge \/ CheckLocal \/ Make
    PROVE  TruthInv'
<1>1. proc.pc \in {"proof", "pair", "judge", "replay", "local", "make"} /\ Busy /\ Rest
      /\ reads' \in Seq(Balances)
  BY DEF CheckRequest, CheckPair, Judge, CheckLocal, Make, Busy, TruthInv
<1>2. /\ proc.struct = None /\ RequestBatch \in DOMAIN proc.metas
      /\ proc.op \in {"verify", "decide"} /\ proc.pc \in Steps[proc.op]
      /\ proc.pc \in {"proof", "pair", "judge", "replay"} => Verifying
      /\ proc.pc \in {"local", "make"} => ~Verifying
  <2>1. /\ proc.struct = None /\ RequestBatch \in DOMAIN proc.metas
        /\ proc.op \in {"verify", "decide"} /\ proc.pc \in Steps[proc.op]
    BY <1>1, NotReading DEF NeedsBatch, Early
  <2> QED
    BY <1>1, <2>1 DEF Steps, Verifying
<1>3. /\ StateOK /\ CheckedOK
  BY <1>1 DEF TruthInv
<1>4. \A p : GoTo(proc, p) => proc' = At(p, proc.state, proc.decision) /\ UNCHANGED result
  BY <1>1, GoToStep
<1>5. CASE CheckRequest
  <2>1. proc.pc = "proof" /\ Verifying
    BY <1>2, <1>5 DEF CheckRequest
  <2>2. CASE Inclusion(proc.bundle.request)
    <3>1. GoTo(proc, "decision")
      BY <1>5, <2>1, <2>2, FlowTable DEF CheckRequest, Advance, Verifying
    <3> QED
      BY <1>1, <1>2, <1>4, <2>1, <2>2, <3>1, TruthPass DEF Paired, Judged, Settled
  <2>3. CASE ~Inclusion(proc.bundle.request)
    <3>1. Throw("INVALID_INCLUSION")
      BY <1>5, <2>3 DEF CheckRequest
    <3>2. ~Fair
      <4>1. RequestBatch = proc.bundle.request.batch
        BY <2>1 DEF RequestBatch
      <4> QED
        BY <1>1, <1>2, <2>3, <4>1, FairFacts, FairIncluded
    <3> QED
      BY <1>1, <3>1, <3>2, TruthThrow
  <2> QED
    BY <2>2, <2>3
<1>6. CASE CheckPair
  <2>1. proc.pc = "pair" /\ Verifying
    BY <1>2, <1>6 DEF CheckPair
  <2>2. CASE PairCode = "ok"
    <3>1. PICK p \in {"block", "judge"} :
              GoTo(proc, p) /\ (p = "judge" => ~NeedsState(policy, Request))
      BY <1>6, <2>2 DEF CheckPair
    <3>2. Inclusion(proc.bundle.request) /\ proc.bundle.decision.batch \in DOMAIN proc.metas
      BY <1>3, <2>1 DEF CheckedOK, Early
    <3>3. p \notin Judged /\ p # "make" /\ (p \in {"judge", "make"} => p = "judge")
      BY <3>1 DEF Judged, Settled
    <3> QED
      BY <1>1, <1>2, <1>4, <2>1, <2>2, <3>1, <3>2, <3>3, TruthPass
  <2>3. CASE PairCode # "ok"
    <3>1. Throw(PairCode)
      BY <1>6, <2>3 DEF CheckPair
    <3> QED
      BY <1>1, <2>1, <2>3, <3>1, FairPaired, TruthThrow
  <2> QED
    BY <2>2, <2>3
<1>7. CASE Judge
  <2>1. proc.pc \in {"judge", "replay"} /\ Verifying
    BY <1>2, <1>7 DEF Judge
  <2>2. CASE JudgeCode = "ok"
    <3>1. PICK p \in {"end", "return"} : GoTo(proc, p)
      BY <1>7, <2>1, <2>2, FlowTable DEF Judge, Advance, Verifying
    <3>2. /\ Inclusion(proc.bundle.request) /\ PairCode = "ok"
          /\ proc.bundle.decision.batch \in DOMAIN proc.metas
      BY <1>3, <2>1 DEF CheckedOK, Early, Paired, Settled
    <3>3. NeedsState(policy, Request) => proc.state = StateIn(policy, Receipt.block)
      BY <1>3, <2>1 DEF StateOK, Judged, Settled
    <3> QED
      BY <1>1, <1>2, <1>4, <2>1, <2>2, <3>1, <3>2, <3>3, TruthPass
  <2>3. CASE JudgeCode # "ok"
    <3>1. Throw(JudgeCode)
      BY <1>7, <2>3 DEF Judge
    <3> QED
      BY <1>1, <2>1, <2>3, <3>1, FairJudged, TruthThrow
  <2> QED
    BY <2>2, <2>3
<1>8. CASE CheckLocal
  <2>1. proc.pc = "local" /\ ~Verifying /\ ~Fair
    BY <1>2, <1>8 DEF CheckLocal, Fair
  <2>2. CASE LocalAnchored
    <3>1. PICK p \in {"block", "make"} :
              GoTo(proc, p) /\ (p = "make" => ~NeedsState(policy, Request))
      BY <1>8, <2>2 DEF CheckLocal, LocalAnchored
    <3>2. p \notin Judged /\ (p \in {"judge", "make"} => p = "make")
      BY <3>1 DEF Judged, Settled
    <3> QED
      BY <1>1, <1>2, <1>4, <2>1, <2>2, <3>1, <3>2, TruthPass
  <2>3. CASE ~LocalAnchored
    <3>1. Throw("ANCHOR_MISMATCH")
      BY <1>8, <2>3 DEF CheckLocal, LocalAnchored
    <3> QED
      BY <1>1, <2>1, <3>1, TruthThrow
  <2> QED
    BY <2>2, <2>3
<1>9. CASE Make
  <2> DEFINE d == MakeDecision(policy, Request, Receipt, proc.state)
  <2>1. Advance([proc EXCEPT !.decision = d]) /\ proc.pc = "make"
    BY <1>9 DEF Make
  <2>2. ~Verifying /\ proc.op = "decide"
    BY <1>2, <2>1 DEF Verifying
  <2> HIDE DEF d
  <2>3. [proc EXCEPT !.decision = d] = At(proc.pc, proc.state, d)
    <3>1. proc = At(proc.pc, proc.state, proc.decision)
      BY <1>1 DEF At, ViewInv, ShapeOK
    <3> QED
      BY <3>1 DEF At
  <2>4. GoTo(At(proc.pc, proc.state, d), "end")
    BY <2>1, <2>2, <2>3, FlowTable DEF Advance, At
  <2>5. proc' = At("end", proc.state, d) /\ UNCHANGED result
    BY <2>4 DEF GoTo, At
  <2>6. /\ LocalAnchored
        /\ NeedsState(policy, Request) => proc.state = StateIn(policy, Receipt.block)
    BY <1>3, <2>1, <2>2 DEF CheckedOK, StateOK, Early
  <2> QED
    BY <1>1, <1>2, <2>2, <2>5, <2>6, TruthPass DEF d
<1> QED
  BY <1>5, <1>6, <1>7, <1>8, <1>9

(* The struct is the view's, whichever chain the node is on. *)
LEMMA TruthStruct ==
    ASSUME ViewInv, TruthInv, ReadStruct
    PROVE  TruthInv'
<1>1. /\ NeedsBatch /\ Busy /\ Rest /\ reads' \in Seq(Balances)
      /\ UNCHANGED <<policy, dropped, reads>>
  BY DEF ReadStruct, NeedsBatch, Busy, Rest, node, TruthInv
<1>2. CASE Wanted \notin DOMAIN Anchors[proc.view]
  BY <1>1, <1>2, TruthThrow DEF ReadStruct, OperationalErrors
<1>3. CASE Wanted \in DOMAIN Anchors[proc.view]
  <2> DEFINE struct == Anchors[proc.view][Wanted]
  <2>1. proc' = [proc EXCEPT !.struct = struct] /\ UNCHANGED result
    BY <1>3 DEF ReadStruct
  <2> HIDE DEF struct
  <2>2. proc = At(proc.pc, proc.state, proc.decision)
    BY <1>1 DEF At, ViewInv, ShapeOK
  <2>3. /\ proc'.op = proc.op /\ proc'.bundle = proc.bundle /\ proc'.index = proc.index
        /\ proc'.view = proc.view /\ proc'.metas = proc.metas /\ proc'.struct = struct
        /\ proc'.pc = proc.pc /\ proc'.state = proc.state /\ proc'.decision = proc.decision
    BY <2>1, <2>2 DEF At
  <2>4. /\ Verifying' <=> Verifying
        /\ Request' = Request /\ RequestBatch' = RequestBatch /\ Receipt' = Receipt
        /\ Wanted' = Wanted
    BY <1>1, <2>3 DEF Verifying, Request, RequestBatch, Receipt, Ref, Wanted
  <2>5. proc.pc \notin Paired /\ proc.pc \notin {"judge", "make"} \cup Judged
    BY <1>1 DEF NeedsBatch, Paired, Judged, Settled
  <2>6. BatchesOK'
    BY <1>1, <1>3, <2>3, <2>4 DEF TruthInv, BatchesOK, MetaOf, struct
  <2>7. SubjectOK' /\ StateOK'
    BY <1>1, <2>3, <2>4, <2>5 DEF TruthInv, SubjectOK, StateOK
  <2>8. CheckedOK'
    <3>1. (Inclusion(proc.bundle.request))' <=> Inclusion(proc.bundle.request)
      BY <2>3 DEF Inclusion
    <3>2. CheckedOK
      BY <1>1 DEF TruthInv
    <3>3. CASE Verifying
      BY <1>1, <2>3, <2>4, <2>5, <3>1, <3>2, <3>3 DEF CheckedOK, Judged, Paired
    <3>4. CASE ~Verifying
      BY <1>1, <2>3, <2>4, <2>5, <3>2, <3>4 DEF CheckedOK, LocalAnchored
    <3> QED
      BY <3>3, <3>4
  <2>9. EvidenceTrue' /\ HonestAccepted'
    BY <1>1, <2>1, Zenon DEF TruthInv, EvidenceTrue, Stands, HonestAccepted, Honest
  <2> QED
    BY <1>1, <2>6, <2>7, <2>8, <2>9 DEF TruthInv
<1> QED
  BY <1>2, <1>3

(* The header read has the number and the time the struct says; only a     *)
(* header of another chain has not.                                        *)
LEMMA TruthHeader ==
    ASSUME ViewInv, TruthInv, ReadHeader
    PROVE  TruthInv'
<1> DEFINE n == proc.struct.number
<1>1. /\ NeedsBatch /\ Busy /\ Rest /\ proc.struct # None /\ reads' \in Seq(Balances)
      /\ UNCHANGED <<policy, dropped, reads>>
  BY DEF ReadHeader, NeedsBatch, Busy, Rest, node, TruthInv
<1>2. CASE ~HeaderFound
  <2>1. ~Fair
    BY <1>1, <1>2, HeaderFits DEF Fair
  <2>2. Throw("ANCHOR_MISMATCH")
    BY <1>2 DEF ReadHeader, HeaderFound
  <2> QED
    BY <1>1, <2>1, <2>2, TruthThrow
<1>3. CASE HeaderFound
  <2> DEFINE p == Flow[proc.op][proc.pc]
             metas == proc'.metas
             log == Anchors[proc.view]
  <2>1. /\ proc' = [op |-> proc.op, bundle |-> proc.bundle, runtime |-> proc.runtime,
                    index |-> proc.index, pc |-> p, view |-> proc.view, metas |-> metas,
                    struct |-> None, state |-> proc.state, decision |-> proc.decision]
        /\ DOMAIN metas = DOMAIN proc.metas \cup {Wanted}
        /\ metas[Wanted] = Meta(Wanted, proc.struct, BlockAt(n))
        /\ \A b \in DOMAIN proc.metas : b # Wanted => metas[b] = proc.metas[b]
        /\ UNCHANGED result /\ HasNumber(n) /\ Time[BlockAt(n)] = proc.struct.time
    BY <1>3, HeaderTaken DEF HeaderFound
  <2>2. /\ proc.op \in {"verify", "decide"} /\ proc.pc \in Steps[proc.op]
        /\ Wanted \notin DOMAIN proc.metas /\ head \in Blocks
    BY <1>1, NotReading DEF ViewInv, ReadOK, NodeOK
  <2>3. \/ proc.pc = "request" /\ p = (IF Verifying THEN "proof" ELSE "local")
        \/ proc.pc = "decision" /\ Verifying /\ p = "pair"
    BY <1>1, <2>2, FlowTable DEF NeedsBatch, Steps, Verifying
  <2> HIDE DEF p, metas
  <2>4. /\ proc'.op = proc.op /\ proc'.bundle = proc.bundle /\ proc'.index = proc.index
        /\ proc'.view = proc.view /\ proc'.metas = metas /\ proc'.struct = None /\ proc'.pc = p
    BY <2>1
  <2>5. (Verifying' <=> Verifying) /\ RequestBatch' = RequestBatch
    BY <2>4 DEF Verifying, RequestBatch
  <2>6. p \notin Paired /\ p \notin {"judge", "make"} \cup Judged
    BY <2>3 DEF Paired, Judged, Settled
  <2>7. BatchesOK'
    <3>1. \A b \in DOMAIN proc.metas : MetaOf(b, log)
      BY <1>1 DEF TruthInv, BatchesOK
    <3>2. Wanted \in DOMAIN log /\ proc.struct = log[Wanted]
      BY <1>1 DEF TruthInv, BatchesOK
    <3>3. BlockAt(n) \in Blocks /\ Num[BlockAt(n)] = n
      <4>1. BlockAt(n) \in Chain[head] /\ Num[BlockAt(n)] = n
        BY <2>1 DEF HasNumber, BlockAt
      <4> QED
        BY <2>2, <4>1, ChainAssumption
    <3> HIDE DEF log
    <3>4. ASSUME NEW b \in DOMAIN metas
          PROVE  LET block == metas[b].block
                 IN  /\ b \in DOMAIN log /\ block \in Blocks
                     /\ Num[block] = log[b].number /\ Time[block] = log[b].time
                     /\ metas[b] = Meta(b, log[b], block)
      <4>1. CASE b = Wanted
        <5>1. metas[b] = Meta(b, log[b], BlockAt(n)) /\ metas[b].block = BlockAt(n)
          BY <2>1, <3>2, <4>1 DEF Meta
        <5> QED
          BY <2>1, <3>2, <3>3, <4>1, <5>1
      <4>2. CASE b # Wanted
        BY <2>1, <3>1, <4>2 DEF MetaOf
      <4> QED
        BY <4>1, <4>2
    <3>5. log' = log
      BY <2>4 DEF log
    <3> QED
      BY <2>4, <3>4, <3>5 DEF BatchesOK, MetaOf, log
  <2>8. SubjectOK' /\ StateOK'
    BY <1>1, <2>4, <2>5, <2>6 DEF TruthInv, SubjectOK, StateOK
  <2>9. CheckedOK'
    <3>1. CheckedOK
      BY <1>1 DEF TruthInv
    <3>2. CASE p = "pair"
      <4>1. proc.pc = "decision" /\ Verifying
        BY <2>3, <3>2
      <4>2. RequestBatch \in DOMAIN proc.metas /\ RequestBatch = proc.bundle.request.batch
        BY <1>1, <4>1, NotReading DEF Early, RequestBatch
      <4>3. metas[proc.bundle.request.batch] = proc.metas[proc.bundle.request.batch]
        BY <2>1, <2>2, <4>2
      <4>4. Inclusion(proc.bundle.request)
        BY <3>1, <4>1 DEF CheckedOK, Early
      <4>5. (Inclusion(proc.bundle.request))'
        BY <2>4, <4>3, <4>4 DEF Inclusion
      <4>6. proc.bundle.decision.batch \in DOMAIN metas
        BY <2>1, <4>1 DEF Wanted
      <4> QED
        BY <2>4, <2>5, <2>6, <4>1, <4>5, <4>6 DEF CheckedOK, Judged
    <3>3. CASE p # "pair"
      BY <2>3, <2>4, <2>5, <2>6, <3>3 DEF CheckedOK, Judged
    <3> QED
      BY <3>2, <3>3
  <2>10. EvidenceTrue' /\ HonestAccepted'
    BY <1>1, <2>1, Zenon DEF TruthInv, EvidenceTrue, Stands, HonestAccepted, Honest
  <2> QED
    BY <1>1, <2>7, <2>8, <2>9, <2>10 DEF TruthInv
<1> QED
  BY <1>2, <1>3

LEMMA TruthStep == ViewInv /\ TruthInv /\ [Next]_vars => TruthInv'
<1> SUFFICES ASSUME ViewInv, TruthInv, [Next]_vars PROVE TruthInv'
  OBVIOUS
<1>1. CASE Move
  BY <1>1, TruthMove DEF Move
<1>2. CASE OpenVerify \/ OpenDecide
  BY <1>2, TruthOpen
<1>3. CASE AssertCanonical \/ NodeFails
  BY <1>3, TruthCanonical, TruthFails
<1>4. CASE Pinned \/ ReadBlock \/ KnownBatch
  BY <1>4, TruthPinned, TruthKnown
<1>5. CASE ReadStruct \/ ReadHeader
  BY <1>5, TruthStruct, TruthHeader
<1>6. CASE ReuseBalance \/ ReadBalance \/ ReadCreditState
  BY <1>6, TruthState
<1>7. CASE CheckRequest \/ CheckPair \/ Judge \/ CheckLocal \/ Make
  BY <1>7, TruthChecks
<1>8. CASE Return
  BY <1>8, TruthReturn
<1>9. CASE UNCHANGED vars
  BY <1>9, TruthMove DEF vars, node
<1> QED
  BY <1>1, <1>2, <1>3, <1>4, <1>5, <1>6, <1>7, <1>8, <1>9 DEF Next

LEMMA Begins == Init => ViewInv /\ TruthInv
<1> SUFFICES ASSUME Init PROVE ViewInv /\ TruthInv
  OBVIOUS
<1>1. head \in Blocks /\ dropped = {} /\ result = None /\ ~Busy /\ returned = FALSE
  BY DEF Init, Idle, Busy
<1>2. ViewInv
  BY <1>1 DEF ViewInv, NodeOK, ShapeOK, ReadOK, OneChain, Stands
<1>3. policy \in Policies /\ reads \in Seq(Balances)
  BY DEF Init
<1> QED
  BY <1>1, <1>2, <1>3 DEF TruthInv, EvidenceTrue, Stands, HonestAccepted

LEMMA Holds == Spec => [](ViewInv /\ TruthInv)
<1>1. ViewInv /\ TruthInv /\ [Next]_vars => (ViewInv /\ TruthInv)'
  BY ViewStep, TruthStep
<1> QED
  BY <1>1, Begins, PTL DEF Spec

(* What a verifier passes, or an institution decides, is true of the view  *)
(* it was pinned to: the request is at the leaf the receipt names, the     *)
(* receipt's block has the number and the time of the anchoring, the       *)
(* decision approves exactly if the policy does in that block's state, and *)
(* a verified decision was anchored later.  For every bundle, however it   *)
(* was come by, and however the node's chain moved between the requests    *)
(* (verify.js, reader.js).                                                 *)
THEOREM EvidenceIsTrue == Spec => []EvidenceTrue
<1>1. ViewInv /\ TruthInv => EvidenceTrue
  BY DEF TruthInv
<1> QED
  BY <1>1, Holds, PTL

(* No bundle the store exports of a decision it made on the view's chain   *)
(* is refused for what is in it: the only errors left are those of the     *)
(* node, unless the view was dropped (verify.js:11).                       *)
THEOREM HonestIsAccepted == Spec => []HonestAccepted
<1>1. ViewInv /\ TruthInv => HonestAccepted
  BY DEF TruthInv
<1> QED
  BY <1>1, Holds, PTL

==============================================================================
