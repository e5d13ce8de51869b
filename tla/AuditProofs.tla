------------------------------ MODULE AuditProofs ----------------------------
(***************************************************************************)
(* Proofs about Audit, for any log of any records, any policy, any answers *)
(* of the archive and any number of audits, blocks and reorganisations.    *)
(***************************************************************************)
EXTENDS Audit, NumberFacts, FiniteSetTheorems, SequenceTheorems, TLAPS

-----------------------------------------------------------------------------
(* The inductive invariant *)

Anchor == [records : Batches, block : Nat \ {0}]

ChainOK ==
    /\ blocks \in Seq(Nat) /\ Len(blocks) \in 1..MaxHeight
    /\ fork \in 0..MaxReorgs /\ \A n \in DOMAIN blocks : blocks[n] <= fork
    /\ anchored \in Seq(Anchor)
    /\ \A i \in DOMAIN anchored : anchored[i].block <= Len(blocks) + 1
    /\ \A i, k \in DOMAIN anchored : i <= k => anchored[i].block <= anchored[k].block
    /\ final \in 1..Len(blocks)

(* A block that was canonical once: dropped, it cannot come back. *)
Known(b) ==
    /\ b.number \in 1..MaxHeight /\ b.fork \in 0..MaxReorgs /\ b.fork <= fork
    /\ b.fork = fork => Canonical(b)

Settled(b) == b.number <= final /\ Canonical(b)

(* A log as far as an audit may go into it. *)
LogOK(log) ==
    /\ \E k \in Nat : DOMAIN log = 1..k
    /\ \A id \in DOMAIN log :
          /\ \E m \in 0..BatchLimit : DOMAIN log[id].records = 1..m
          /\ log[id].block.number \in 1..MaxHeight
          /\ log[id].block.fork \in 0..MaxReorgs
          /\ Canonical(log[id].block)

(* The codes of the check of a right decision, all else being honest. *)
Pardoned == {"VALID", "RPC_UNAVAILABLE"}

(* What is set down of a decision in its turn is right about it. *)
CheckOK(c) ==
    \E p \in Accepted(audit.log) :
        /\ c.at \in DecisionsOn(audit.log, p)
        /\ c.code = "VALID" => Answers(audit.log, p, c.at)
        /\ audit.honest /\ Answers(audit.log, p, c.at) => c.code \in Pardoned

(* While its view stands, an audit has read part of the log committed      *)
(* there, but for batches it could not read.                               *)
ScanOK ==
    LET log == LogAt(audit.view.number) IN
    /\ audit.count = CountAt(audit.view.number)
    /\ \A id \in DOMAIN audit.log :
          /\ id \in DOMAIN log
          /\ audit.log[id].block = log[id].block
          /\ audit.log[id].records \in {log[id].records, Unread}
          /\ audit.honest => audit.log[id].records = log[id].records
    /\ audit.checked # {} => Len(audit.log) = audit.count
    /\ \A c \in audit.checked : CheckOK(c)

(* What an audit has read of the log. *)
Entry == [block   : [number : 1..MaxHeight, fork : 0..MaxReorgs],
          records : Batches \cup {Unread}]

AuditOK ==
    /\ \/ audit = Idle
       \/ audit.pc = "label"
       \/ /\ audit.pc = "choose"
          /\ audit = [pc |-> "choose", view |-> audit.view, finality |-> audit.finality]
       \/ audit.pc = "begin"
       \/ /\ audit.pc = "scan"
          /\ audit = [pc |-> "scan", view |-> audit.view, finality |-> audit.finality,
                      count |-> audit.count, log |-> audit.log, checked |-> audit.checked,
                      honest |-> audit.honest]
          /\ audit.log \in Seq(Entry)
    /\ audit # Idle => Known(audit.view)
    /\ audit.pc \in {"choose", "begin"} /\ audit.finality => audit.view.number <= final
    /\ audit.pc = "scan" /\ audit.finality => Settled(audit.view)
    /\ audit.pc = "scan" /\ Canonical(audit.view) => ScanOK

(* What a report says of a log that stands. *)
Judged(rep) ==
    LET n == rep.view.number
        log == LogAt(n)
    IN  /\ rep.ok => Clean(n)
        /\ rep.honest /\ Clean(n) =>
              /\ ~rep.late /\ rep.issues \subseteq {"RPC_UNAVAILABLE"}
              /\ rep.complete <=> rep.issues = {}
              /\ rep.ok <=> rep.issues = {}
        /\ rep.honest => \A p \in Accepted(log) : \A q \in DecisionsOn(log, p) :
                            Answers(log, p, q) =>
                               \E c \in rep.checked : c.at = q /\ c.code \in Pardoned

ReportsOK ==
    \A rep \in reports :
        /\ Known(rep.view)
        /\ rep.finality => Settled(rep.view)
        /\ Canonical(rep.view) => Judged(rep)

AuditInv == ChainOK /\ AuditOK /\ ReportsOK

-----------------------------------------------------------------------------
(* Batches up to a block *)

LEMMA AnchorType ==
    ASSUME ChainOK
    PROVE  /\ Len(anchored) \in Nat /\ DOMAIN anchored = 1..Len(anchored)
           /\ Len(blocks) \in Nat /\ DOMAIN blocks = 1..Len(blocks)
           /\ \A i \in DOMAIN anchored :
                 /\ anchored[i].block \in Nat \ {0}
                 /\ \E m \in 1..BatchLimit : DOMAIN anchored[i].records = 1..m
           /\ \A n \in DOMAIN blocks : blocks[n] \in 0..MaxReorgs
<1>1. /\ anchored \in Seq(Anchor) /\ blocks \in Seq(Nat)
      /\ \A i \in DOMAIN anchored : anchored[i] \in Anchor
  BY DEF ChainOK
<1>2. \A i \in DOMAIN anchored : \E m \in 1..BatchLimit : DOMAIN anchored[i].records = 1..m
  BY <1>1 DEF Anchor, Batches
<1>3. \A i \in DOMAIN anchored : anchored[i].block \in Nat \ {0}
  BY <1>1 DEF Anchor
<1>4. Len(anchored) \in Nat /\ DOMAIN anchored = 1..Len(anchored)
  BY <1>1
<1>5. Len(blocks) \in Nat /\ DOMAIN blocks = 1..Len(blocks)
  BY <1>1
<1>6. \A n \in DOMAIN blocks : blocks[n] \in 0..MaxReorgs
  BY <1>1, ChainAssumption DEF ChainOK
<1> QED
  BY <1>2, <1>3, <1>4, <1>5, <1>6

(* The batches up to a block are the first ones. *)
LEMMA CountIs ==
    ASSUME ChainOK, NEW n \in Nat
    PROVE  /\ CountAt(n) \in 0..Len(anchored)
           /\ \A id \in DOMAIN anchored : anchored[id].block <= n <=> id <= CountAt(n)
<1> DEFINE L == Len(anchored)
           S == {id \in DOMAIN anchored : anchored[id].block <= n}
           T == (1..L) \ S
<1>1. /\ L \in Nat /\ DOMAIN anchored = 1..L
      /\ \A i \in 1..L : anchored[i].block \in Nat
      /\ \A i, k \in 1..L : i <= k => anchored[i].block <= anchored[k].block
  BY AnchorType DEF ChainOK
<1> HIDE DEF L
<1>2. \E k \in 0..L : S = 1..k
  <2>1. CASE T = {}
    BY <1>1, <2>1
  <2>2. CASE T # {}
    <3>1. PICK m \in T : \A i \in T : m <= i
      <4>1. T \in SUBSET Nat
        BY <1>1
      <4> HIDE DEF T
      <4> QED
        BY <2>2, <4>1, LeastOf
    <3>2. m \in 1..L /\ ~(anchored[m].block <= n)
      BY <1>1, <3>1
    <3>3. \A i \in 1..L : i \in S <=> i < m
      <4>1. ASSUME NEW i \in 1..L, i < m PROVE i \in S
        BY <1>1, <3>1, <3>2, <4>1
      <4>2. ASSUME NEW i \in 1..L, ~(i < m) PROVE i \notin S
        <5>1. m <= i /\ anchored[m].block <= anchored[i].block
          BY <1>1, <3>2, <4>2
        <5> QED
          BY <1>1, <3>2, <5>1
      <4> QED
        BY <4>1, <4>2
    <3>4. m - 1 \in 0..L /\ S = 1..(m - 1)
      BY <1>1, <3>2, <3>3
    <3> QED
      BY <3>4
  <2> QED
    BY <2>1, <2>2
<1>3. PICK k \in 0..L : S = 1..k
  BY <1>2
<1>4. CountAt(n) = k
  <2>1. Cardinality(1..k) = k
    BY <1>1, <1>3, IntervalSize
  <2> QED
    BY <1>3, <2>1 DEF CountAt
<1>5. \A id \in 1..L : anchored[id].block <= n <=> id \in 1..k
  BY <1>1, <1>3
<1> QED
  BY <1>1, <1>3, <1>4, <1>5 DEF L

(* The log up to a block. *)
LEMMA LogIs ==
    ASSUME ChainOK, NEW n \in DOMAIN blocks
    PROVE  /\ DOMAIN LogAt(n) = 1..CountAt(n) /\ CountAt(n) \in Nat
           /\ \A id \in DOMAIN LogAt(n) :
                 /\ id \in DOMAIN anchored
                 /\ LogAt(n)[id].records = anchored[id].records
                 /\ LogAt(n)[id].records # Unread
                 /\ LogAt(n)[id].block = Hash(anchored[id].block)
                 /\ LogAt(n)[id].block.number = anchored[id].block
                 /\ anchored[id].block \in 1..n
           /\ LogOK(LogAt(n))
<1>1. n \in Nat /\ n \in 1..Len(blocks) /\ Len(blocks) \in 1..MaxHeight
  BY AnchorType DEF ChainOK
<1>2. CountAt(n) \in 0..Len(anchored) /\ Len(anchored) \in Nat /\ CountAt(n) \in Nat
      /\ \A id \in DOMAIN anchored : anchored[id].block <= n <=> id <= CountAt(n)
  <2>1. Len(anchored) \in Nat
    BY AnchorType
  <2>2. /\ CountAt(n) \in 0..Len(anchored)
        /\ \A id \in DOMAIN anchored : anchored[id].block <= n <=> id <= CountAt(n)
    BY <1>1, CountIs
  <2> QED
    BY <2>1, <2>2
<1>3. DOMAIN LogAt(n) = 1..CountAt(n)
  BY DEF LogAt
<1>4. ASSUME NEW id \in 1..CountAt(n)
      PROVE  /\ id \in DOMAIN anchored
             /\ LogAt(n)[id].records = anchored[id].records
             /\ LogAt(n)[id].block = Hash(anchored[id].block)
             /\ anchored[id].block \in 1..n
             /\ \E m \in 1..BatchLimit : DOMAIN anchored[id].records = 1..m
  <2>1. id \in DOMAIN anchored
    BY <1>2, AnchorType
  <2>2. anchored[id].block \in 1..n
    BY <1>1, <1>2, <2>1, AnchorType
  <2> QED
    BY <2>1, <2>2, AnchorType DEF LogAt
<1>5. ASSUME NEW id \in 1..CountAt(n)
      PROVE  /\ LogAt(n)[id].block.number = anchored[id].block
             /\ LogAt(n)[id].block.number \in 1..MaxHeight
             /\ LogAt(n)[id].block.fork \in 0..MaxReorgs
             /\ Canonical(LogAt(n)[id].block)
             /\ LogAt(n)[id].records # Unread
             /\ \E m \in 0..BatchLimit : DOMAIN LogAt(n)[id].records = 1..m
  <2>1. anchored[id].block \in DOMAIN blocks
    BY <1>1, <1>4, AnchorType
  <2>2. PICK m \in 1..BatchLimit : DOMAIN anchored[id].records = 1..m
    BY <1>4
  <2>3. m \in 0..BatchLimit /\ DOMAIN LogAt(n)[id].records = 1..m /\ 1 \in 1..m
    BY <1>4, <2>2
  <2>4. LogAt(n)[id].records # Unread
    BY <2>3 DEF Unread
  <2>5. LogAt(n)[id].block = [number |-> anchored[id].block, fork |-> blocks[anchored[id].block]]
    BY <1>4 DEF Hash
  <2>6. blocks[anchored[id].block] \in 0..MaxReorgs /\ anchored[id].block \in 1..MaxHeight
    BY <1>1, <1>4, <2>1, AnchorType, ChainAssumption
  <2>7. Canonical(LogAt(n)[id].block)
    BY <2>1, <2>5 DEF Canonical
  <2> QED
    BY <2>3, <2>4, <2>5, <2>6, <2>7
<1>6. LogOK(LogAt(n))
  BY <1>2, <1>3, <1>5 DEF LogOK
<1> QED
  BY <1>2, <1>3, <1>4, <1>5, <1>6

-----------------------------------------------------------------------------
(* Steps of the chain *)

LEMMA HashKnown ==
    ASSUME ChainOK, NEW n \in DOMAIN blocks
    PROVE  Known(Hash(n)) /\ Canonical(Hash(n)) /\ Hash(n).number = n
<1>1. n \in 1..MaxHeight /\ blocks[n] \in 0..MaxReorgs /\ blocks[n] <= fork
  BY AnchorType, ChainAssumption DEF ChainOK
<1> QED
  BY <1>1 DEF Known, Canonical, Hash

(* What stays of a block, and of the log up to it, while it is canonical. *)
Stays(b) ==
    /\ Known(b)'
    /\ Settled(b) => Settled(b)'
    /\ Canonical(b)' => /\ Canonical(b)
                        /\ CountAt(b.number)' = CountAt(b.number)
                        /\ LogAt(b.number)' = LogAt(b.number)

LEMMA SameLog ==
    ASSUME ChainOK, NEW n \in Nat,
           \A id \in DOMAIN anchored : anchored[id].block <= n =>
               /\ id \in DOMAIN anchored' /\ anchored'[id] = anchored[id]
               /\ blocks'[anchored[id].block] = blocks[anchored[id].block],
           \A id \in DOMAIN anchored' : anchored'[id].block <= n => id \in DOMAIN anchored
                                                                   /\ anchored[id].block <= n
    PROVE  CountAt(n)' = CountAt(n) /\ LogAt(n)' = LogAt(n)
<1>1. {id \in DOMAIN anchored : anchored[id].block <= n}
        = {id \in DOMAIN anchored' : anchored'[id].block <= n}
  OBVIOUS
<1>2. CountAt(n)' = CountAt(n)
  BY <1>1 DEF CountAt
<1>3. \A id \in 1..CountAt(n) : id \in DOMAIN anchored /\ anchored[id].block <= n
  BY CountIs, AnchorType
<1>4. \A id \in 1..CountAt(n) :
         /\ anchored'[id] = anchored[id]
         /\ blocks'[anchored[id].block] = blocks[anchored[id].block]
  BY <1>3
<1>5. LogAt(n)' = LogAt(n)
  BY <1>2, <1>4 DEF LogAt, Hash
<1> QED
  BY <1>2, <1>5

LEMMA PublishStep ==
    ASSUME ChainOK, Publish
    PROVE  ChainOK' /\ \A b : Known(b) => Stays(b)
<1>1. PICK records \in Batches : AnchorBatch([id |-> Len(anchored) + 1, records |-> records])
  BY DEF Publish
<1> DEFINE new == [records |-> records, block |-> Len(blocks) + 1]
<1>2. anchored' = Append(anchored, new) /\ Len(blocks) < MaxHeight
      /\ UNCHANGED <<blocks, fork, final>>
  BY <1>1 DEF AnchorBatch, Publish
<1>3. /\ Len(anchored) \in Nat /\ DOMAIN anchored = 1..Len(anchored) /\ Len(blocks) \in Nat
      /\ DOMAIN blocks = 1..Len(blocks) /\ anchored \in Seq(Anchor)
  BY AnchorType DEF ChainOK
<1>4. new \in Anchor /\ new.block = Len(blocks) + 1
  BY <1>3 DEF Anchor
<1> HIDE DEF new
<1>5. /\ anchored' \in Seq(Anchor) /\ DOMAIN anchored' = 1..(Len(anchored) + 1)
      /\ \A i \in DOMAIN anchored : anchored'[i] = anchored[i]
      /\ anchored'[Len(anchored) + 1] = new
  BY <1>2, <1>3, <1>4
<1>6. ChainOK'
  <2>1. \A i \in DOMAIN anchored : anchored[i].block <= Len(blocks) + 1 /\ anchored[i].block \in Nat
    BY AnchorType DEF ChainOK
  <2>2. \A i \in DOMAIN anchored' : anchored'[i].block <= Len(blocks) + 1
    BY <1>3, <1>4, <1>5, <2>1
  <2>3. \A i, k \in DOMAIN anchored' : i <= k => anchored'[i].block <= anchored'[k].block
    <3> SUFFICES ASSUME NEW i \in DOMAIN anchored', NEW k \in DOMAIN anchored', i <= k
                 PROVE  anchored'[i].block <= anchored'[k].block
      OBVIOUS
    <3>1. CASE k = Len(anchored) + 1
      BY <1>4, <1>5, <2>2, <3>1
    <3>2. CASE k # Len(anchored) + 1
      <4>1. i \in DOMAIN anchored /\ k \in DOMAIN anchored
        BY <1>3, <1>5, <3>2
      <4> QED
        BY <1>5, <4>1 DEF ChainOK
    <3> QED
      BY <3>1, <3>2
  <2> QED
    BY <1>2, <1>5, <2>2, <2>3 DEF ChainOK
<1>7. ASSUME NEW b, Known(b) PROVE Stays(b)
  <2>1. Known(b)' /\ (Settled(b) => Settled(b)') /\ Canonical(b)' = Canonical(b)
    BY <1>2, <1>7 DEF Known, Settled, Canonical
  <2>2. ASSUME Canonical(b)
        PROVE  CountAt(b.number)' = CountAt(b.number) /\ LogAt(b.number)' = LogAt(b.number)
    <3>1. b.number \in Nat /\ b.number <= Len(blocks)
      BY <1>3, <2>2 DEF Canonical
    <3>2. \A id \in DOMAIN anchored' : anchored'[id].block <= b.number
             => id \in DOMAIN anchored /\ anchored[id].block <= b.number
      BY <1>3, <1>4, <1>5, <3>1
    <3>3. \A id \in DOMAIN anchored : id \in DOMAIN anchored' /\ anchored'[id] = anchored[id]
      BY <1>3, <1>5
    <3> QED
      BY <1>2, <3>1, <3>2, <3>3, SameLog
  <2> QED
    BY <2>1, <2>2 DEF Stays
<1> QED
  BY <1>6, <1>7

LEMMA SealStep ==
    ASSUME ChainOK, SealBlock
    PROVE  ChainOK' /\ \A b : Known(b) => Stays(b)
<1>1. /\ blocks' = Append(blocks, fork) /\ Len(blocks) < MaxHeight
      /\ UNCHANGED <<fork, anchored, final>>
  BY DEF SealBlock, Seal
<1>2. /\ blocks \in Seq(Nat) /\ fork \in Nat /\ Len(blocks) \in Nat /\ Len(blocks) \in 1..MaxHeight
      /\ DOMAIN blocks = 1..Len(blocks) /\ MaxHeight \in Nat
  BY ChainAssumption DEF ChainOK
<1>3. /\ blocks' \in Seq(Nat) /\ Len(blocks') = Len(blocks) + 1
      /\ DOMAIN blocks' = 1..(Len(blocks) + 1) /\ blocks'[Len(blocks) + 1] = fork
      /\ \A n \in DOMAIN blocks : blocks'[n] = blocks[n]
  BY <1>1, <1>2
<1>4. ChainOK'
  <2>1. Len(blocks') \in 1..MaxHeight
    BY <1>1, <1>2, <1>3
  <2>2. \A n \in DOMAIN blocks' : blocks'[n] <= fork
    BY SMTT(30), <1>2, <1>3 DEF ChainOK
  <2>3. \A i \in DOMAIN anchored : anchored[i].block <= Len(blocks') + 1
    BY SMTT(30), <1>2, <1>3, AnchorType DEF ChainOK
  <2>4. final \in 1..Len(blocks')
    BY <1>2, <1>3 DEF ChainOK
  <2> QED
    BY <1>1, <1>3, <2>1, <2>2, <2>3, <2>4 DEF ChainOK
<1>5. ASSUME NEW b, Known(b) PROVE Stays(b)
  <2>1. b.fork # fork \/ Canonical(b)
    BY <1>5 DEF Known
  <2>2. Canonical(b) => Canonical(b)'
    BY <1>2, <1>3 DEF Canonical
  <2>3. Canonical(b)' => Canonical(b)
    BY <1>2, <1>3, <2>1 DEF Canonical
  <2>4. Known(b)' /\ (Settled(b) => Settled(b)')
    BY <1>1, <1>5, <2>2 DEF Known, Settled
  <2>5. ASSUME Canonical(b)
        PROVE  CountAt(b.number)' = CountAt(b.number) /\ LogAt(b.number)' = LogAt(b.number)
    <3>1. b.number \in Nat /\ b.number <= Len(blocks)
      BY <1>2, <2>5 DEF Canonical
    <3>2. \A id \in DOMAIN anchored : anchored[id].block <= b.number
             => anchored[id].block \in DOMAIN blocks
      BY <1>2, <3>1, AnchorType
    <3> QED
      BY <1>1, <1>3, <3>1, <3>2, SameLog
  <2> QED
    BY <2>3, <2>4, <2>5 DEF Stays
<1> QED
  BY <1>4, <1>5

LEMMA ReorgStep ==
    ASSUME ChainOK, ReorgBlocks
    PROVE  ChainOK' /\ \A b : Known(b) => Stays(b)
<1>1. PICK h \in final..(Len(blocks) - 1) : Reorg(h)
  BY DEF ReorgBlocks
<1>2. /\ blocks' = SubSeq(blocks, 1, h) /\ anchored' = SubSeq(anchored, 1, CountAt(h))
      /\ fork' = fork + 1 /\ fork < MaxReorgs /\ UNCHANGED final
  BY <1>1 DEF Reorg, ReorgBlocks
<1>3. /\ blocks \in Seq(Nat) /\ Len(blocks) \in 1..MaxHeight /\ MaxHeight \in Nat
      /\ DOMAIN blocks = 1..Len(blocks) /\ final \in 1..Len(blocks)
      /\ fork \in Nat /\ MaxReorgs \in Nat
      /\ anchored \in Seq(Anchor) /\ Len(anchored) \in Nat /\ DOMAIN anchored = 1..Len(anchored)
  BY AnchorType, ChainAssumption DEF ChainOK
<1>4. h \in Nat /\ h \in 1..Len(blocks) /\ h < Len(blocks) /\ final <= h
  BY <1>3
<1>5. /\ CountAt(h) \in 0..Len(anchored)
      /\ \A id \in DOMAIN anchored : anchored[id].block <= h <=> id <= CountAt(h)
  BY <1>4, CountIs
<1>6. /\ blocks' \in Seq(Nat) /\ Len(blocks') = h /\ DOMAIN blocks' = 1..h
      /\ \A n \in 1..h : blocks'[n] = blocks[n]
  BY <1>2, <1>3, <1>4
<1>7. /\ anchored' \in Seq(Anchor) /\ DOMAIN anchored' = 1..CountAt(h)
      /\ \A i \in 1..CountAt(h) : anchored'[i] = anchored[i]
  BY SMTT(30), <1>2, <1>3, <1>5
<1>8. ChainOK'
  <2>1. Len(blocks') \in 1..MaxHeight /\ final \in 1..Len(blocks') /\ fork' \in 0..MaxReorgs
    BY SMTT(30), <1>2, <1>3, <1>4, <1>6
  <2>2. \A n \in DOMAIN blocks' : blocks'[n] <= fork'
    <3>1. \A n \in 1..h : blocks[n] \in Nat /\ blocks[n] <= fork
      <4>1. \A n \in 1..h : n \in DOMAIN blocks
        BY <1>3, <1>4
      <4>2. \A n \in DOMAIN blocks : blocks[n] \in Nat /\ blocks[n] <= fork
        BY AnchorType DEF ChainOK
      <4> QED
        BY <4>1, <4>2
    <3> QED
      BY SMTT(30), <1>2, <1>3, <1>6, <3>1
  <2>3. \A i \in 1..CountAt(h) : i \in DOMAIN anchored /\ anchored[i].block <= h
    <3>1. CountAt(h) \in Nat /\ CountAt(h) <= Len(anchored)
      BY <1>3, <1>5
    <3>2. \A i \in 1..CountAt(h) : i \in DOMAIN anchored /\ i <= CountAt(h)
      BY <1>3, <3>1
    <3> QED
      BY <1>5, <3>2
  <2>4. \A i \in DOMAIN anchored' : anchored'[i].block <= Len(blocks') + 1
    BY <1>4, <1>6, <1>7, <2>3, AnchorType
  <2>5. \A i, k \in DOMAIN anchored' : i <= k => anchored'[i].block <= anchored'[k].block
    BY SMTT(30), <1>7, <2>3 DEF ChainOK
  <2> QED
    BY <1>2, <1>6, <1>7, <2>1, <2>2, <2>4, <2>5 DEF ChainOK
<1>9. ASSUME NEW b, Known(b) PROVE Stays(b)
  <2>1. Known(b)'
    BY SMTT(30), <1>2, <1>3, <1>9 DEF Known
  <2>2. Settled(b) => Settled(b)'
    BY SMTT(30), <1>2, <1>3, <1>4, <1>6 DEF Settled, Canonical
  <2>3. Canonical(b)' => Canonical(b) /\ b.number \in 1..h
    BY <1>3, <1>4, <1>6 DEF Canonical
  <2>4. ASSUME b.number \in 1..h
        PROVE  CountAt(b.number)' = CountAt(b.number) /\ LogAt(b.number)' = LogAt(b.number)
    <3>1. \A id \in DOMAIN anchored : anchored[id].block <= b.number
             => anchored[id].block \in 1..h /\ id \in 1..CountAt(h)
      BY SMTT(30), <1>3, <1>4, <1>5, <2>4, AnchorType
    <3>2. b.number \in Nat
      BY <2>4
    <3>3. \A id \in DOMAIN anchored' : id \in DOMAIN anchored
      BY <1>3, <1>5, <1>7
    <3> QED
      BY <1>6, <1>7, <3>1, <3>2, <3>3, SameLog
  <2> QED
    BY <2>1, <2>2, <2>3, <2>4 DEF Stays
<1> QED
  BY <1>8, <1>9

LEMMA ChainMoves ==
    ASSUME ChainOK, [Next]_auditVars
    PROVE  ChainOK' /\ \A b : Known(b) => Stays(b)
<1>1. CASE UNCHANGED <<blocks, fork, anchored>> /\ final' \in 1..Len(blocks) /\ final <= final'
  <2>1. ChainOK'
    BY <1>1 DEF ChainOK
  <2>2. \A n : CountAt(n)' = CountAt(n) /\ LogAt(n)' = LogAt(n)
    BY <1>1 DEF CountAt, LogAt, Hash
  <2>3. ASSUME NEW b, Known(b) PROVE Stays(b)
    <3>1. Canonical(b)' = Canonical(b) /\ Known(b)'
      BY <1>1, <2>3 DEF Canonical, Known
    <3>2. b.number \in Nat /\ final \in Nat /\ final' \in Nat
      BY <1>1, <2>3 DEF Known, ChainOK
    <3>3. Settled(b) => Settled(b)'
      BY <1>1, <3>1, <3>2 DEF Settled
    <3> QED
      BY <2>2, <3>1, <3>3 DEF Stays
  <2> QED
    BY <2>1, <2>3
<1>2. CASE Finalize
  <2>1. PICK n \in (final + 1)..Len(blocks) : final' = n
    BY <1>2 DEF Finalize
  <2>2. final \in 1..Len(blocks) /\ Len(blocks) \in Nat
    BY DEF ChainOK
  <2>3. final' \in 1..Len(blocks) /\ final <= final'
    BY <2>1, <2>2
  <2> QED
    BY <1>1, <1>2, <2>3 DEF Finalize, chainVars
<1>3. CASE UNCHANGED <<chainVars, final>>
  <2>1. final \in 1..Len(blocks) /\ final <= final
    BY DEF ChainOK
  <2> QED
    BY <1>1, <1>3, <2>1 DEF chainVars
<1>4. \/ Publish \/ SealBlock \/ ReorgBlocks \/ Finalize \/ UNCHANGED <<chainVars, final>>
  BY Zenon DEF Next, auditVars, OpenView, LabelView, ChooseView, BeginAudit, ReadBatch,
               CheckDecision, Report, Abandon
<1> QED
  BY <1>2, <1>3, <1>4, PublishStep, SealStep, ReorgStep

-----------------------------------------------------------------------------
(* Leaves *)

LEMMA LeafIs ==
    ASSUME NEW log, LogOK(log), NEW kind, NEW p \in Leaves(log, kind)
    PROVE  /\ p = <<p[1], p[2]>> /\ p[1] \in Nat /\ p[2] \in Nat
           /\ p[1] \in DOMAIN log /\ p[2] \in DOMAIN log[p[1]].records
           /\ p[2] \in 1..BatchLimit
           /\ RecordAt(log, p).kind = kind
<1>1. PICK b \in DOMAIN log : p \in {b} \X DOMAIN log[b].records
  BY DEF Leaves
<1>2. p = <<p[1], p[2]>> /\ p[1] = b /\ p[2] \in DOMAIN log[b].records
  BY <1>1
<1>3. b \in Nat
  BY DEF LogOK
<1>4. PICK m \in 0..BatchLimit : DOMAIN log[b].records = 1..m
  BY DEF LogOK
<1>5. p[2] \in 1..BatchLimit
  BY <1>2, <1>4, ChainAssumption
<1>6. RecordAt(log, p).kind = kind
  BY DEF Leaves, RecordAt
<1> QED
  BY <1>2, <1>3, <1>5, <1>6

LEMMA LeavesFinite ==
    ASSUME NEW log, LogOK(log), NEW kind
    PROVE  IsFiniteSet(Leaves(log, kind))
<1>1. PICK k \in Nat : DOMAIN log = 1..k
  BY DEF LogOK
<1>2. IsFiniteSet(1..k) /\ IsFiniteSet(1..BatchLimit)
  BY IntervalSize, ChainAssumption
<1>3. IsFiniteSet((1..k) \X (1..BatchLimit))
  BY <1>2, FS_Product
<1>4. \A p \in Leaves(log, kind) : p \in (1..k) \X (1..BatchLimit)
  BY <1>1, LeafIs
<1>5. Leaves(log, kind) \in SUBSET ((1..k) \X (1..BatchLimit))
  BY <1>4
<1> QED
  BY <1>3, <1>5, FS_Subset

LEMMA BeforeIsTotal ==
    ASSUME NEW log, LogOK(log), NEW kind,
           NEW p \in Leaves(log, kind), NEW o \in Leaves(log, kind), p # o
    PROVE  Before(p, o) \/ Before(o, p)
<1>1. /\ p = <<p[1], p[2]>> /\ p[1] \in Nat /\ p[2] \in Nat
      /\ o = <<o[1], o[2]>> /\ o[1] \in Nat /\ o[2] \in Nat
  BY LeafIs
<1>2. p[1] # o[1] \/ p[2] # o[2]
  BY <1>1
<1> QED
  BY <1>1, <1>2 DEF Before

LEMMA AtMostOne ==
    ASSUME NEW S, IsFiniteSet(S)
    PROVE  Cardinality(S) <= 1 <=> \A x, y \in S : x = y
<1>1. Cardinality(S) \in Nat
  BY FS_CardinalityType
<1>2. ASSUME Cardinality(S) <= 1, NEW x \in S, NEW y \in S PROVE x = y
  <2>1. Cardinality(S) = 0 \/ Cardinality(S) = 1
    BY <1>1, <1>2
  <2>2. S = {} \/ \E z : S = {z}
    BY <2>1, FS_EmptySet, FS_Singleton
  <2> QED
    BY <1>2, <2>2
<1>3. ASSUME \A x, y \in S : x = y PROVE Cardinality(S) <= 1
  <2>1. S = {} \/ \E z : S = {z}
    BY <1>3
  <2>2. Cardinality(S) = 0 \/ Cardinality(S) = 1
    BY <2>1, FS_EmptySet, FS_Singleton
  <2> QED
    BY <2>2
<1> QED
  BY <1>2, <1>3

LEMMA DecisionsAre ==
    ASSUME NEW log, LogOK(log), NEW p
    PROVE  /\ DecisionsOn(log, p) \subseteq Leaves(log, "DECISION")
           /\ ~(Cardinality(DecisionsOn(log, p)) > 1)
                 <=> \A q, o \in DecisionsOn(log, p) : q = o
<1>1. DecisionsOn(log, p) \in SUBSET Leaves(log, "DECISION")
  BY DEF DecisionsOn
<1>2. IsFiniteSet(DecisionsOn(log, p))
  BY <1>1, LeavesFinite, FS_Subset
<1>3. Cardinality(DecisionsOn(log, p)) \in Nat
  BY <1>2, FS_CardinalityType
<1> QED
  BY <1>1, <1>2, <1>3, AtMostOne

(* A single decision is in time, or none is due yet. *)
LEMMA TimingIs ==
    ASSUME NEW log, NEW p, NEW qs, \A q, o \in qs : q = o, NEW now
    PROVE  Timing(log, p, qs, now) \notin {"MISSING_AS_OF_H", "REGISTERED_LATE"}
              <=> IF qs = {} THEN InTime(log, p, now)
                  ELSE \A q \in qs : InTime(log, p, AnchoredAt(log, q))
<1>1. CASE qs = {}
  BY <1>1 DEF Timing, InTime
<1>2. CASE qs # {}
  <2>1. PICK x \in qs : TRUE
    BY <1>2
  <2>2. qs = {x}
    BY <2>1
  <2>3. (CHOOSE q \in qs : \A o \in qs : o = q \/ Before(q, o)) = x
    BY <2>2
  <2>4. Timing(log, p, qs, now) =
           IF AnchoredAt(log, x) <= AnchoredAt(log, p) + Window
           THEN "REGISTERED_ON_TIME" ELSE "REGISTERED_LATE"
    BY <1>2, <2>3 DEF Timing
  <2> QED
    BY <2>2, <2>4 DEF InTime
<1> QED
  BY <1>1, <1>2

-----------------------------------------------------------------------------
(* The checks of a pair *)

LEMMA FailureFree ==
    ASSUME NEW checks, NEW k \in Nat, DOMAIN checks = 1..k,
           \A i \in 1..k : checks[i][2] # "VALID"
    PROVE  /\ FirstFailure(checks) = "VALID" <=> \A i \in 1..k : checks[i][1]
           /\ \/ FirstFailure(checks) = "VALID"
              \/ \E i \in 1..k : ~checks[i][1] /\ FirstFailure(checks) = checks[i][2]
<1>1. CASE \A i \in 1..k : checks[i][1]
  BY <1>1 DEF FirstFailure
<1>2. CASE ~\A i \in 1..k : checks[i][1]
  <2> DEFINE S == {i \in 1..k : ~checks[i][1]}
  <2>1. PICK m \in S : \A i \in S : m <= i
    <3>1. S \in SUBSET Nat /\ S # {}
      BY <1>2
    <3> HIDE DEF S
    <3> QED
      BY <3>1, LeastOf
  <2>2. \A i \in 1..(m - 1) : i \in 1..k /\ i \notin S
    BY <2>1
  <2>3. m \in DOMAIN checks /\ ~checks[m][1] /\ \A i \in 1..(m - 1) : checks[i][1]
    BY <2>1, <2>2
  <2>4. \E i \in DOMAIN checks : ~checks[i][1] /\ FirstFailure(checks) = checks[i][2]
    BY <1>2, <2>3 DEF FirstFailure
  <2> QED
    BY <1>2, <2>4
<1> QED
  BY <1>1, <1>2

(* Both ways: the checks pass with the snapshot the decision names, on a   *)
(* node that answers, exactly if the decision answers the request.         *)
LEMMA PairValid ==
    ASSUME NEW log, LogOK(log), NEW p, NEW q, NEW blob, NEW reached \in BOOLEAN,
           p[1] \in DOMAIN log, q[1] \in DOMAIN log
    PROVE  LET c == PairChecks(log, p, q, blob, reached) IN
           /\ DOMAIN c = 1..11 /\ \A i \in 1..11 : c[i][2] # "VALID"
           /\ c[7][2] = "RPC_UNAVAILABLE" /\ (reached => c[7][1])
           /\ (\A i \in 1..11 : c[i][1]) => Answers(log, p, q)
           /\ Answers(log, p, q) /\ blob = RecordAt(log, q).state
                 => \A i \in 1..11 : i # 7 => c[i][1]
<1> DEFINE c == PairChecks(log, p, q, blob, reached)
           d == RecordAt(log, q)
           ref == ReceiptRef(log, p)
           within == d.req \notin Oversize
<1>1. /\ DOMAIN c = 1..11 /\ \A i \in 1..11 : c[i][2] # "VALID"
      /\ c[7][2] = "RPC_UNAVAILABLE" /\ (reached => c[7][1])
  BY DEF PairChecks
<1>2. /\ ref.block = BlockOf(log, p)
      /\ ref.block.number \in 1..MaxHeight /\ ref.block.fork \in 0..MaxReorgs
      /\ Canonical(ref.block)
      /\ BlockOf(log, q).number \in 1..MaxHeight
  BY DEF ReceiptRef, BlockOf, LogOK
<1>3. State(ref.block) \in States /\ State(ref.block) # NoState
  BY Zenon, <1>2, AuditAssumption DEF State, NoState
<1>4. ASSUME \A i \in 1..11 : c[i][1] PROVE Answers(log, p, q)
  <2>1. /\ c[1][1] /\ c[2][1] /\ c[3][1] /\ c[4][1] /\ c[5][1] /\ c[6][1]
        /\ c[8][1] /\ c[9][1] /\ c[10][1] /\ c[11][1]
    BY <1>4
  <2>2. /\ BlockOf(log, q).number > ref.block.number
        /\ d.signed /\ d.req = RecordAt(log, p).req /\ d.ref = ref
    BY <2>1 DEF PairChecks
  <2>3. /\ within => blob = d.state /\ blob = State(ref.block)
        /\ ~within => d.state = NoState
    BY <2>1 DEF PairChecks
  <2>4. d.reason = Evaluate(d.req, State(ref.block))
    BY <2>1 DEF PairChecks
  <2> QED
    BY <1>2, <2>2, <2>3, <2>4 DEF Answers
<1>5. ASSUME Answers(log, p, q), blob = d.state PROVE \A i \in 1..11 : i # 7 => c[i][1]
  <2>1. /\ BlockOf(log, q).number > ref.block.number
        /\ d.signed /\ d.req = RecordAt(log, p).req /\ d.ref = ref
        /\ d.reason = Evaluate(d.req, State(ref.block))
        /\ d.state = IF d.req \in Oversize THEN NoState ELSE State(ref.block)
    BY <1>2, <1>5 DEF Answers
  <2>2. c[1][1] /\ c[2][1] /\ c[3][1] /\ c[4][1] /\ c[11][1]
    BY <2>1 DEF PairChecks
  <2>3. c[5][1] /\ c[6][1] /\ c[8][1] /\ c[9][1] /\ c[10][1]
    BY <1>2, <1>3, <1>5, <2>1 DEF PairChecks
  <2> HIDE DEF c
  <2> QED
    BY <2>2, <2>3
<1> QED
  BY <1>1, <1>4, <1>5

(* What the audit of a decision calls its code. *)
Codes(log, p, q, blob, reached) ==
    << <<RecordAt(log, q).signed, "INVALID_SIGNATURE">>,
       <<blob # Lost,             "DATA_UNAVAILABLE">> >>
    \o PairChecks(log, p, q, blob, reached)

LEMMA CodeIs ==
    ASSUME NEW log, LogOK(log), NEW p, NEW q, NEW blob, NEW reached \in BOOLEAN,
           p[1] \in DOMAIN log, q[1] \in DOMAIN log
    PROVE  LET code == FirstFailure(Codes(log, p, q, blob, reached)) IN
           /\ code = "VALID" => Answers(log, p, q)
           /\ Answers(log, p, q) /\ blob = RecordAt(log, q).state => code \in Pardoned
<1> DEFINE d == RecordAt(log, q)
           c == PairChecks(log, p, q, blob, reached)
           a == << <<d.signed, "INVALID_SIGNATURE">>, <<blob # Lost, "DATA_UNAVAILABLE">> >>
           s == Codes(log, p, q, blob, reached)
<1>1. /\ DOMAIN c = 1..11 /\ \A i \in 1..11 : c[i][2] # "VALID"
      /\ c[7][2] = "RPC_UNAVAILABLE"
      /\ (\A i \in 1..11 : c[i][1]) => Answers(log, p, q)
      /\ Answers(log, p, q) /\ blob = d.state => \A i \in 1..11 : i # 7 => c[i][1]
  BY PairValid
<1>2. Len(c) = 11 /\ Len(a) = 2
  BY DEF PairChecks
<1>3. /\ DOMAIN s = 1..13 /\ s[1] = a[1] /\ s[2] = a[2]
      /\ \A i \in 3..13 : s[i] = c[i - 2]
  <2>1. s = a \o c
    BY DEF Codes
  <2>2. s = [i \in 1..(Len(a) + Len(c)) |-> IF i <= Len(a) THEN a[i] ELSE c[i - Len(a)]]
    BY <2>1
  <2> HIDE DEF s, a, c
  <2> QED
    BY <1>2, <2>2
<1>4. /\ a[1][2] # "VALID" /\ a[2][2] # "VALID"
      /\ a[1][1] = d.signed /\ a[2][1] = (blob # Lost)
  OBVIOUS
<1> HIDE DEF s, a, c
<1>5. \A i \in 1..13 : s[i][2] # "VALID"
  BY <1>1, <1>3, <1>4
<1>6. /\ FirstFailure(s) = "VALID" <=> \A i \in 1..13 : s[i][1]
      /\ \/ FirstFailure(s) = "VALID"
         \/ \E i \in 1..13 : ~s[i][1] /\ FirstFailure(s) = s[i][2]
  BY <1>3, <1>5, FailureFree
<1>7. (\A i \in 1..13 : s[i][1]) => \A i \in 1..11 : c[i][1]
  <2>1. \A i \in 1..11 : i + 2 \in 3..13 /\ i + 2 \in 1..13 /\ s[i + 2] = c[i]
    BY <1>3
  <2> QED
    BY <2>1
<1>8. ASSUME Answers(log, p, q), blob = d.state PROVE FirstFailure(s) \in Pardoned
  <2>1. d.signed /\ blob # Lost
    <3>1. BlockOf(log, p).number \in 1..MaxHeight /\ BlockOf(log, p).fork \in 0..MaxReorgs
      BY DEF BlockOf, LogOK
    <3>2. State(BlockOf(log, p)) \in States
      BY Zenon, <3>1, AuditAssumption DEF State
    <3> QED
      BY <1>8, <3>2, AuditAssumption DEF Answers, NoState, Lost
  <2>2. s[1][1] /\ s[2][1]
    BY <1>3, <1>4, <2>1
  <2>3. \A i \in 3..13 : i # 9 => s[i][1]
    BY <1>1, <1>3, <1>8
  <2>4. \A i \in 1..13 : ~s[i][1] => i = 9
    <3>1. \A i \in 1..13 : i = 1 \/ i = 2 \/ i \in 3..13
      OBVIOUS
    <3> QED
      BY <2>2, <2>3, <3>1
  <2>5. s[9][2] = "RPC_UNAVAILABLE"
    BY <1>1, <1>3
  <2> QED
    BY <1>6, <2>4, <2>5 DEF Pardoned
<1> QED
  BY <1>1, <1>6, <1>7, <1>8 DEF s

(* A bundle is accepted exactly if its decision answers its request. *)
LEMMA VerifyOneIs ==
    ASSUME ChainOK, NEW n \in DOMAIN blocks,
           NEW p \in Leaves(LogAt(n), "REQUEST"), NEW q \in Leaves(LogAt(n), "DECISION")
    PROVE  VerifyOne(p, q, n) <=> Answers(LogAt(n), p, q)
<1> DEFINE log == LogAt(n)
           c == PairChecks(log, p, q, RecordAt(log, q).state, TRUE)
<1>1. LogOK(log)
  BY LogIs
<1>2. p[1] \in DOMAIN log /\ q[1] \in DOMAIN log
  BY <1>1, LeafIs
<1>3. /\ DOMAIN c = 1..11 /\ \A i \in 1..11 : c[i][2] # "VALID"
      /\ c[7][1]
      /\ (\A i \in 1..11 : c[i][1]) => Answers(log, p, q)
      /\ Answers(log, p, q) => \A i \in 1..11 : i # 7 => c[i][1]
  BY <1>1, <1>2, PairValid
<1>4. VerifyOne(p, q, n) <=> FirstFailure(c) = "VALID"
  BY DEF VerifyOne
<1> HIDE DEF c, log
<1>5. FirstFailure(c) = "VALID" <=> \A i \in 1..11 : c[i][1]
  BY <1>3, FailureFree
<1> QED
  BY <1>3, <1>4, <1>5 DEF log

-----------------------------------------------------------------------------
(* Steps of an audit *)

(* A request id has one accepted leaf, and every leaf an accepted one. *)
LEMMA AcceptedOnce ==
    ASSUME NEW log, LogOK(log), NEW p \in Accepted(log), NEW o \in Accepted(log),
           RecordAt(log, p).req = RecordAt(log, o).req
    PROVE  p = o
<1>1. p \in Leaves(log, "REQUEST") /\ o \in Leaves(log, "REQUEST")
  BY DEF Accepted
<1>2. ~Before(p, o) /\ ~Before(o, p)
  BY <1>1 DEF Accepted
<1> QED
  BY <1>1, <1>2, BeforeIsTotal

LEMMA NotBeforeItself ==
    ASSUME NEW log, LogOK(log), NEW kind, NEW p \in Leaves(log, kind)
    PROVE  ~Before(p, p)
BY LeafIs DEF Before

(* What a scan has read is a log. *)
LEMMA ScanIsLog ==
    ASSUME ChainOK, AuditOK, audit.pc = "scan", Canonical(audit.view)
    PROVE  /\ LogOK(audit.log) /\ audit.view.number \in DOMAIN blocks
           /\ Len(audit.log) \in Nat /\ DOMAIN audit.log = 1..Len(audit.log)
           /\ Len(audit.log) <= CountAt(audit.view.number)
           /\ audit.honest /\ Len(audit.log) = audit.count
                 => audit.log = LogAt(audit.view.number)
           /\ /\ Len(audit.log) = audit.count
              /\ \A id \in DOMAIN audit.log : audit.log[id].records # Unread
              => audit.log = LogAt(audit.view.number)
<1> DEFINE n == audit.view.number
           log == LogAt(n)
<1>1. audit.log \in Seq(Entry) /\ ScanOK /\ n \in DOMAIN blocks
  <2>1. audit # Idle
    BY DEF Idle
  <2>2. ScanOK
    BY DEF AuditOK
  <2>3. audit.log \in Seq(Entry)
    BY <2>1 DEF AuditOK
  <2>4. n \in DOMAIN blocks
    BY DEF Canonical
  <2> QED
    BY <2>2, <2>3, <2>4
<1>2. /\ Len(audit.log) \in Nat /\ DOMAIN audit.log = 1..Len(audit.log)
      /\ \A id \in DOMAIN audit.log : audit.log[id] \in Entry
  BY <1>1
<1>3. /\ DOMAIN log = 1..CountAt(n) /\ CountAt(n) \in Nat /\ LogOK(log)
      /\ \A id \in DOMAIN log : log[id] = [block |-> log[id].block, records |-> log[id].records]
  <2>1. \A id \in DOMAIN log : log[id] = [block |-> log[id].block, records |-> log[id].records]
    BY DEF LogAt
  <2> QED
    BY <1>1, <2>1, LogIs
<1>4. /\ audit.count = CountAt(n)
      /\ \A id \in DOMAIN audit.log :
            /\ id \in DOMAIN log /\ audit.log[id].block = log[id].block
            /\ audit.log[id].records \in {log[id].records, Unread}
            /\ audit.honest => audit.log[id].records = log[id].records
  BY <1>1 DEF ScanOK
<1>5. Len(audit.log) <= CountAt(n)
  <2>1. CASE Len(audit.log) = 0
    BY <1>3, <2>1
  <2>2. CASE Len(audit.log) # 0
    <3>1. Len(audit.log) \in DOMAIN audit.log
      BY <1>2, <2>2
    <3>2. Len(audit.log) \in 1..CountAt(n)
      BY <1>3, <1>4, <3>1
    <3> QED
      BY <1>3, <3>2
  <2> QED
    BY <2>1, <2>2
<1>6. LogOK(audit.log)
  <2>1. ASSUME NEW id \in DOMAIN audit.log
        PROVE  /\ \E m \in 0..BatchLimit : DOMAIN audit.log[id].records = 1..m
               /\ audit.log[id].block.number \in 1..MaxHeight
               /\ audit.log[id].block.fork \in 0..MaxReorgs
               /\ Canonical(audit.log[id].block)
    <3>1. id \in DOMAIN log /\ audit.log[id].block = log[id].block
      BY <1>4
    <3>2. /\ \E m \in 0..BatchLimit : DOMAIN log[id].records = 1..m
          /\ log[id].block.number \in 1..MaxHeight
          /\ log[id].block.fork \in 0..MaxReorgs
          /\ Canonical(log[id].block)
      BY <1>3, <3>1 DEF LogOK
    <3>3. DOMAIN Unread = 1..0 /\ 0 \in 0..BatchLimit
      BY ChainAssumption DEF Unread
    <3>4. \E m \in 0..BatchLimit : DOMAIN audit.log[id].records = 1..m
      <4>1. CASE audit.log[id].records = Unread
        BY <3>3, <4>1
      <4>2. CASE audit.log[id].records = log[id].records
        BY <3>2, <4>2
      <4> QED
        BY <1>4, <4>1, <4>2
    <3> QED
      BY <3>1, <3>2, <3>4
  <2> QED
    BY <1>2, <2>1 DEF LogOK
<1>7. ASSUME Len(audit.log) = audit.count,
             \A id \in DOMAIN audit.log : audit.log[id].records = log[id].records
      PROVE  audit.log = log
  <2>1. DOMAIN audit.log = DOMAIN log
    BY <1>2, <1>3, <1>4, <1>7
  <2>2. \A id \in DOMAIN audit.log :
           audit.log[id] = [block |-> audit.log[id].block, records |-> audit.log[id].records]
    BY <1>2 DEF Entry
  <2>3. \A id \in DOMAIN audit.log : audit.log[id] = log[id]
    BY <1>3, <1>4, <1>7, <2>1, <2>2
  <2>4. log = [id \in DOMAIN log |-> log[id]]
    BY DEF LogAt
  <2>5. audit.log = [id \in DOMAIN audit.log |-> audit.log[id]]
    BY <1>1
  <2> HIDE DEF log
  <2> QED
    BY <2>1, <2>3, <2>4, <2>5
<1> HIDE DEF n, log
<1>8. audit.honest /\ Len(audit.log) = audit.count => audit.log = log
  BY <1>4, <1>7
<1>9. /\ Len(audit.log) = audit.count
      /\ \A id \in DOMAIN audit.log : audit.log[id].records # Unread
      => audit.log = log
  BY <1>4, <1>7
<1> QED
  BY <1>1, <1>2, <1>5, <1>6, <1>8, <1>9 DEF n, log

(* Everything a step of an audit leaves alone. *)
LEMMA ChainSame ==
    ASSUME UNCHANGED <<chainVars, final>>
    PROVE  /\ ChainOK' = ChainOK
           /\ \A b : Canonical(b)' = Canonical(b)
           /\ \A b : Known(b)' = Known(b) /\ Settled(b)' = Settled(b)
           /\ \A n : CountAt(n)' = CountAt(n) /\ LogAt(n)' = LogAt(n)
<1>1. ChainOK' = ChainOK
  BY Zenon DEF ChainOK, chainVars
<1>2. \A b : Canonical(b)' = Canonical(b)
  BY Zenon DEF Canonical, chainVars
<1>3. \A b : Known(b)' = Known(b)
  BY <1>2, Zenon DEF Known, chainVars
<1>4. \A b : Settled(b)' = Settled(b)
  BY <1>2, Zenon DEF Settled, chainVars
<1>5. \A n : CountAt(n)' = CountAt(n)
  BY DEF CountAt, chainVars
<1>6. \A n : LogAt(n)' = LogAt(n)
  BY <1>5 DEF LogAt, Hash, chainVars
<1> QED
  BY <1>1, <1>2, <1>3, <1>4, <1>5, <1>6

LEMMA IdleIsFine ==
    ASSUME audit = Idle
    PROVE  AuditOK
BY DEF AuditOK, Idle

LEMMA OpenStep ==
    ASSUME ChainOK, NEW n \in DOMAIN blocks, NEW auto, OpenView(n, auto)
    PROVE  AuditOK'
<1>1. audit' = [pc |-> "label", view |-> Hash(n), auto |-> auto] /\ UNCHANGED <<chainVars, final>>
  BY DEF OpenView
<1>2. Known(Hash(n))
  BY HashKnown
<1>3. audit'.pc = "label" /\ audit'.view = Hash(n)
  BY <1>1
<1>4. Known(audit.view)'
  BY <1>1, <1>2, <1>3, ChainSame
<1> QED
  BY <1>3, <1>4 DEF AuditOK

LEMMA LabelStep ==
    ASSUME ChainOK, AuditOK, LabelView
    PROVE  AuditOK'
<1> DEFINE pc == IF audit.auto THEN "choose" ELSE "begin"
           f == final >= audit.view.number
<1>1. /\ audit' = [pc |-> pc, view |-> audit.view, finality |-> f]
      /\ audit.pc = "label" /\ UNCHANGED <<chainVars, final>>
  BY DEF LabelView
<1>2. pc \in {"choose", "begin"}
  OBVIOUS
<1>3. Known(audit.view) /\ audit.view.number \in Nat /\ final \in Nat
  <2>1. Known(audit.view)
    BY <1>1 DEF AuditOK, Idle
  <2> QED
    BY <2>1 DEF Known, ChainOK
<1>4. f => audit.view.number <= final
  BY <1>3
<1> HIDE DEF pc, f
<1>5. /\ audit'.pc = pc /\ audit'.view = audit.view /\ audit'.finality = f
      /\ audit' = [pc |-> audit'.pc, view |-> audit'.view, finality |-> audit'.finality]
  BY <1>1
<1>6. Known(audit.view)'
  BY <1>1, <1>3, <1>5, ChainSame
<1> QED
  BY <1>1, <1>2, <1>4, <1>5, <1>6 DEF AuditOK

LEMMA ChooseStep ==
    ASSUME ChainOK, AuditOK, ChooseView
    PROVE  AuditOK'
<1>1. /\ audit.pc = "choose" /\ Canonical(audit.view) /\ UNCHANGED <<chainVars, final>>
      /\ \/ audit' = [pc |-> "begin", view |-> Hash(final), finality |-> TRUE]
         \/ audit' = [audit EXCEPT !.pc = "begin"]
  BY DEF ChooseView
<1>2. /\ audit = [pc |-> "choose", view |-> audit.view, finality |-> audit.finality]
      /\ Known(audit.view) /\ (audit.finality => audit.view.number <= final)
  BY <1>1 DEF AuditOK, Idle
<1>3. CASE audit' = [pc |-> "begin", view |-> Hash(final), finality |-> TRUE]
  <2>1. final \in DOMAIN blocks /\ final \in Nat
    BY AnchorType DEF ChainOK
  <2>2. Known(Hash(final)) /\ Hash(final).number = final
    BY <2>1, HashKnown
  <2>3. audit'.pc = "begin" /\ audit'.view = Hash(final)
    BY <1>3
  <2>4. Known(audit.view)' /\ audit'.view.number <= final'
    <3>1. final' = final
      BY <1>1
    <3> QED
      BY <1>1, <2>1, <2>2, <2>3, <3>1, ChainSame
  <2> QED
    BY <2>3, <2>4 DEF AuditOK
<1>4. CASE audit' = [audit EXCEPT !.pc = "begin"]
  <2>1. audit'.pc = "begin" /\ audit'.view = audit.view /\ audit'.finality = audit.finality
    BY <1>2, <1>4
  <2>2. Known(audit.view)' /\ (audit'.finality => audit'.view.number <= final')
    BY <1>1, <1>2, <2>1, ChainSame
  <2> QED
    BY <2>1, <2>2 DEF AuditOK
<1> QED
  BY <1>1, <1>3, <1>4

LEMMA BeginStep ==
    ASSUME ChainOK, AuditOK, BeginAudit
    PROVE  AuditOK'
<1>1. /\ audit.pc = "begin" /\ Canonical(audit.view) /\ UNCHANGED <<chainVars, final>>
      /\ audit' = [pc |-> "scan", view |-> audit.view, finality |-> audit.finality,
                   count |-> CountAt(audit.view.number), log |-> <<>>, checked |-> {},
                   honest |-> TRUE]
  BY DEF BeginAudit
<1>2. Known(audit.view) /\ (audit.finality => audit.view.number <= final)
  BY <1>1 DEF AuditOK, Idle
<1>3. /\ audit'.pc = "scan" /\ audit'.view = audit.view /\ audit'.finality = audit.finality
      /\ audit'.count = CountAt(audit.view.number) /\ audit'.log = <<>> /\ audit'.checked = {}
      /\ audit' = [pc |-> "scan", view |-> audit'.view, finality |-> audit'.finality,
                   count |-> audit'.count, log |-> audit'.log, checked |-> audit'.checked,
                   honest |-> audit'.honest]
  BY <1>1
<1>4. Known(audit.view)' /\ (audit'.finality => Settled(audit.view)')
  <2>1. audit.finality => Settled(audit.view)
    BY <1>1, <1>2 DEF Settled
  <2> QED
    BY <1>1, <1>2, <1>3, <2>1, ChainSame
<1>5. ScanOK'
  <2>1. audit'.count = CountAt(audit.view.number)'
    BY <1>1, <1>3, ChainSame
  <2>2. DOMAIN audit'.log = {}
    BY <1>3
  <2> QED
    BY <1>3, <2>1, <2>2 DEF ScanOK
<1>6. audit'.log \in Seq(Entry)
  BY <1>3
<1> QED
  BY <1>3, <1>4, <1>5, <1>6 DEF AuditOK

LEMMA ReadStep ==
    ASSUME ChainOK, AuditOK, ReadBatch
    PROVE  /\ AuditOK'
           /\ audit'.pc = "scan" /\ audit'.finality = audit.finality
           /\ audit'.count = audit.count /\ Len(audit'.log) = Len(audit.log) + 1
           /\ audit'.checked = audit.checked /\ audit'.checked = {}
           /\ audit'.honest \in BOOLEAN
<1> DEFINE n == audit.view.number
           log == LogAt(n)
           id == Len(audit.log) + 1
<1>1. /\ audit.pc = "scan" /\ Canonical(audit.view) /\ id <= audit.count
      /\ UNCHANGED <<chainVars, final>>
  BY DEF ReadBatch
<1>2. PICK answer \in {anchored[id].records, Unread} \cup Altered :
         audit' = [audit EXCEPT
                      !.log = Append(@, [block   |-> Hash(anchored[id].block),
                                         records |-> IF RootMatches(answer, id)
                                                     THEN answer ELSE Unread]),
                      !.honest = @ /\ answer = anchored[id].records]
  BY Zenon DEF ReadBatch
<1> DEFINE entry == [block   |-> Hash(anchored[id].block),
                     records |-> IF RootMatches(answer, id) THEN answer ELSE Unread]
           same == answer = anchored[id].records
<1>3. /\ audit = [pc |-> "scan", view |-> audit.view, finality |-> audit.finality,
                  count |-> audit.count, log |-> audit.log, checked |-> audit.checked,
                  honest |-> audit.honest]
      /\ audit.log \in Seq(Entry) /\ Known(audit.view) /\ ScanOK
      /\ audit.finality => Settled(audit.view)
  BY <1>1 DEF AuditOK, Idle
<1>4. audit' = [pc |-> "scan", view |-> audit.view, finality |-> audit.finality,
                count |-> audit.count, log |-> Append(audit.log, entry),
                checked |-> audit.checked, honest |-> audit.honest /\ same]
  <2> DEFINE l == Append(audit.log, entry)
             h == audit.honest /\ same
  <2>1. audit' = [audit EXCEPT !.log = l, !.honest = h]
    BY <1>2
  <2>2. [audit EXCEPT !.log = l, !.honest = h] = [[audit EXCEPT !.log = l] EXCEPT !.honest = h]
    OBVIOUS
  <2> HIDE DEF l, h
  <2>3. [audit EXCEPT !.log = l] =
           [pc |-> "scan", view |-> audit.view, finality |-> audit.finality,
            count |-> audit.count, log |-> l, checked |-> audit.checked, honest |-> audit.honest]
    BY <1>3
  <2>4. [[audit EXCEPT !.log = l] EXCEPT !.honest = h] =
           [pc |-> "scan", view |-> audit.view, finality |-> audit.finality,
            count |-> audit.count, log |-> l, checked |-> audit.checked, honest |-> h]
    <3> DEFINE r == [audit EXCEPT !.log = l]
               g == audit.honest
    <3>1. [r EXCEPT !.honest = h] =
             [[pc |-> "scan", view |-> audit.view, finality |-> audit.finality,
               count |-> audit.count, log |-> l, checked |-> audit.checked, honest |-> g]
              EXCEPT !.honest = h]
      BY <2>3, Zenon
    <3> HIDE DEF g
    <3>2. [[pc |-> "scan", view |-> audit.view, finality |-> audit.finality,
            count |-> audit.count, log |-> l, checked |-> audit.checked, honest |-> g]
           EXCEPT !.honest = h] =
             [pc |-> "scan", view |-> audit.view, finality |-> audit.finality,
              count |-> audit.count, log |-> l, checked |-> audit.checked, honest |-> h]
      OBVIOUS
    <3> QED
      BY <3>1, <3>2, Zenon
  <2>5. audit' = [pc |-> "scan", view |-> audit.view, finality |-> audit.finality,
                  count |-> audit.count, log |-> l, checked |-> audit.checked, honest |-> h]
    BY <2>1, <2>2, <2>4
  <2> QED
    BY <2>5 DEF l, h
<1>5. /\ n \in DOMAIN blocks /\ Len(audit.log) \in Nat /\ DOMAIN audit.log = 1..Len(audit.log)
      /\ Len(audit.log) <= CountAt(n)
  BY <1>1, ScanIsLog
<1>6. /\ audit.count = CountAt(n) /\ audit.checked = {}
      /\ \A i \in DOMAIN audit.log :
            /\ i \in DOMAIN log /\ audit.log[i].block = log[i].block
            /\ audit.log[i].records \in {log[i].records, Unread}
            /\ audit.honest => audit.log[i].records = log[i].records
  <2>1. audit.checked # {} => Len(audit.log) = audit.count
    BY <1>3 DEF ScanOK
  <2>2. audit.count = CountAt(n)
    BY <1>3 DEF ScanOK
  <2>3. CountAt(n) \in Nat
    BY <1>5, LogIs
  <2>4. audit.checked = {}
    BY <1>1, <1>5, <2>1, <2>2, <2>3
  <2> QED
    BY <1>3, <2>2, <2>4 DEF ScanOK
<1>7. /\ id \in DOMAIN log /\ id \in DOMAIN anchored
      /\ log[id].records = anchored[id].records
      /\ log[id].block = Hash(anchored[id].block)
      /\ log[id].block.number \in 1..MaxHeight /\ log[id].block.fork \in 0..MaxReorgs
      /\ anchored[id].records \in Batches
  <2>1. DOMAIN log = 1..CountAt(n) /\ CountAt(n) \in Nat /\ LogOK(log)
    BY <1>5, LogIs
  <2>2. id \in DOMAIN log
    BY <1>1, <1>5, <1>6, <2>1
  <2>3. /\ id \in DOMAIN anchored /\ log[id].records = anchored[id].records
        /\ log[id].block = Hash(anchored[id].block)
    BY <1>5, <2>2, LogIs
  <2>4. log[id].block.number \in 1..MaxHeight /\ log[id].block.fork \in 0..MaxReorgs
    BY <2>1, <2>2 DEF LogOK
  <2>5. anchored[id].records \in Batches
    <3>1. anchored \in Seq(Anchor)
      BY DEF ChainOK
    <3>2. anchored[id] \in Anchor
      BY <2>3, <3>1
    <3> QED
      BY <3>2 DEF Anchor
  <2> QED
    BY <2>2, <2>3, <2>4, <2>5
<1>8. /\ entry.block = log[id].block
      /\ entry.records \in {log[id].records, Unread}
      /\ same => entry.records = log[id].records
      /\ entry \in Entry
  <2>1. /\ entry.block = log[id].block
        /\ entry.records \in {log[id].records, Unread}
        /\ same => entry.records = log[id].records
    BY <1>7 DEF RootMatches
  <2>2. entry.block \in [number : 1..MaxHeight, fork : 0..MaxReorgs]
    BY <1>7 DEF Hash
  <2>3. entry.records \in Batches \cup {Unread}
    BY <1>7, <2>1
  <2> QED
    BY <2>1, <2>2, <2>3 DEF Entry
<1> HIDE DEF entry, same
<1>9. /\ Append(audit.log, entry) \in Seq(Entry)
      /\ Len(Append(audit.log, entry)) = id /\ DOMAIN Append(audit.log, entry) = 1..id
      /\ \A i \in DOMAIN audit.log : Append(audit.log, entry)[i] = audit.log[i]
      /\ Append(audit.log, entry)[id] = entry
  BY <1>3, <1>5, <1>8
<1>10. /\ audit'.pc = "scan" /\ audit'.view = audit.view /\ audit'.finality = audit.finality
       /\ audit'.count = audit.count /\ audit'.log = Append(audit.log, entry)
       /\ audit'.checked = audit.checked /\ audit'.honest = (audit.honest /\ same)
       /\ audit' = [pc |-> "scan", view |-> audit'.view, finality |-> audit'.finality,
                    count |-> audit'.count, log |-> audit'.log, checked |-> audit'.checked,
                    honest |-> audit'.honest]
  BY <1>4
<1>11. ScanOK'
  <2>1. LogAt(audit.view.number)' = log /\ audit'.count = CountAt(audit.view.number)'
    BY <1>1, <1>6, <1>10, ChainSame
  <2>2. ASSUME NEW i \in DOMAIN audit'.log
        PROVE  /\ i \in DOMAIN log /\ audit'.log[i].block = log[i].block
               /\ audit'.log[i].records \in {log[i].records, Unread}
               /\ audit'.honest => audit'.log[i].records = log[i].records
    <3>1. CASE i = id
      BY <1>7, <1>8, <1>9, <1>10, <3>1
    <3>2. CASE i # id
      <4>1. i \in DOMAIN audit.log /\ audit'.log[i] = audit.log[i]
        BY <1>5, <1>9, <1>10, <3>2
      <4>2. audit'.honest => audit.honest
        BY <1>10
      <4> QED
        BY <1>6, <4>1, <4>2
    <3> QED
      BY <3>1, <3>2
  <2> HIDE DEF log
  <2> QED
    BY <1>6, <1>10, <2>1, <2>2 DEF ScanOK
<1>12. Known(audit.view)' /\ (audit'.finality => Settled(audit.view)')
  BY <1>1, <1>3, <1>10, ChainSame
<1>13. AuditOK'
  BY <1>9, <1>10, <1>11, <1>12 DEF AuditOK
<1>14. (audit.honest /\ same) \in BOOLEAN
  OBVIOUS
<1> QED
  BY <1>6, <1>9, <1>10, <1>13, <1>14

LEMMA CheckStep ==
    ASSUME ChainOK, AuditOK, CheckDecision
    PROVE  /\ AuditOK'
           /\ audit'.pc = "scan" /\ audit'.finality = audit.finality
           /\ audit'.count = audit.count /\ audit'.log = audit.log
           /\ \A c \in audit'.checked :
                 c \in audit.checked \/ c.at \in Leaves(audit.log, "DECISION")
           /\ audit'.honest \in BOOLEAN
<1>1. /\ audit.pc = "scan" /\ Len(audit.log) = audit.count /\ UNCHANGED <<chainVars, final>>
  BY DEF CheckDecision, Scanned
<1>2. PICK p \in Accepted(audit.log), reached \in BOOLEAN :
      \E q \in DecisionsOn(audit.log, p) \ Checked, answer \in States \cup {Lost} :
         LET d == RecordAt(audit.log, q)
             blob == IF d.state = NoState THEN NoState ELSE answer
         IN  audit' = [audit EXCEPT
                         !.checked = @ \cup
                            {[at   |-> q,
                              code |-> FirstFailure(Codes(audit.log, p, q, blob, reached))]},
                         !.honest = @ /\ (d.signed => blob = d.state)]
  BY Zenon DEF CheckDecision, Codes
<1>3. PICK q \in DecisionsOn(audit.log, p), answer \in States \cup {Lost} :
         LET d == RecordAt(audit.log, q)
             blob == IF d.state = NoState THEN NoState ELSE answer
         IN  audit' = [audit EXCEPT
                         !.checked = @ \cup
                            {[at   |-> q,
                              code |-> FirstFailure(Codes(audit.log, p, q, blob, reached))]},
                         !.honest = @ /\ (d.signed => blob = d.state)]
  BY Zenon, <1>2
<1> DEFINE d == RecordAt(audit.log, q)
           blob == IF d.state = NoState THEN NoState ELSE answer
           code == FirstFailure(Codes(audit.log, p, q, blob, reached))
           all == audit.checked \cup {[at |-> q, code |-> code]}
           h == audit.honest /\ (d.signed => blob = d.state)
<1>4. /\ audit = [pc |-> "scan", view |-> audit.view, finality |-> audit.finality,
                  count |-> audit.count, log |-> audit.log, checked |-> audit.checked,
                  honest |-> audit.honest]
      /\ audit.log \in Seq(Entry) /\ Known(audit.view)
      /\ audit.finality => Settled(audit.view)
      /\ Canonical(audit.view) => ScanOK
  BY <1>1 DEF AuditOK, Idle
<1>5. audit' = [pc |-> "scan", view |-> audit.view, finality |-> audit.finality,
                count |-> audit.count, log |-> audit.log, checked |-> all, honest |-> h]
  <2> DEFINE r == [audit EXCEPT !.checked = all]
             g == audit.honest
  <2>1. audit' = [audit EXCEPT !.checked = all, !.honest = h]
    BY <1>3
  <2>2. [audit EXCEPT !.checked = all, !.honest = h] = [r EXCEPT !.honest = h]
    OBVIOUS
  <2> HIDE DEF all, h
  <2>3. r = [pc |-> "scan", view |-> audit.view, finality |-> audit.finality,
             count |-> audit.count, log |-> audit.log, checked |-> all, honest |-> g]
    BY <1>4
  <2>4. [r EXCEPT !.honest = h] =
           [[pc |-> "scan", view |-> audit.view, finality |-> audit.finality,
             count |-> audit.count, log |-> audit.log, checked |-> all, honest |-> g]
            EXCEPT !.honest = h]
    BY <2>3, Zenon
  <2> HIDE DEF g
  <2>5. [[pc |-> "scan", view |-> audit.view, finality |-> audit.finality,
          count |-> audit.count, log |-> audit.log, checked |-> all, honest |-> g]
         EXCEPT !.honest = h]
         = [pc |-> "scan", view |-> audit.view, finality |-> audit.finality,
            count |-> audit.count, log |-> audit.log, checked |-> all, honest |-> h]
    OBVIOUS
  <2> QED
    BY <2>1, <2>2, <2>4, <2>5, Zenon
<1>6. ASSUME Canonical(audit.view)
      PROVE  /\ code = "VALID" => Answers(audit.log, p, q)
             /\ h /\ Answers(audit.log, p, q) => code \in Pardoned
  <2>1. LogOK(audit.log)
    BY <1>1, <1>6, ScanIsLog
  <2>2. p[1] \in DOMAIN audit.log /\ q[1] \in DOMAIN audit.log
    <3>1. p \in Leaves(audit.log, "REQUEST") /\ q \in Leaves(audit.log, "DECISION")
      BY DEF Accepted, DecisionsOn
    <3> QED
      BY <2>1, <3>1, LeafIs
  <2>3. h /\ Answers(audit.log, p, q) => blob = d.state
    <3>1. Answers(audit.log, p, q) => d.signed
      BY DEF Answers
    <3> QED
      BY <3>1
  <2> HIDE DEF h, blob
  <2>4. /\ code = "VALID" => Answers(audit.log, p, q)
        /\ Answers(audit.log, p, q) /\ blob = d.state => code \in Pardoned
    BY <2>1, <2>2, CodeIs
  <2> QED
    BY <2>3, <2>4
<1>7. h => audit.honest
  OBVIOUS
<1>8. all = audit.checked \cup {[at |-> q, code |-> code]}
  OBVIOUS
<1>16. h \in BOOLEAN
  OBVIOUS
<1> HIDE DEF all, h, code, blob
<1>9. /\ audit'.pc = "scan" /\ audit'.view = audit.view /\ audit'.finality = audit.finality
      /\ audit'.count = audit.count /\ audit'.log = audit.log
      /\ audit'.checked = all /\ audit'.honest = h
      /\ audit' = [pc |-> "scan", view |-> audit'.view, finality |-> audit'.finality,
                   count |-> audit'.count, log |-> audit'.log, checked |-> audit'.checked,
                   honest |-> audit'.honest]
  BY <1>5
<1>10. ASSUME Canonical(audit.view) PROVE ScanOK'
  <2>1. ScanOK
    BY <1>4, <1>10
  <2>2. /\ LogAt(audit.view.number)' = LogAt(audit.view.number)
        /\ CountAt(audit.view.number)' = CountAt(audit.view.number)
    BY <1>1, <1>9, ChainSame
  <2>3. ASSUME NEW c \in all PROVE CheckOK(c)'
    <3>1. CASE c \in audit.checked
      <4>1. PICK o \in Accepted(audit.log) :
               /\ c.at \in DecisionsOn(audit.log, o)
               /\ c.code = "VALID" => Answers(audit.log, o, c.at)
               /\ audit.honest /\ Answers(audit.log, o, c.at) => c.code \in Pardoned
        BY <2>1, <3>1 DEF ScanOK, CheckOK
      <4>2. h /\ Answers(audit.log, o, c.at) => c.code \in Pardoned
        BY <1>7, <4>1
      <4> QED
        BY <1>9, <4>1, <4>2 DEF CheckOK
    <3>2. CASE c = [at |-> q, code |-> code]
      <4>1. c.at = q /\ c.code = code
        BY <3>2
      <4> QED
        BY <1>6, <1>9, <1>10, <4>1 DEF CheckOK
    <3> QED
      BY <1>8, <3>1, <3>2
  <2>4. ASSUME NEW id \in DOMAIN audit.log
        PROVE  LET log == LogAt(audit.view.number) IN
               /\ id \in DOMAIN log
               /\ audit.log[id].block = log[id].block
               /\ audit.log[id].records \in {log[id].records, Unread}
               /\ h => audit.log[id].records = log[id].records
    BY <1>7, <2>1 DEF ScanOK
  <2>5. audit.count = CountAt(audit.view.number)
    BY <2>1 DEF ScanOK
  <2> QED
    BY <1>1, <1>9, <2>2, <2>3, <2>4, <2>5 DEF ScanOK
<1>11. Known(audit.view)' /\ (audit'.finality => Settled(audit.view)')
  BY <1>1, <1>4, <1>9, ChainSame
<1>12. Canonical(audit.view)' => ScanOK'
  BY <1>1, <1>9, <1>10, ChainSame
<1>13. audit'.log \in Seq(Entry)
  BY <1>4, <1>9
<1>14. AuditOK'
  BY <1>9, <1>11, <1>12, <1>13 DEF AuditOK
<1>15. q \in Leaves(audit.log, "DECISION")
  BY DEF DecisionsOn
<1> QED
  BY <1>8, <1>9, <1>14, <1>15, <1>16

(* The chain may go on under an audit. *)
LEMMA UnderAudit ==
    ASSUME ChainOK, AuditOK, [Next]_auditVars, UNCHANGED audit, final <= final', ChainOK'
    PROVE  AuditOK'
<1>1. audit # Idle => Known(audit.view) /\ Stays(audit.view)
  BY ChainMoves DEF AuditOK
<1>2. audit # Idle => Known(audit.view)' /\ (Settled(audit.view) => Settled(audit.view)')
  BY <1>1 DEF Stays
<1>3. audit.pc \in {"choose", "begin"} /\ audit.finality => audit.view.number <= final'
  <2>1. audit.pc \in {"choose", "begin"} => audit # Idle
    BY DEF Idle
  <2>2. audit # Idle => audit.view.number \in Nat
    BY <1>1 DEF Known
  <2>3. final \in Nat /\ final' \in Nat
    BY DEF ChainOK
  <2> QED
    BY <2>1, <2>2, <2>3 DEF AuditOK
<1>4. ASSUME audit.pc = "scan", Canonical(audit.view)' PROVE ScanOK'
  <2>1. audit # Idle
    BY <1>4 DEF Idle
  <2>2. /\ Canonical(audit.view)
        /\ CountAt(audit.view.number)' = CountAt(audit.view.number)
        /\ LogAt(audit.view.number)' = LogAt(audit.view.number)
    BY <1>1, <1>4, <2>1 DEF Stays
  <2>3. ScanOK
    BY <1>4, <2>2 DEF AuditOK
  <2>4. ASSUME NEW c \in audit.checked PROVE CheckOK(c)'
    <3>1. CheckOK(c)
      BY <2>3 DEF ScanOK
    <3> QED
      BY <3>1 DEF CheckOK
  <2> QED
    BY <2>2, <2>3, <2>4 DEF ScanOK
<1>5. audit.pc = "scan" => audit # Idle
  BY DEF Idle
<1> QED
  BY <1>2, <1>3, <1>4, <1>5 DEF AuditOK

-----------------------------------------------------------------------------
(* Reports *)

(* All checks are done. *)
AllChecked ==
    /\ Scanned
    /\ \A p \in Accepted(audit.log) : DecisionsOn(audit.log, p) \subseteq Checked

LEMMA CheckedRight ==
    ASSUME ChainOK, AuditOK, AllChecked, Canonical(audit.view),
           NEW p \in Accepted(audit.log), NEW q \in DecisionsOn(audit.log, p)
    PROVE  \E c \in audit.checked :
              /\ c.at = q
              /\ c.code = "VALID" => Answers(audit.log, p, q)
              /\ audit.honest /\ Answers(audit.log, p, q) => c.code \in Pardoned
<1>1. audit.pc = "scan" /\ ScanOK /\ LogOK(audit.log)
  BY ScanIsLog DEF AllChecked, Scanned, AuditOK
<1>2. PICK c \in audit.checked : c.at = q
  BY DEF AllChecked, Checked
<1>3. PICK o \in Accepted(audit.log) :
         /\ q \in DecisionsOn(audit.log, o)
         /\ c.code = "VALID" => Answers(audit.log, o, q)
         /\ audit.honest /\ Answers(audit.log, o, q) => c.code \in Pardoned
  BY <1>1, <1>2 DEF ScanOK, CheckOK
<1>4. RecordAt(audit.log, o).req = RecordAt(audit.log, p).req
  BY <1>3 DEF DecisionsOn
<1>5. o = p
  BY <1>1, <1>4, AcceptedOnce
<1> QED
  BY <1>2, <1>3, <1>5

(* Every entry is about a decision on an accepted request. *)
LEMMA CheckedReal ==
    ASSUME ChainOK, AuditOK, AllChecked, Canonical(audit.view), NEW c \in audit.checked
    PROVE  \E p \in Accepted(audit.log) :
              /\ c.at \in DecisionsOn(audit.log, p)
              /\ audit.honest /\ Answers(audit.log, p, c.at) => c.code \in Pardoned
<1>1. ScanOK
  BY DEF AllChecked, Scanned, AuditOK
<1> QED
  BY <1>1 DEF ScanOK, CheckOK

(* An empty list of issues. *)
LEMMA IssueFree ==
    ASSUME Issues = {}
    PROVE  /\ Leaves(audit.log, "REQUEST") \subseteq Accepted(audit.log)
           /\ \A p \in Accepted(audit.log) : ~(Cardinality(DecisionsOn(audit.log, p)) > 1)
           /\ \A q \in Leaves(audit.log, "DECISION") :
                 \E p \in Accepted(audit.log) : q \in DecisionsOn(audit.log, p)
           /\ \A c \in audit.checked : c.code = "VALID"
<1>1. Leaves(audit.log, "REQUEST") \subseteq Accepted(audit.log)
  BY Zenon DEF Issues
<1>2. \A p \in Accepted(audit.log) : ~(Cardinality(DecisionsOn(audit.log, p)) > 1)
  BY Zenon DEF Issues
<1>3. \A q \in Leaves(audit.log, "DECISION") :
         \E p \in Accepted(audit.log) : q \in DecisionsOn(audit.log, p)
  BY Zenon DEF Issues
<1>4. \A c \in audit.checked : c.code = "VALID"
  BY Zenon DEF Issues
<1> QED
  BY <1>1, <1>2, <1>3, <1>4

LEMMA OkIsClean ==
    ASSUME ChainOK, AuditOK, AllChecked, Canonical(audit.view),
           Complete, Issues = {}, ~Late
    PROVE  Clean(audit.view.number)
<1> DEFINE n == audit.view.number
           log == LogAt(n)
           asked == Leaves(log, "REQUEST")
           decided == Leaves(log, "DECISION")
<1>1. audit.pc = "scan" /\ Len(audit.log) = audit.count
  BY DEF AllChecked, Scanned
<1>2. audit.log = log /\ LogOK(log)
  BY <1>1, ScanIsLog DEF Complete, Unreadable
<1> HIDE DEF n, log
<1>3. Leaves(log, "INVALID") = {} /\ asked = Accepted(log)
  BY <1>2, IssueFree DEF Complete, Accepted
<1>4. \A p, o \in asked : RecordAt(log, p).req = RecordAt(log, o).req => p = o
  BY <1>2, <1>3, AcceptedOnce
<1>5. \A p \in asked : \A q, o \in DecisionsOn(log, p) : q = o
  BY <1>2, <1>3, DecisionsAre, IssueFree
<1>6. \A q \in decided : \E p \in asked : q \in DecisionsOn(log, p)
  BY <1>2, <1>3, IssueFree
<1>7. \A q, o \in decided : RecordAt(log, q).req = RecordAt(log, o).req => q = o
  <2> SUFFICES ASSUME NEW q \in decided, NEW o \in decided,
                      RecordAt(log, q).req = RecordAt(log, o).req
               PROVE  q = o
    OBVIOUS
  <2>1. PICK p \in asked : q \in DecisionsOn(log, p)
    BY <1>6
  <2>2. o \in DecisionsOn(log, p)
    BY <2>1 DEF DecisionsOn
  <2> QED
    BY <1>5, <2>1, <2>2
<1>8. \A p \in asked : \A q \in DecisionsOn(log, p) : Answers(log, p, q)
  <2> SUFFICES ASSUME NEW p \in asked, NEW q \in DecisionsOn(log, p)
               PROVE  Answers(log, p, q)
    OBVIOUS
  <2>1. PICK c \in audit.checked : c.at = q /\ (c.code = "VALID" => Answers(log, p, q))
    BY <1>2, <1>3, CheckedRight
  <2> QED
    BY <2>1, IssueFree
<1>9. \A p \in asked :
         IF DecisionsOn(log, p) = {} THEN InTime(log, p, Time[n])
         ELSE \A q \in DecisionsOn(log, p) : InTime(log, p, AnchoredAt(log, q))
  <2> SUFFICES ASSUME NEW p \in asked
               PROVE  IF DecisionsOn(log, p) = {} THEN InTime(log, p, Time[n])
                      ELSE \A q \in DecisionsOn(log, p) : InTime(log, p, AnchoredAt(log, q))
    OBVIOUS
  <2>1. Timing(log, p, DecisionsOn(log, p), Time[n]) \notin {"MISSING_AS_OF_H", "REGISTERED_LATE"}
    BY <1>2, <1>3 DEF Late, n
  <2>2. \A q, o \in DecisionsOn(log, p) : q = o
    BY <1>5
  <2> QED
    BY <2>1, <2>2, TimingIs
<1>10. \A q \in decided : \E p \in asked :
          Answers(log, p, q) /\ InTime(log, p, AnchoredAt(log, q))
  BY <1>6, <1>8, <1>9
<1>11. \A p \in asked :
          InTime(log, p, Time[n]) \/ \E q \in decided : Answers(log, p, q)
  <2> SUFFICES ASSUME NEW p \in asked
               PROVE  InTime(log, p, Time[n]) \/ \E q \in decided : Answers(log, p, q)
    OBVIOUS
  <2>1. CASE DecisionsOn(log, p) = {}
    BY <1>9, <2>1
  <2>2. CASE DecisionsOn(log, p) # {}
    <3>1. PICK q \in DecisionsOn(log, p) : TRUE
      BY <2>2
    <3>2. q \in decided
      BY <3>1 DEF DecisionsOn
    <3> QED
      BY <1>8, <3>1, <3>2
  <2> QED
    BY <2>1, <2>2
<1> QED
  BY <1>3, <1>4, <1>7, <1>10, <1>11 DEF Clean, n, log

(* In a clean log the decisions on a request are its answers. *)
LEMMA CleanLog ==
    ASSUME ChainOK, NEW n \in DOMAIN blocks, Clean(n)
    PROVE  LET log == LogAt(n) IN
           /\ Leaves(log, "REQUEST") = Accepted(log)
           /\ \A p \in Accepted(log) : \A q \in DecisionsOn(log, p) :
                 Answers(log, p, q) /\ InTime(log, p, AnchoredAt(log, q))
           /\ \A q \in Leaves(log, "DECISION") : \E p \in Accepted(log) : q \in DecisionsOn(log, p)
           /\ \A p \in Accepted(log) : \A q, o \in DecisionsOn(log, p) : q = o
           /\ \A p \in Accepted(log) : DecisionsOn(log, p) = {} => InTime(log, p, Time[n])
<1> DEFINE log == LogAt(n)
           asked == Leaves(log, "REQUEST")
           decided == Leaves(log, "DECISION")
<1>1. LogOK(log)
  BY LogIs
<1>2. /\ \A p, o \in asked : RecordAt(log, p).req = RecordAt(log, o).req => p = o
      /\ \A q, o \in decided : RecordAt(log, q).req = RecordAt(log, o).req => q = o
      /\ \A q \in decided : \E p \in asked :
            Answers(log, p, q) /\ InTime(log, p, AnchoredAt(log, q))
      /\ \A p \in asked : InTime(log, p, Time[n]) \/ \E q \in decided : Answers(log, p, q)
  BY DEF Clean
<1> HIDE DEF log
<1>3. asked = Accepted(log)
  <2>1. \A p \in asked : ~Before(p, p)
    BY <1>1, NotBeforeItself
  <2>2. \A p \in asked : \A o \in asked : Before(o, p) => RecordAt(log, o).req # RecordAt(log, p).req
    BY <1>2, <2>1
  <2> QED
    BY <2>2 DEF Accepted
<1>4. ASSUME NEW p \in Accepted(log), NEW q \in DecisionsOn(log, p)
      PROVE  Answers(log, p, q) /\ InTime(log, p, AnchoredAt(log, q))
  <2>1. q \in decided /\ RecordAt(log, q).req = RecordAt(log, p).req
    BY DEF DecisionsOn
  <2>2. PICK o \in asked : Answers(log, o, q) /\ InTime(log, o, AnchoredAt(log, q))
    BY <1>2, <2>1
  <2>3. RecordAt(log, o).req = RecordAt(log, p).req
    BY <2>1, <2>2 DEF Answers
  <2>4. o = p
    BY <1>2, <1>3, <2>3
  <2> QED
    BY <2>2, <2>4
<1>5. ASSUME NEW q \in decided PROVE \E p \in Accepted(log) : q \in DecisionsOn(log, p)
  <2>1. PICK p \in asked : Answers(log, p, q)
    BY <1>2
  <2>2. RecordAt(log, q).req = RecordAt(log, p).req
    BY <2>1 DEF Answers
  <2> QED
    BY <1>3, <2>1, <2>2 DEF DecisionsOn
<1>6. ASSUME NEW p \in Accepted(log), NEW q \in DecisionsOn(log, p), NEW o \in DecisionsOn(log, p)
      PROVE  q = o
  <2>1. q \in decided /\ o \in decided /\ RecordAt(log, q).req = RecordAt(log, o).req
    BY DEF DecisionsOn
  <2> QED
    BY <1>2, <2>1
<1>7. ASSUME NEW p \in Accepted(log), DecisionsOn(log, p) = {} PROVE InTime(log, p, Time[n])
  <2>1. ASSUME NEW q \in decided, Answers(log, p, q) PROVE FALSE
    <3>1. q \in DecisionsOn(log, p)
      BY <2>1 DEF Answers, DecisionsOn
    <3> QED
      BY <1>7, <3>1
  <2> QED
    BY <1>2, <1>3, <2>1
<1> QED
  BY <1>3, <1>4, <1>5, <1>6, <1>7 DEF log

LEMMA CleanIsFine ==
    ASSUME ChainOK, AuditOK, AllChecked, Canonical(audit.view), audit.honest,
           Clean(audit.view.number)
    PROVE  /\ ~Late /\ Issues \subseteq {"RPC_UNAVAILABLE"}
           /\ Complete <=> Issues = {}
<1> DEFINE n == audit.view.number
           log == LogAt(n)
           failed == {c.code : c \in {v \in audit.checked : v.code # "VALID"}}
<1>1. /\ audit.pc = "scan" /\ Len(audit.log) = audit.count
      /\ n \in DOMAIN blocks /\ audit.log = log /\ LogOK(log)
  BY ScanIsLog DEF AllChecked, Scanned
<1>2. /\ Leaves(log, "REQUEST") = Accepted(log)
      /\ \A p \in Accepted(log) : \A q \in DecisionsOn(log, p) :
            Answers(log, p, q) /\ InTime(log, p, AnchoredAt(log, q))
      /\ \A q \in Leaves(log, "DECISION") : \E p \in Accepted(log) : q \in DecisionsOn(log, p)
      /\ \A p \in Accepted(log) : \A q, o \in DecisionsOn(log, p) : q = o
      /\ \A p \in Accepted(log) : DecisionsOn(log, p) = {} => InTime(log, p, Time[n])
  BY <1>1, CleanLog
<1>3. Leaves(log, "INVALID") = {} /\ Unreadable = {}
  BY <1>1, LogIs DEF Clean, Unreadable
<1> HIDE DEF n, log
<1>4. \A c \in audit.checked : c.code \in Pardoned
  BY <1>1, <1>2, CheckedReal
<1>5. Issues = failed
  <2>1. {p \in Accepted(log) : Cardinality(DecisionsOn(log, p)) > 1} = {}
    BY <1>1, <1>2, DecisionsAre
  <2>2. {q \in Leaves(log, "DECISION") :
            \A p \in Accepted(log) : q \notin DecisionsOn(log, p)} = {}
    BY <1>2
  <2>3. Leaves(log, "REQUEST") \ Accepted(log) = {}
    BY <1>2
  <2> QED
    BY <1>1, <1>3, <2>1, <2>2, <2>3 DEF Issues
<1>6. failed \subseteq {"RPC_UNAVAILABLE"}
  BY <1>4 DEF Pardoned
<1>7. failed = {} <=> \A c \in audit.checked : c.code = "VALID"
  OBVIOUS
<1>8. Complete <=> \A c \in audit.checked : c.code \notin OperationalErrors
  BY <1>1, <1>3 DEF Complete
<1>9. \A c \in audit.checked : c.code \notin OperationalErrors <=> c.code = "VALID"
  BY <1>4 DEF Pardoned, OperationalErrors
<1>10. ~Late
  <2> SUFFICES ASSUME NEW p \in Accepted(log)
               PROVE  Timing(log, p, DecisionsOn(log, p), Time[n])
                         \notin {"MISSING_AS_OF_H", "REGISTERED_LATE"}
    BY <1>1 DEF Late, n
  <2>1. \A q, o \in DecisionsOn(log, p) : q = o
    BY <1>2
  <2>2. IF DecisionsOn(log, p) = {} THEN InTime(log, p, Time[n])
        ELSE \A q \in DecisionsOn(log, p) : InTime(log, p, AnchoredAt(log, q))
    BY <1>2
  <2> QED
    BY <2>1, <2>2, TimingIs
<1> HIDE DEF failed
<1> QED
  BY <1>5, <1>6, <1>7, <1>8, <1>9, <1>10

LEMMA ReportStep ==
    ASSUME ChainOK, AuditOK, ReportsOK, Report
    PROVE  ReportsOK'
<1> DEFINE full == Complete
           found == Issues
           slow == Late
           ok == full /\ found = {} /\ ~slow
           rep == [view |-> audit.view, finality |-> audit.finality, ok |-> ok,
                   complete |-> full, issues |-> found, late |-> slow,
                   checked |-> audit.checked, honest |-> audit.honest]
           n == audit.view.number
           log == LogAt(n)
<1>1. AllChecked /\ Canonical(audit.view) /\ UNCHANGED <<chainVars, final>>
      /\ reports' = reports \cup {rep}
  BY DEF Report, AllChecked
<1>2. audit.pc = "scan" /\ Len(audit.log) = audit.count
  BY <1>1 DEF AllChecked, Scanned
<1>3. Known(audit.view) /\ (audit.finality => Settled(audit.view))
  BY <1>2 DEF AuditOK, Idle
<1>4. ok => Clean(n)
  BY <1>1, OkIsClean
<1>5. audit.honest /\ Clean(n) =>
         ~slow /\ found \subseteq {"RPC_UNAVAILABLE"} /\ (full <=> found = {})
  BY <1>1, CleanIsFine
<1>6. audit.honest => \A p \in Accepted(log) : \A q \in DecisionsOn(log, p) :
         Answers(log, p, q) => \E c \in audit.checked : c.at = q /\ c.code \in Pardoned
  <2>1. audit.honest => audit.log = log
    BY <1>1, <1>2, ScanIsLog
  <2> QED
    BY <1>1, <2>1, CheckedRight
<1> HIDE DEF full, found, slow
<1>7. /\ rep.view = audit.view /\ rep.finality = audit.finality /\ rep.ok = ok
      /\ rep.complete = full /\ rep.issues = found /\ rep.late = slow
      /\ rep.checked = audit.checked /\ rep.honest = audit.honest
  OBVIOUS
<1>12. (ok <=> full /\ found = {} /\ ~slow)
  OBVIOUS
<1> HIDE DEF rep, ok
<1>8. Judged(rep)
  BY <1>4, <1>5, <1>6, <1>7, <1>12 DEF Judged
<1>9. ASSUME NEW r, r \in reports'
      PROVE  /\ Known(r.view)
             /\ r.finality => Settled(r.view)
             /\ Canonical(r.view) => Judged(r)
  <2>1. CASE r = rep
    BY <1>3, <1>7, <1>8, <2>1
  <2>2. CASE r \in reports
    BY <2>2 DEF ReportsOK
  <2> QED
    BY <1>1, <1>9, <2>1, <2>2
<1>10. ASSUME NEW r, Judged(r) PROVE Judged(r)'
  <2>1. LogAt(r.view.number)' = LogAt(r.view.number)
    BY <1>1, ChainSame
  <2>2. Clean(r.view.number)' = Clean(r.view.number)
    BY <2>1 DEF Clean
  <2> QED
    BY <1>10, <2>1, <2>2 DEF Judged
<1>11. ASSUME NEW r, r \in reports'
       PROVE  /\ Known(r.view)'
              /\ r.finality => Settled(r.view)'
              /\ Canonical(r.view)' => Judged(r)'
  <2>1. /\ Known(r.view)' = Known(r.view) /\ Settled(r.view)' = Settled(r.view)
        /\ Canonical(r.view)' = Canonical(r.view)
    BY <1>1, ChainSame
  <2> QED
    BY <1>9, <1>10, <1>11, <2>1
<1> QED
  BY <1>11 DEF ReportsOK

(* Old reports are right as long as their view stands. *)
LEMMA ReportsStay ==
    ASSUME ChainOK, ReportsOK, [Next]_auditVars, UNCHANGED reports
    PROVE  ReportsOK'
<1> SUFFICES ASSUME NEW r \in reports
             PROVE  /\ Known(r.view)'
                    /\ r.finality => Settled(r.view)'
                    /\ Canonical(r.view)' => Judged(r)'
  BY DEF ReportsOK
<1>1. /\ Known(r.view) /\ (r.finality => Settled(r.view))
      /\ Canonical(r.view) => Judged(r)
  BY DEF ReportsOK
<1>2. Stays(r.view)
  BY <1>1, ChainMoves
<1>3. ASSUME Canonical(r.view)' PROVE Judged(r)'
  <2>1. Judged(r) /\ LogAt(r.view.number)' = LogAt(r.view.number)
    BY <1>1, <1>2, <1>3 DEF Stays
  <2>2. Clean(r.view.number)' = Clean(r.view.number)
    BY <2>1 DEF Clean
  <2> QED
    BY <2>1, <2>2 DEF Judged
<1> QED
  BY <1>1, <1>2, <1>3 DEF Stays

-----------------------------------------------------------------------------
(* Every step keeps the invariant *)

LEMMA AuditInit ==
    ASSUME Init
    PROVE  AuditInv
<1>1. blocks = <<0>> /\ fork = 0 /\ anchored = <<>> /\ final = 1 /\ audit = Idle /\ reports = {}
  BY DEF Init, ChainInit
<1>2. ChainOK
  <2>1. blocks \in Seq(Nat) /\ Len(blocks) = 1 /\ DOMAIN blocks = 1..1 /\ blocks[1] = 0
    BY <1>1
  <2>2. anchored \in Seq(Anchor) /\ DOMAIN anchored = {}
    BY <1>1
  <2> QED
    BY <1>1, <2>1, <2>2, ChainAssumption DEF ChainOK
<1>3. AuditOK
  BY <1>1, IdleIsFine
<1>4. ReportsOK
  BY <1>1 DEF ReportsOK
<1> QED
  BY <1>2, <1>3, <1>4 DEF AuditInv

LEMMA AuditStep ==
    ASSUME AuditInv, [Next]_auditVars
    PROVE  AuditInv'
<1>1. ChainOK /\ AuditOK /\ ReportsOK
  BY DEF AuditInv
<1>2. ChainOK'
  BY <1>1, ChainMoves
<1>3. audit' = Idle => AuditOK'
  <2>1. ASSUME audit' = Idle PROVE AuditOK'
    <3>1. audit'.pc = "idle"
      BY <2>1 DEF Idle
    <3> QED
      BY <2>1, <3>1 DEF AuditOK, Idle
  <2> QED
    BY <2>1
<1>4. CASE Publish \/ SealBlock \/ ReorgBlocks \/ Finalize \/ UNCHANGED auditVars
  <2>1. UNCHANGED <<audit, reports>>
    BY <1>4 DEF Publish, SealBlock, ReorgBlocks, Finalize, auditVars
  <2>2. final <= final'
    <3>1. final \in Nat /\ Len(blocks) \in Nat
      BY <1>1 DEF ChainOK
    <3>2. CASE Finalize
      <4>1. PICK n \in (final + 1)..Len(blocks) : final' = n
        BY <3>2 DEF Finalize
      <4> QED
        BY <3>1, <4>1
    <3>3. CASE ~Finalize
      <4>1. final' = final
        BY <1>4, <3>3 DEF Publish, SealBlock, ReorgBlocks, auditVars
      <4> QED
        BY <3>1, <4>1
    <3> QED
      BY <3>2, <3>3
  <2>3. AuditOK'
    BY <1>1, <1>2, <2>1, <2>2, UnderAudit
  <2>4. ReportsOK'
    BY <1>1, <2>1, ReportsStay
  <2> QED
    BY <1>2, <2>3, <2>4 DEF AuditInv
<1>5. CASE \E n \in DOMAIN blocks, auto \in BOOLEAN : OpenView(n, auto)
  <2>1. AuditOK'
    BY <1>1, <1>5, OpenStep
  <2>2. UNCHANGED reports
    BY <1>5 DEF OpenView
  <2>3. ReportsOK'
    BY <1>1, <2>2, ReportsStay
  <2> QED
    BY <1>2, <2>1, <2>3 DEF AuditInv
<1>6. CASE LabelView \/ ChooseView \/ BeginAudit \/ ReadBatch \/ CheckDecision
  <2>1. AuditOK'
    BY SMTT(30), <1>1, <1>6, LabelStep, ChooseStep, BeginStep, ReadStep, CheckStep
  <2>2. UNCHANGED reports
    BY Zenon, <1>6 DEF LabelView, ChooseView, BeginAudit, ReadBatch, CheckDecision
  <2>3. ReportsOK'
    BY <1>1, <2>2, ReportsStay
  <2> QED
    BY <1>2, <2>1, <2>3 DEF AuditInv
<1>7. CASE Report
  <2>1. AuditOK'
    BY <1>3, <1>7 DEF Report
  <2>2. ReportsOK'
    BY <1>1, <1>7, ReportStep
  <2> QED
    BY <1>2, <2>1, <2>2 DEF AuditInv
<1>8. CASE Abandon
  <2>1. AuditOK'
    BY <1>3, <1>8 DEF Abandon
  <2>2. UNCHANGED reports
    BY <1>8 DEF Abandon
  <2>3. ReportsOK'
    BY <1>1, <2>2, ReportsStay
  <2> QED
    BY <1>2, <2>1, <2>3 DEF AuditInv
<1> QED
  BY <1>4, <1>5, <1>6, <1>7, <1>8, Zenon DEF Next

LEMMA AuditAlways ==
    Spec => []AuditInv
<1>1. Init => AuditInv
  BY AuditInit
<1>2. AuditInv /\ [Next]_auditVars => AuditInv'
  BY AuditStep
<1> QED
  BY <1>1, <1>2, PTL DEF Spec

-----------------------------------------------------------------------------
(* Longer and shorter logs *)

LEMMA PrefixOf ==
    ASSUME ChainOK, NEW m \in DOMAIN blocks, NEW n \in DOMAIN blocks, m <= n
    PROVE  LET early == LogAt(m)
               log == LogAt(n)
           IN  /\ \A id \in DOMAIN early : id \in DOMAIN log /\ early[id] = log[id]
               /\ \A id \in DOMAIN log : id \in DOMAIN early <=> log[id].block.number <= m
<1> DEFINE early == LogAt(m)
           log == LogAt(n)
<1>1. m \in Nat /\ n \in Nat /\ DOMAIN anchored = 1..Len(anchored) /\ Len(anchored) \in Nat
  BY AnchorType
<1>2. /\ CountAt(m) \in Nat /\ CountAt(n) \in Nat
      /\ DOMAIN early = 1..CountAt(m) /\ DOMAIN log = 1..CountAt(n)
  BY LogIs
<1>3. /\ \A id \in DOMAIN anchored : anchored[id].block <= m <=> id <= CountAt(m)
      /\ \A id \in DOMAIN anchored : anchored[id].block <= n <=> id <= CountAt(n)
  BY <1>1, CountIs
<1>4. \A id \in DOMAIN early : id \in DOMAIN anchored /\ anchored[id].block \in 1..m
  BY LogIs
<1>5. \A id \in DOMAIN log : id \in DOMAIN anchored /\ log[id].block.number = anchored[id].block
  BY LogIs
<1>6. \A id \in DOMAIN early : id \in DOMAIN log
  BY <1>1, <1>2, <1>3, <1>4
<1>7. \A id \in DOMAIN early : early[id] = log[id]
  BY <1>2, <1>6 DEF LogAt
<1>8. \A id \in DOMAIN log : id \in DOMAIN early <=> log[id].block.number <= m
  BY <1>1, <1>2, <1>3, <1>5
<1> QED
  BY <1>6, <1>7, <1>8

(* A clean log was clean before. *)
LEMMA CleanBefore ==
    ASSUME ChainOK, NEW m \in DOMAIN blocks, NEW n \in DOMAIN blocks, m <= n, Clean(n)
    PROVE  Clean(m)
<1> DEFINE early == LogAt(m)
           log == LogAt(n)
<1>1. /\ \A id \in DOMAIN early : id \in DOMAIN log /\ early[id] = log[id]
      /\ \A id \in DOMAIN log : id \in DOMAIN early <=> log[id].block.number <= m
  BY PrefixOf
<1>2. LogOK(early) /\ LogOK(log)
  BY LogIs
<1>3. /\ Leaves(log, "REQUEST") = Accepted(log)
      /\ \A p \in Accepted(log) : \A q \in DecisionsOn(log, p) :
            Answers(log, p, q) /\ InTime(log, p, AnchoredAt(log, q))
      /\ \A q \in Leaves(log, "DECISION") : \E p \in Accepted(log) : q \in DecisionsOn(log, p)
      /\ \A p \in Accepted(log) : \A q, o \in DecisionsOn(log, p) : q = o
      /\ \A p \in Accepted(log) : DecisionsOn(log, p) = {} => InTime(log, p, Time[n])
  BY CleanLog
<1>4. /\ Leaves(log, "INVALID") = {}
      /\ \A q, o \in Leaves(log, "DECISION") :
            RecordAt(log, q).req = RecordAt(log, o).req => q = o
      /\ \A p, o \in Leaves(log, "REQUEST") :
            RecordAt(log, p).req = RecordAt(log, o).req => p = o
  BY DEF Clean
<1>5. m \in 1..MaxHeight /\ n \in 1..MaxHeight
  BY SMTT(30), AnchorType, ChainAssumption DEF ChainOK
<1> HIDE DEF early, log
<1>6. ASSUME NEW kind, NEW p \in Leaves(early, kind)
      PROVE  /\ p \in Leaves(log, kind) /\ RecordAt(early, p) = RecordAt(log, p)
             /\ BlockOf(early, p) = BlockOf(log, p) /\ p[1] \in DOMAIN early
             /\ BlockOf(log, p).number <= m
  <2>1. /\ p = <<p[1], p[2]>> /\ p[1] \in DOMAIN early /\ p[2] \in DOMAIN early[p[1]].records
        /\ RecordAt(early, p).kind = kind
    BY <1>2, LeafIs
  <2>2. p[1] \in DOMAIN log /\ early[p[1]] = log[p[1]]
    BY <1>1, <2>1
  <2>3. p \in {p[1]} \X DOMAIN log[p[1]].records
    BY <2>1, <2>2
  <2>4. p \in Leaves(log, kind)
    BY <2>1, <2>2, <2>3 DEF Leaves, RecordAt
  <2> QED
    BY <1>1, <2>1, <2>2, <2>4 DEF RecordAt, BlockOf
<1>7. ASSUME NEW kind, NEW p \in Leaves(log, kind), BlockOf(log, p).number <= m
      PROVE  p \in Leaves(early, kind)
  <2>1. /\ p = <<p[1], p[2]>> /\ p[1] \in DOMAIN log /\ p[2] \in DOMAIN log[p[1]].records
        /\ RecordAt(log, p).kind = kind
    BY <1>2, LeafIs
  <2>2. p[1] \in DOMAIN early /\ early[p[1]] = log[p[1]]
    BY <1>1, <1>7, <2>1 DEF BlockOf
  <2>3. p \in {p[1]} \X DOMAIN early[p[1]].records
    BY <2>1, <2>2
  <2> QED
    BY <2>1, <2>2, <2>3 DEF Leaves, RecordAt
<1>8. ASSUME NEW p \in Leaves(early, "REQUEST"), NEW q \in Leaves(early, "DECISION")
      PROVE  Answers(early, p, q) <=> Answers(log, p, q)
  <2>1. /\ RecordAt(early, p) = RecordAt(log, p) /\ BlockOf(early, p) = BlockOf(log, p)
        /\ RecordAt(early, q) = RecordAt(log, q) /\ BlockOf(early, q) = BlockOf(log, q)
    BY <1>6
  <2>2. ReceiptRef(early, p) = ReceiptRef(log, p)
    BY <2>1 DEF ReceiptRef
  <2> QED
    BY <2>1, <2>2 DEF Answers
<1>9. \A p \in Leaves(early, "REQUEST") : \A t :
         InTime(early, p, t) <=> InTime(log, p, t)
  BY <1>6 DEF InTime, AnchoredAt
<1>10. Leaves(early, "INVALID") = {}
  BY <1>4, <1>6
<1>11. /\ \A q, o \in Leaves(early, "DECISION") :
             RecordAt(early, q).req = RecordAt(early, o).req => q = o
       /\ \A p, o \in Leaves(early, "REQUEST") :
             RecordAt(early, p).req = RecordAt(early, o).req => p = o
  BY <1>4, <1>6
<1>12. ASSUME NEW q \in Leaves(early, "DECISION")
       PROVE  \E p \in Leaves(early, "REQUEST") :
                 Answers(early, p, q) /\ InTime(early, p, AnchoredAt(early, q))
  <2>1. q \in Leaves(log, "DECISION") /\ BlockOf(log, q).number <= m
        /\ AnchoredAt(early, q) = AnchoredAt(log, q)
    BY <1>6 DEF AnchoredAt
  <2>2. PICK p \in Leaves(log, "REQUEST") :
           Answers(log, p, q) /\ InTime(log, p, AnchoredAt(log, q))
    BY <1>3, <2>1
  <2>3. BlockOf(log, p).number < BlockOf(log, q).number
    BY <2>2 DEF Answers
  <2>4. BlockOf(log, p).number \in Nat /\ BlockOf(log, q).number \in Nat
    <3>1. p[1] \in DOMAIN log /\ q[1] \in DOMAIN log
      BY <1>2, <2>1, LeafIs
    <3> QED
      BY SMTT(30), <1>2, <3>1 DEF LogOK, BlockOf
  <2>5. p \in Leaves(early, "REQUEST")
    BY <1>5, <1>7, <2>1, <2>3, <2>4
  <2> QED
    BY <1>8, <1>9, <2>1, <2>2, <2>5
<1>13. ASSUME NEW p \in Leaves(early, "REQUEST")
       PROVE  \/ InTime(early, p, Time[m])
              \/ \E q \in Leaves(early, "DECISION") : Answers(early, p, q)
  <2>1. p \in Accepted(log)
    BY <1>3, <1>6
  <2>2. AnchoredAt(log, p) + Window \in Nat
    <3>1. BlockOf(log, p).number \in 1..MaxHeight
      BY <1>2, <1>6 DEF LogOK, BlockOf
    <3> QED
      BY <3>1, AuditAssumption DEF AnchoredAt
  <2>3. CASE DecisionsOn(log, p) = {}
    <3>1. InTime(log, p, Time[n])
      BY <1>3, <2>1, <2>3
    <3>2. Time[m] \in Nat /\ Time[n] \in Nat /\ Time[m] <= Time[n]
      BY <1>5, AuditAssumption
    <3>3. InTime(log, p, Time[m])
      BY <2>2, <3>1, <3>2 DEF InTime
    <3> QED
      BY <1>9, <3>3
  <2>4. CASE DecisionsOn(log, p) # {}
    <3>1. PICK q \in DecisionsOn(log, p) : TRUE
      BY <2>4
    <3>2. q \in Leaves(log, "DECISION")
      BY <3>1 DEF DecisionsOn
    <3>3. Answers(log, p, q) /\ InTime(log, p, AnchoredAt(log, q))
      BY <1>3, <2>1, <3>1
    <3>4. CASE BlockOf(log, q).number <= m
      <4>1. q \in Leaves(early, "DECISION")
        BY <1>7, <3>2, <3>4
      <4> QED
        BY <1>8, <3>3, <4>1
    <3>5. CASE ~(BlockOf(log, q).number <= m)
      <4>1. q[1] \in DOMAIN log
        BY <1>2, <3>2, LeafIs
      <4>2. BlockOf(log, q).number \in 1..MaxHeight
        BY <1>2, <4>1 DEF LogOK, BlockOf
      <4>3. Time[m] < AnchoredAt(log, q) /\ Time[m] \in Nat /\ AnchoredAt(log, q) \in Nat
        BY <1>5, <3>5, <4>2, AuditAssumption DEF AnchoredAt
      <4>4. InTime(log, p, Time[m])
        BY <2>2, <3>3, <4>3 DEF InTime
      <4> QED
        BY <1>9, <4>4
    <3> QED
      BY <3>4, <3>5
  <2> QED
    BY <2>3, <2>4
<1> QED
  BY <1>10, <1>11, <1>12, <1>13 DEF Clean, early

-----------------------------------------------------------------------------
(* Types: also of an audit whose view has been dropped *)

TypeInv ==
    /\ TypeOK
    /\ audit.pc \in {"choose", "begin", "scan"} => audit.finality \in BOOLEAN
    /\ audit.pc = "scan" => /\ audit.count \in Nat /\ audit.honest \in BOOLEAN
                            /\ audit.checked # {} => Len(audit.log) = audit.count

LEMMA TypeInit ==
    ASSUME Init
    PROVE  TypeInv
<1>1. blocks = <<0>> /\ final = 1 /\ audit.pc = "idle" /\ reports = {}
  BY DEF Init, ChainInit, Idle
<1> QED
  BY <1>1 DEF TypeInv, TypeOK

LEMMA TypeStep ==
    ASSUME AuditInv, TypeInv, [Next]_auditVars
    PROVE  TypeInv'
<1>1. ChainOK /\ AuditOK /\ ChainOK'
  BY ChainMoves DEF AuditInv
<1>2. final' \in DOMAIN blocks'
  BY <1>1 DEF ChainOK
<1> DEFINE Good(rep) == /\ rep.view.number \in 1..MaxHeight
                        /\ {rep.ok, rep.complete, rep.late, rep.finality, rep.honest} \subseteq BOOLEAN
<1>3. \A rep \in reports : Good(rep)
  BY DEF TypeInv, TypeOK
<1>4. ASSUME audit' = Idle, \A rep \in reports' : Good(rep) PROVE TypeInv'
  <2>1. audit'.pc = "idle"
    BY <1>4 DEF Idle
  <2> QED
    BY <1>2, <1>4, <2>1 DEF TypeInv, TypeOK
<1>5. CASE Publish \/ SealBlock \/ ReorgBlocks \/ Finalize \/ UNCHANGED auditVars
  <2>1. UNCHANGED <<audit, reports>>
    BY <1>5 DEF Publish, SealBlock, ReorgBlocks, Finalize, auditVars
  <2> QED
    BY <1>2, <2>1 DEF TypeInv, TypeOK
<1>6. CASE \E n \in DOMAIN blocks, auto \in BOOLEAN : OpenView(n, auto)
  <2>1. audit'.pc = "label" /\ UNCHANGED reports
    BY <1>6 DEF OpenView
  <2> QED
    BY <1>2, <1>3, <2>1 DEF TypeInv, TypeOK
<1>7. CASE LabelView
  <2> DEFINE f == final >= audit.view.number
  <2>1. /\ audit' = [pc |-> IF audit.auto THEN "choose" ELSE "begin",
                     view |-> audit.view, finality |-> f]
        /\ UNCHANGED reports /\ f \in BOOLEAN
    BY <1>7 DEF LabelView
  <2> HIDE DEF f
  <2>2. audit'.pc \in {"choose", "begin"} /\ audit'.finality = f
    BY <2>1
  <2> QED
    BY <1>2, <1>3, <2>1, <2>2 DEF TypeInv, TypeOK
<1>8. CASE ChooseView
  <2>1. /\ audit = [pc |-> "choose", view |-> audit.view, finality |-> audit.finality]
        /\ audit.finality \in BOOLEAN /\ UNCHANGED reports
        /\ \/ audit' = [pc |-> "begin", view |-> Hash(final), finality |-> TRUE]
           \/ audit' = [audit EXCEPT !.pc = "begin"]
    BY <1>1, <1>8 DEF ChooseView, AuditOK, TypeInv, Idle
  <2>2. audit'.pc = "begin" /\ audit'.finality \in BOOLEAN
    <3>1. CASE audit' = [pc |-> "begin", view |-> Hash(final), finality |-> TRUE]
      BY <3>1
    <3>2. CASE audit' = [audit EXCEPT !.pc = "begin"]
      <4>1. audit'.pc = "begin" /\ audit'.finality = audit.finality
        BY <2>1, <3>2
      <4> QED
        BY <2>1, <4>1
    <3> QED
      BY <2>1, <3>1, <3>2
  <2> QED
    BY <1>2, <1>3, <2>1, <2>2 DEF TypeInv, TypeOK
<1>9. CASE BeginAudit
  <2>1. /\ audit'.pc = "scan" /\ audit'.finality = audit.finality /\ audit'.log = <<>>
        /\ audit'.count = CountAt(audit.view.number) /\ audit'.checked = {}
        /\ audit'.honest = TRUE /\ UNCHANGED reports
        /\ audit.pc = "begin" /\ Canonical(audit.view)
    BY <1>9 DEF BeginAudit
  <2>2. CountAt(audit.view.number) \in Nat
    BY <1>1, <2>1, LogIs DEF Canonical
  <2>3. Len(audit'.log) <= audit'.count
    BY <2>1, <2>2
  <2>4. audit'.finality \in BOOLEAN
    BY <2>1 DEF TypeInv
  <2> QED
    BY <1>2, <1>3, <2>1, <2>2, <2>3, <2>4 DEF TypeInv, TypeOK
<1>10. CASE ReadBatch
  <2>1. /\ audit'.pc = "scan" /\ audit'.finality = audit.finality
        /\ audit'.count = audit.count /\ Len(audit'.log) = Len(audit.log) + 1
        /\ audit'.checked = {} /\ audit'.honest \in BOOLEAN
    BY <1>1, <1>10, ReadStep
  <2>2. audit.pc = "scan" /\ Len(audit.log) + 1 <= audit.count /\ UNCHANGED reports
    BY <1>10 DEF ReadBatch
  <2>3. audit.finality \in BOOLEAN /\ audit.count \in Nat
    BY <2>2 DEF TypeInv
  <2>4. audit'.finality \in BOOLEAN /\ audit'.count \in Nat
    BY <2>1, <2>3
  <2>5. Len(audit'.log) <= audit'.count
    BY <2>1, <2>2
  <2> QED
    BY <1>2, <1>3, <2>1, <2>2, <2>4, <2>5 DEF TypeInv, TypeOK
<1>11. CASE CheckDecision
  <2>1. /\ audit'.pc = "scan" /\ audit'.finality = audit.finality
        /\ audit'.count = audit.count /\ audit'.log = audit.log
        /\ \A c \in audit'.checked :
              c \in audit.checked \/ c.at \in Leaves(audit.log, "DECISION")
        /\ audit'.honest \in BOOLEAN
    BY <1>1, <1>11, CheckStep
  <2>2. audit.pc = "scan" /\ Len(audit.log) = audit.count /\ UNCHANGED reports
    BY <1>11 DEF CheckDecision, Scanned
  <2>3. /\ audit.finality \in BOOLEAN /\ audit.count \in Nat
        /\ \A c \in audit.checked : c.at \in Leaves(audit.log, "DECISION")
    BY <2>2 DEF TypeInv, TypeOK
  <2>4. audit'.finality \in BOOLEAN /\ audit'.count \in Nat /\ Len(audit'.log) <= audit'.count
    BY <2>1, <2>2, <2>3
  <2> QED
    BY <1>2, <1>3, <2>1, <2>2, <2>3, <2>4 DEF TypeInv, TypeOK
<1>12. CASE Report
  <2> DEFINE full == Complete
             found == Issues
             slow == Late
             ok == full /\ found = {} /\ ~slow
             r == [view |-> audit.view, finality |-> audit.finality, ok |-> ok,
                   complete |-> full, issues |-> found, late |-> slow,
                   checked |-> audit.checked, honest |-> audit.honest]
  <2>1. audit.pc = "scan" /\ audit' = Idle /\ reports' = reports \cup {r}
    BY <1>12 DEF Report, Scanned
  <2>2. /\ audit.view.number \in 1..MaxHeight
        /\ audit.finality \in BOOLEAN /\ audit.honest \in BOOLEAN
    BY <1>1, <2>1 DEF AuditOK, TypeInv, Known, Idle
  <2>3. full \in BOOLEAN /\ slow \in BOOLEAN
    BY DEF Complete, Late
  <2> HIDE DEF full, found, slow
  <2>5. ok \in BOOLEAN
    OBVIOUS
  <2> HIDE DEF ok
  <2>4. Good(r)
    BY <2>2, <2>3, <2>5
  <2> HIDE DEF r
  <2> QED
    BY <1>3, <1>4, <2>1, <2>4
<1>13. CASE Abandon
  <2>1. audit' = Idle /\ UNCHANGED reports
    BY <1>13 DEF Abandon
  <2> QED
    BY <1>3, <1>4, <2>1
<1> QED
  BY <1>5, <1>6, <1>7, <1>8, <1>9, <1>10, <1>11, <1>12, <1>13, Zenon DEF Next

-----------------------------------------------------------------------------
(* The theorems *)

(* Types, for an audit of any log: it reads at most the batches counted,   *)
(* and checks only decisions of the log it has read.                       *)
THEOREM AuditTypes == Spec => []TypeOK
<1>1. Init => AuditInv /\ TypeInv
  BY AuditInit, TypeInit
<1>2. (AuditInv /\ TypeInv) /\ [Next]_auditVars => (AuditInv /\ TypeInv)'
  BY AuditStep, TypeStep
<1>3. TypeInv => TypeOK
  BY DEF TypeInv
<1> QED
  BY <1>1, <1>2, <1>3, PTL DEF Spec

(* A report labelled FINALIZED is about blocks that stay: its view is read *)
(* canonical again after its finality, and finalized blocks do not go.     *)
THEOREM FinalStands == Spec => []FinalIsFinal
<1>1. AuditInv => FinalIsFinal
  BY DEF AuditInv, ReportsOK, Settled, FinalIsFinal
<1> QED
  BY <1>1, AuditAlways, PTL

(* An audit that says ok tells the truth about everything committed, for   *)
(* any institution and any archive.                                        *)
THEOREM OkIsTrue == Spec => []AuditSound
<1>1. AuditInv => AuditSound
  BY DEF AuditInv, ReportsOK, Judged, AuditSound, Standing
<1> QED
  BY <1>1, AuditAlways, PTL

(* A clean log read from an archive that gives what it has is never found  *)
(* fault with: what a report on it may lack is the node's answer.          *)
THEOREM NeverAccused == Spec => []NoFalseAlarm
<1>1. AuditInv => NoFalseAlarm
  BY DEF AuditInv, ReportsOK, Judged, NoFalseAlarm, Standing
<1> QED
  BY <1>1, AuditAlways, PTL

(* A log once found bad does not become good by growing: had the longer    *)
(* log been clean, so had been the shorter one, and its honest audit would *)
(* have found no fault with it.                                            *)
THEOREM BadStaysBad == Spec => []VerdictStands
<1>1. ASSUME AuditInv PROVE VerdictStands
  <2> SUFFICES ASSUME NEW early \in Standing, NEW late \in Standing,
                      early.view.number <= late.view.number, early.honest, late.ok
               PROVE  ~Accuses(early)
    BY DEF VerdictStands
  <2>1. ChainOK /\ Judged(early) /\ Judged(late)
    BY <1>1 DEF AuditInv, ReportsOK, Standing
  <2>2. early.view.number \in DOMAIN blocks /\ late.view.number \in DOMAIN blocks
    BY DEF Standing, Canonical
  <2>3. Clean(late.view.number)
    BY <2>1 DEF Judged
  <2>4. Clean(early.view.number)
    BY <2>1, <2>2, <2>3, CleanBefore
  <2>5. ~early.late /\ early.issues \subseteq {"RPC_UNAVAILABLE"}
    BY <2>1, <2>4 DEF Judged
  <2> QED
    BY <2>5 DEF Accuses, OperationalErrors
<1> QED
  BY <1>1, AuditAlways, PTL

(* The audit of the log and the check of one bundle agree about every pair *)
(* of a request and a decision.                                            *)
THEOREM SameAnswers == Spec => []VerifiersAgree
<1>1. ASSUME AuditInv PROVE VerifiersAgree
  <2> SUFFICES ASSUME NEW rep \in Standing,
                      NEW p \in Leaves(LogAt(rep.view.number), "REQUEST"),
                      NEW q \in Leaves(LogAt(rep.view.number), "DECISION")
               PROVE  LET log == LogAt(rep.view.number) IN
                      /\ rep.honest /\ VerifyOne(p, q, rep.view.number) =>
                            \/ \E c \in rep.checked :
                                  c.at = q /\ c.code \in {"VALID", "RPC_UNAVAILABLE"}
                            \/ \E o \in Leaves(log, "REQUEST") :
                                  Before(o, p) /\ RecordAt(log, o).req = RecordAt(log, p).req
                      /\ rep.ok /\ q \in DecisionsOn(log, p) =>
                            VerifyOne(p, q, rep.view.number)
    BY DEF VerifiersAgree
  <2> DEFINE n == rep.view.number
             log == LogAt(n)
  <2>1. ChainOK /\ Judged(rep) /\ n \in DOMAIN blocks
    BY <1>1 DEF AuditInv, ReportsOK, Standing, Canonical
  <2>2. VerifyOne(p, q, n) <=> Answers(log, p, q)
    BY <2>1, VerifyOneIs
  <2>3. ASSUME rep.honest, Answers(log, p, q), p \in Accepted(log)
        PROVE  \E c \in rep.checked : c.at = q /\ c.code \in {"VALID", "RPC_UNAVAILABLE"}
    <3>1. q \in DecisionsOn(log, p)
      BY <2>3 DEF Answers, DecisionsOn
    <3> QED
      BY <2>1, <2>3, <3>1 DEF Judged, Pardoned
  <2>4. ASSUME p \notin Accepted(log)
        PROVE  \E o \in Leaves(log, "REQUEST") :
                  Before(o, p) /\ RecordAt(log, o).req = RecordAt(log, p).req
    BY <2>4 DEF Accepted
  <2>5. ASSUME rep.ok, q \in DecisionsOn(log, p) PROVE Answers(log, p, q)
    <3>1. Clean(n)
      BY <2>1, <2>5 DEF Judged
    <3>2. /\ Leaves(log, "REQUEST") = Accepted(log)
          /\ \A a \in Accepted(log) : \A o \in DecisionsOn(log, a) : Answers(log, a, o)
      BY <2>1, <3>1, CleanLog
    <3> QED
      BY <2>5, <3>2
  <2> QED
    BY <2>2, <2>3, <2>4, <2>5
<1> QED
  BY <1>1, AuditAlways, PTL

=============================================================================
