----------------------------- MODULE MCChainView -----------------------------
(* Two forks at number 1 with one timestamp and one batch of three         *)
(* requests but other states, above them the decisions; a third fork with  *)
(* another batch at another time.                                          *)
EXTENDS ChainView, TLC

CONSTANTS g, a1, b1, d1, a2, b2, c2

Tree == (g  :> {g})          @@ (a1 :> {g, a1})     @@ (b1 :> {g, b1}) @@ (d1 :> {g, d1}) @@
        (a2 :> {g, a1, a2})  @@ (b2 :> {g, b1, b2}) @@ (c2 :> {g, a1, c2})

Numbers == [b \in DOMAIN Tree |-> Cardinality(Tree[b]) - 1]

Times == [b \in DOMAIN Numbers |-> IF b \in {b2, d1} THEN 1 + Numbers[b] ELSE Numbers[b]]

(* At a1 a loan of 10 is approved, at the edge: 20 to 30 is 6666 bps.  At  *)
(* b1 it is not.                                                           *)
StateTable ==
    [b \in DOMAIN Numbers |->
        IF b \in {b1, b2} THEN [balance |-> 14, collateral |-> 0, debt |-> 10]
        ELSE [balance |-> 15, collateral |-> 30, debt |-> 10]]

UsdcPolicy == [id |-> "usdc-reserve-v1", limit |-> 50, reserve |-> 5]
CreditPolicy == [id |-> "credit-ltv-v1", maxLtvBps |-> 6666]

ARequest(id, amount) == [kind |-> "REQUEST", id |-> id, amount |-> amount, valid |-> TRUE]

Small == ARequest("small", 10)
Large == ARequest("large", 90)
Third == ARequest("third", 10)
LocalBatch == [batch |-> 1, records |-> <<Large, Small, Third>>]

Truth(p, request, leaf, block) ==
    MakeDecision(p, request,
                 [batch |-> 1, leaf |-> leaf, number |-> 1, block |-> block],
                 IF Usdc(p) THEN StateTable[block].balance ELSE StateTable[block])

(* What the institution may commit: the truth at a1, a wrong answer, one   *)
(* right for another state, one at a leaf where the request is not; the    *)
(* truth at b1.                                                            *)
Lie(p) == [Truth(p, Small, 1, a1) EXCEPT !.outcome = "REJECTED", !.reason = "RESERVE_FLOOR"]

OtherState(p) ==
    MakeDecision(p, Small, Truth(p, Small, 1, a1).ref,
                 IF Usdc(p) THEN StateTable[b1].balance ELSE StateTable[b1])

Commits(p) ==
    <<Truth(p, Small, 1, a1), Truth(p, Large, 0, a1), Lie(p), OtherState(p),
      Truth(p, Third, 1, a1)>>

DecisionsOnA == Commits(UsdcPolicy) \o Commits(CreditPolicy)

DecisionsOnB == <<Truth(UsdcPolicy, Small, 1, b1), Truth(CreditPolicy, Small, 1, b1)>>

Batch(records, block) ==
    [records |-> records, number |-> Numbers[block], time |-> Times[block]]

AnchorTable ==
    (g  :> <<>>) @@
    (a1 :> <<Batch(LocalBatch.records, a1)>>) @@
    (b1 :> <<Batch(LocalBatch.records, b1)>>) @@
    (d1 :> <<Batch(<<Small>>, d1)>>) @@
    (a2 :> <<Batch(LocalBatch.records, a1), Batch(DecisionsOnA, a2)>>) @@
    (b2 :> <<Batch(LocalBatch.records, b1), Batch(DecisionsOnB, b2)>>) @@
    (c2 :> <<Batch(LocalBatch.records, a1), Batch(DecisionsOnB, c2)>>)

ABundle(request, decision) ==
    [request |-> request, decision |-> decision, snapshot |-> decision.record.state]

(* Of each policy: what `bundle' exports for three of its decisions, and   *)
(* what it never would - the lies, a decision on another fork, another     *)
(* snapshot, a batch of two that never was, two leaves of one batch.       *)
BundlesOf(n) ==
    LET item(block, i, j) == Item(AnchorTable[block], i, j)
        onA(i) == ABundle(item(a2, 1, 1), item(a2, 2, 5 * n + i))
    IN  {onA(0), onA(2), onA(3),
          ABundle(item(a2, 1, 0), item(a2, 2, 5 * n + 1)),
          ABundle(item(b2, 1, 1), item(b2, 2, n)),
          [onA(0) EXCEPT !.snapshot = DecisionsOnB[n + 1].state],
          ABundle([item(a2, 1, 2) EXCEPT !.count = 2, !.index = 1],
                  item(a2, 2, 5 * n + 4)),
          [request |-> item(a2, 1, 1), decision |-> item(a2, 1, 0), snapshot |-> None]}

SomeBundles == (UsdcPolicy :> BundlesOf(0)) @@ (CreditPolicy :> BundlesOf(1))

PolicySet == {UsdcPolicy, CreditPolicy}

(* TLC evaluates what a constant is replaced by at each use, but the       *)
(* definitions that occurs in only once.                                   *)
TheTree == Tree
TheStates == StateTable
TheAnchors == AnchorTable
TheBundles == SomeBundles

===============================================================================
