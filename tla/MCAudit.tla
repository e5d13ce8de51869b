------------------------------- MODULE MCAudit -------------------------------
(* Small instances of Audit for TLC. *)
EXTENDS Audit, TLC

CONSTANTS r1, r2

(* The state is high until block 2 and low from block 3 on; a fork lowers it. *)
StateTable ==
    [b \in (1..MaxHeight) \X (0..MaxReorgs) |->
        IF b[1] <= 2 /\ b[2] = 0 THEN "high" ELSE "low"]

(* Receipts already tell the forks apart. *)
HighTable == [b \in (1..MaxHeight) \X (0..MaxReorgs) |-> "high"]

(* Blocks come every two units of time, with one late block. *)
TimeTable == [n \in 1..MaxHeight |-> IF n <= 3 THEN 2 * n ELSE 2 * n + 3]

(* An answer in the last block is in time for block 3, not for block 2. *)
TightTimes == <<2, 4, 6, 7>>

Ask(r) == [kind |-> "REQUEST", req |-> r]

Decide(r, b, n, state, reason, signed) ==
    [kind |-> "DECISION", req |-> r, signed |-> signed,
     ref |-> [batch |-> b, leaf |-> 1, block |-> [number |-> n, fork |-> 0]],
     state |-> state, reason |-> reason]

Invalid == [kind |-> "INVALID"]

(* The answers a good and a bad institution gives to r1 anchored in batch  *)
(* 1 and block 2, where the state allows it.                               *)
Right == Decide(r1, 1, 2, "high", "POLICY_SATISFIED", TRUE)
WrongReason == Decide(r1, 1, 2, "high", "RESERVE_FLOOR", TRUE)
NoSnapshot == Decide(r1, 1, 2, "null", "POLICY_SATISFIED", TRUE)
Unsigned == Decide(r1, 1, 2, "high", "POLICY_SATISFIED", FALSE)
OtherReceipt == Decide(r1, 2, 3, "low", "RESERVE_FLOOR", TRUE)

(* r2 is over the limit. *)
TooMuch == Decide(r2, 1, 2, "null", "LIMIT_EXCEEDED", TRUE)
TooMuchState == Decide(r2, 1, 2, "high", "LIMIT_EXCEEDED", TRUE)

Everything == {Ask(r1), Ask(r2), Right, WrongReason, NoSnapshot,
               Unsigned, OtherReceipt, TooMuch, TooMuchState, Invalid}
(* The answer to r1 anchored in block 3 instead. *)
RightLater == Decide(r1, 1, 3, "high", "POLICY_SATISFIED", TRUE)

Few == {Ask(r1), Right, RightLater}

OneLie == {<<Ask(r1)>>}
NoLies == {}
AllStates == {"high", "low"}
OnlyHigh == {"high"}
OverLimit == {r2}
=============================================================================
