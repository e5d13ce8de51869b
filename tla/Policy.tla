-------------------------------- MODULE Policy -------------------------------
(***************************************************************************)
(* The two lending policies (policy/policy.js).  Amounts are those that    *)
(* `integer' accepts, of 256 bits, computed on without overflow (BigInt);  *)
(* the `derived' figures of a decision are left out, being functions of    *)
(* the same inputs.                                                        *)
(***************************************************************************)
EXTENDS Integers

Decision(outcome, reason) == [outcome |-> outcome, reason |-> reason]

Approved == Decision("APPROVED", "POLICY_SATISFIED")

(* usdc-reserve-v1 looks at the treasury only for amounts within the limit. *)
WithinLimit(amount, rules) == amount <= rules.limit

Evaluate(amount, balance, rules) ==
    IF ~WithinLimit(amount, rules) THEN Decision("REJECTED", "LIMIT_EXCEEDED")
    ELSE IF balance < amount + rules.reserve THEN Decision("REJECTED", "RESERVE_FLOOR")
    ELSE Approved

(* Loan to value in basis points, rounded down. *)
LtvBps(collateral, debt) == (debt * 10000) \div collateral

(* credit-ltv-v1. *)
EvaluatePolicy(collateral, debt, amount, rules) ==
    IF collateral = 0 THEN Decision("REJECTED", "NO_COLLATERAL")
    ELSE IF LtvBps(collateral, debt + amount) > rules.maxLtvBps
    THEN Decision("REJECTED", "LTV_EXCEEDED")
    ELSE Approved

==============================================================================
