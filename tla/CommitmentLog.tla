---------------------------- MODULE CommitmentLog ----------------------------
(***************************************************************************)
(* What the evidence store promises, with its tables, files and handlers   *)
(* taken away: an append-only log of batches, of which the chain confirms  *)
(* a prefix.                                                               *)
(*                                                                         *)
(*   - a batch is appended only when all earlier ones are public, and it   *)
(*     never changes afterwards;                                           *)
(*   - no record is committed twice, and a decision is committed only      *)
(*     after the request it answers, at the place its receipt names;       *)
(*   - only public batches are confirmed, in order; the chain may take     *)
(*     confirmations back but never the order.                             *)
(***************************************************************************)
EXTENDS Integers

CONSTANT BatchLimit

VARIABLES
    log,      \* batch id -> its records
    public,   \* ids of the batches anyone can read
    tip       \* how many batches the chain confirms

vars == <<log, public, tip>>

Committed(rec) == \E id \in DOMAIN log : \E k \in DOMAIN log[id] : log[id][k] = rec

(* The request a decision answers is in the log where the decision says. *)
Answers(rec) ==
    rec.kind = "DECISION" =>
        /\ rec.ref.batch \in DOMAIN log
        /\ rec.ref.leaf \in DOMAIN log[rec.ref.batch]
        /\ log[rec.ref.batch][rec.ref.leaf] = [kind |-> "REQUEST", req |-> rec.req]

Acceptable(records) ==
    /\ DOMAIN records \in {1..n : n \in 1..BatchLimit}
    /\ \A k \in DOMAIN records : ~Committed(records[k]) /\ Answers(records[k])
    /\ \A j, k \in DOMAIN records : records[j] = records[k] => j = k

Init == log = <<>> /\ public = {} /\ tip = 0

(* The log gets one more batch, under the next id. *)
Close ==
    /\ public = DOMAIN log
    /\ \E id \in DOMAIN log' :
          /\ DOMAIN log = 1..(id - 1)
          /\ DOMAIN log' = 1..id
          /\ Acceptable(log'[id])
    /\ \A k \in DOMAIN log : log'[k] = log[k]
    /\ UNCHANGED <<public, tip>>

Publish ==
    /\ \E id \in DOMAIN log \ public : public' = public \cup {id}
    /\ UNCHANGED <<log, tip>>

Confirm ==
    /\ tip + 1 \in public
    /\ tip' = tip + 1
    /\ UNCHANGED <<log, public>>

Rollback ==
    /\ \E t \in 0..(tip - 1) : tip' = t
    /\ UNCHANGED <<log, public>>

Next == Close \/ Publish \/ Confirm \/ Rollback

Spec == Init /\ [][Next]_vars
=============================================================================
