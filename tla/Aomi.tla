--------------------------------- MODULE Aomi --------------------------------
(***************************************************************************)
(* Anchoring a batch through the Aomi agent (operator/aomi.js), as the     *)
(* command `run.js aomi-submit' does: the agent, on its own server, stages *)
(* and simulates a transaction and asks this client to sign it; the client *)
(* signs only what it had asked for, and only once it has saved the        *)
(* request.                                                                *)
(*                                                                         *)
(* The client keeps a journal for every batch, aomi-batch-<id>.json, and   *)
(* the journal of Operator.transact, tx-batch-<id>.json.  It can stop at   *)
(* any step and be run again; its messages and the answers to them can be  *)
(* lost or late.  The agent may stage what it likes, or end its turn.      *)
(* Transactions are taken to last once executed: reorganisations are the   *)
(* subject of Operator.                                                    *)
(***************************************************************************)
EXTENDS Integers, Sequences, FiniteSets

CONSTANTS
    MaxBatches,   \* bound: batches to anchor
    MaxActions,   \* bound: actions the agent asks for
    MaxStops      \* bound: crashes, lost messages, timeouts

ASSUME AomiAssumption == MaxBatches \in Nat /\ MaxActions \in Nat /\ MaxStops \in Nat

Batches == 1..MaxBatches
TurnLimit == 2     \* turnAttempts a journal allows

VARIABLES
    pc,        \* where the command is
    cur,       \* the batch executeAomiBatch is about
    seen,      \* the session as this client last fetched it
    chosen,    \* the action it executes, an index of seen.actions
    journal,   \* aomi-batch-<id>.json
    signed,    \* batches with a tx-batch-<id>.json
    sent,      \* signed transactions the network has
    chain,     \* number of batches anchored
    server,    \* the session of a batch, as the agent's server keeps it
    wire,      \* requests in flight: <<b, 0>> a message, <<b, i>> the result of action i
    stops

memory == <<pc, cur, seen, chosen>>
disk == <<journal, signed>>
outside == <<sent, chain>>
remote == <<server, wire>>
vars == <<memory, disk, outside, remote, stops>>

(* What the agent asks to sign: the authorized call with a passed          *)
(* simulation, or anything validateAomiRequest rejects.                    *)
Requests == {"authorized", "other"}
None == "none"

NewJournal ==
    [started |-> FALSE, request |-> None, hash |-> FALSE, repaired |-> FALSE,
     attempts |-> 0, state |-> "pending"]

NoSession == [turn |-> None, mismatch |-> FALSE, actions |-> <<>>]

Journals == DOMAIN journal
Confirmed == {b \in Journals : journal[b].state = "confirmed"}
Open == Journals \ Confirmed

(* journal.<field> = value; op.save(filename, journal) *)
Save(j) == journal' = [b \in Journals \cup {cur} |-> IF b = cur THEN j ELSE journal[b]]

Mine == journal[cur]

(* `seen' is fetched again before it is read after a message. *)
GoTo(p) ==
    /\ pc' = p
    /\ seen' = IF p = "loop" THEN seen ELSE NoSession
    /\ UNCHANGED <<cur, chosen>>

Leave(p) == pc' = p /\ cur' = 0 /\ seen' = NoSession /\ chosen' = 0

-----------------------------------------------------------------------------
(* The command *)

Run ==
    /\ pc = "down"
    /\ GoTo("attach")
    /\ UNCHANGED <<disk, outside, remote, stops>>

(* executeAomiBatch(id): a journal is made unless there is one. *)
Begin(b) ==
    /\ pc' = "begin" /\ cur' = b /\ UNCHANGED <<seen, chosen>>
    /\ journal' = [i \in Journals \cup {b} |-> IF i \in Journals THEN journal[i] ELSE NewJournal]
    /\ UNCHANGED <<signed, outside, remote, stops>>

(* attachAomi: what an earlier run left unconfirmed comes first. *)
Resume == pc = "attach" /\ \E b \in Open : Begin(b)

(* Mutant: a batch is registered before the earlier ones are resumed. *)
AttachedEarly ==
    /\ pc = "attach"
    /\ GoTo("work")
    /\ UNCHANGED <<disk, outside, remote, stops>>

Attached ==
    /\ pc = "attach" /\ Open = {}
    /\ GoTo("work")
    /\ UNCHANGED <<disk, outside, remote, stops>>

(* register: prepare gives the batch after the last one anchored. *)
Register == pc = "work" /\ chain + 1 \in Batches \ Journals /\ Begin(chain + 1)

Finished ==
    /\ pc = "work"
    /\ Leave("down")
    /\ UNCHANGED <<disk, outside, remote, stops>>

(* An error that nothing in the code catches, or the end of the process. *)
Exit == Leave("down")

Stop ==
    /\ pc # "down" /\ stops < MaxStops
    /\ stops' = stops + 1
    /\ Exit
    /\ UNCHANGED <<disk, outside, remote>>

-----------------------------------------------------------------------------
(* The session is restored, or started *)

(* fetchCurrentState, where 404 says that the first message got lost. *)
Restore ==
    /\ pc = "begin"
    /\ IF Mine.started /\ server[cur].turn # None
       THEN pc' = "loop" /\ seen' = server[cur] /\ UNCHANGED <<cur, chosen>>
       ELSE GoTo("start")
    /\ UNCHANGED <<disk, outside, remote, stops>>

(* Every message to the agent is preceded by a save that remembers it. *)
Send(j) ==
    /\ Save(j)
    /\ GoTo("send")
    /\ UNCHANGED <<signed, outside, remote, stops>>

Start == pc = "start" /\ Send([Mine EXCEPT !.started = TRUE])

(* The server's state once it has a message: a new turn. *)
Told(b) == [server EXCEPT ![b].turn = "running"]

(* sendAsync, answered or not. *)
Sent ==
    /\ pc = "send"
    /\ server' = Told(cur)
    /\ pc' = "loop" /\ seen' = server'[cur] /\ UNCHANGED <<cur, chosen>>
    /\ UNCHANGED <<disk, outside, wire, stops>>

SentUnanswered ==
    /\ pc = "send" /\ stops < MaxStops
    /\ stops' = stops + 1
    /\ wire' = wire \cup {<<cur, 0>>}
    /\ Exit
    /\ UNCHANGED <<disk, outside, server>>

-----------------------------------------------------------------------------
(* The loop that watches the session *)

(* Mutant: an action of an earlier run is not recognised. *)
AcknowledgedNever == FALSE

Acknowledged ==
    \E i \in DOMAIN seen.actions : seen.actions[i].status = "submitted" /\ Mine.hash

PendingActions == {i \in DOMAIN seen.actions : seen.actions[i].status \in {"pending", "expired"}}

First == CHOOSE i \in PendingActions : \A k \in PendingActions : i <= k

(* The server had accepted the result of an earlier run. *)
Recognise ==
    /\ pc = "loop" /\ Acknowledged
    /\ GoTo("confirm")
    /\ UNCHANGED <<disk, outside, remote, stops>>

(* Mutant: the request is saved once the transaction is sent. *)
ExecuteUnsaved ==
    /\ pc = "loop" /\ ~Acknowledged /\ PendingActions # {}
    /\ seen.actions[First].status = "pending" /\ seen.actions[First].request = "authorized"
    /\ pc' = "sign" /\ chosen' = First /\ seen' = NoSession
    /\ UNCHANGED <<cur, disk, outside, remote, stops>>

(* The oldest pending action, if it is still good and what was authorized. *)
(* The request is saved before the signer sees it.                         *)
Execute ==
    /\ pc = "loop" /\ ~Acknowledged /\ PendingActions # {}
    /\ LET action == seen.actions[First] IN
       IF action.status = "pending" /\ action.request = "authorized"
       THEN /\ Save([Mine EXCEPT !.request = action.request])
            /\ pc' = "sign" /\ chosen' = First /\ seen' = NoSession /\ UNCHANGED cur
       ELSE Exit /\ UNCHANGED journal       \* AOMI_ACTION_EXPIRED, AOMI_PAYLOAD_MISMATCH
    /\ UNCHANGED <<signed, outside, remote, stops>>

Ended == ~Acknowledged /\ PendingActions = {} /\ seen.turn = "ended"

(* Asked once per journal: the agent simulated another call. *)
RepairDue(session, j) == session.mismatch /\ ~j.repaired /\ ~j.hash

NeedsRepair == RepairDue(seen, Mine)

Repair == pc = "loop" /\ Ended /\ NeedsRepair /\ Send([Mine EXCEPT !.repaired = TRUE])

(* eth_call of the anchor, which reverts once it has been executed.  *)
CallSucceeds == chain + 1 = cur

(* Mutant: the turns asked for are not counted. *)
RetryUncounted ==
    /\ pc = "loop" /\ Ended /\ ~NeedsRepair
    /\ Mine.attempts < TurnLimit /\ CallSucceeds
    /\ Send(Mine)

Retry ==
    /\ pc = "loop" /\ Ended /\ ~NeedsRepair
    /\ Mine.attempts < TurnLimit /\ CallSucceeds
    /\ Send([Mine EXCEPT !.attempts = @ + 1])

(* AOMI_NO_EXECUTION_ACTION, or the call reverts. *)
GiveUp ==
    /\ pc = "loop" /\ Ended /\ ~NeedsRepair
    /\ ~(Mine.attempts < TurnLimit /\ CallSucceeds)
    /\ Exit
    /\ UNCHANGED <<disk, outside, remote, stops>>

(* The pause, and the next fetchCurrentState. *)
Fetch ==
    /\ pc = "loop" /\ ~Acknowledged /\ PendingActions = {} /\ seen.turn # "ended"
    /\ seen' = server[cur] /\ UNCHANGED <<pc, cur, chosen>>
    /\ UNCHANGED <<disk, outside, remote, stops>>

-----------------------------------------------------------------------------
(* The handler of an action: op.transact and its result *)

(* A transaction is signed once; estimateGas refuses a call that reverts.  *)
Sign ==
    /\ pc = "sign"
    /\ IF cur \in signed THEN GoTo("transact") /\ UNCHANGED signed
       ELSE IF CallSucceeds THEN GoTo("transact") /\ signed' = signed \cup {cur}
       ELSE Exit /\ UNCHANGED signed
    /\ UNCHANGED <<journal, outside, remote, stops>>

Transact ==
    /\ pc = "transact"
    /\ sent' = sent \cup {cur}
    /\ GoTo("wait")
    /\ UNCHANGED <<disk, chain, remote, stops>>

(* The receipt; its hash is saved before the agent hears of it. *)
Settle ==
    /\ pc = "wait" /\ cur <= chain
    /\ Save([Mine EXCEPT !.hash = TRUE])
    /\ GoTo("report")
    /\ UNCHANGED <<signed, outside, remote, stops>>

(* The server's state once it has the result of an action, which it takes  *)
(* for one that is still pending there.                                    *)
Accepted(b, i) ==
    IF server[b].actions[i].status = "pending"
    THEN [server EXCEPT ![b].actions[i].status = "submitted"] ELSE server

(* The result of the handler is posted; anything but an acceptance, or no  *)
(* answer, is AOMI_ACK_REQUIRED or an error.                               *)
Report ==
    /\ pc = "report"
    /\ server' = Accepted(cur, chosen)
    /\ IF server'[cur].actions[chosen].status = "submitted" THEN GoTo("confirm") ELSE Exit
    /\ UNCHANGED <<disk, outside, wire, stops>>

ReportUnanswered ==
    /\ pc = "report" /\ stops < MaxStops
    /\ stops' = stops + 1
    /\ wire' = wire \cup {<<cur, chosen>>}
    /\ Exit
    /\ UNCHANGED <<disk, outside, server>>

(* transact, whose journal has the receipt by now, and the last save. *)
Confirm ==
    /\ pc = "confirm"
    /\ Save([Mine EXCEPT !.state = "confirmed"])
    /\ Leave("work")
    /\ UNCHANGED <<signed, outside, remote, stops>>

-----------------------------------------------------------------------------
(* The network, the server and its agent *)

Execution ==
    /\ chain + 1 \in sent
    /\ chain' = chain + 1
    /\ UNCHANGED <<memory, disk, sent, remote, stops>>

(* A request whose sender has gone arrives, or does not. *)
Arrive(b, i) ==
    /\ <<b, i>> \in wire
    /\ wire' = wire \ {<<b, i>>}
    /\ server' \in {server, IF i = 0 THEN Told(b) ELSE Accepted(b, i)}
    /\ UNCHANGED <<memory, disk, outside, stops>>

(* What the agent does in a turn.  A session whose batch is confirmed is   *)
(* not looked at again, and what happens in it is left out.                *)
Agent(b, session) ==
    /\ server[b].turn = "running" /\ b \notin Confirmed
    /\ server' = [server EXCEPT ![b] = session]
    /\ UNCHANGED <<memory, disk, outside, wire, stops>>

Asked == {a \in Batches \X (1..MaxActions) : a[2] \in DOMAIN server[a[1]].actions}

Ask(b, r) ==
    /\ Cardinality(Asked) < MaxActions
    /\ Agent(b, [server[b] EXCEPT !.actions = Append(@, [request |-> r, status |-> "pending"])])

(* The turn ends, in any of three ways; the call last simulated may not be *)
(* the one asked for.                                                      *)
EndTurn(b) ==
    \E other \in BOOLEAN :
        Agent(b, [turn |-> "ended", mismatch |-> other, actions |-> server[b].actions])

(* An action expires, and the server stops offering it some time later. *)
Expire(b) ==
    /\ b \notin Confirmed
    /\ \E i \in DOMAIN server[b].actions :
          \E to \in {"expired", "gone"} :
             /\ <<server[b].actions[i].status, to>> \in {<<"pending", "expired">>, <<"expired", "gone">>}
             /\ server' = [server EXCEPT ![b].actions[i].status = to]
    /\ UNCHANGED <<memory, disk, outside, wire, stops>>

-----------------------------------------------------------------------------
Init ==
    /\ pc = "down" /\ cur = 0 /\ seen = NoSession /\ chosen = 0
    /\ journal = <<>> /\ signed = {} /\ sent = {} /\ chain = 0
    /\ server = [b \in Batches |-> NoSession] /\ wire = {} /\ stops = 0

Client ==
    \/ Resume \/ Attached \/ Register \/ Finished
    \/ Restore \/ Start \/ Sent \/ Recognise \/ Execute \/ Repair \/ Retry \/ GiveUp \/ Fetch
    \/ Sign \/ Transact \/ Settle \/ Report \/ Confirm

Faulty == Stop \/ SentUnanswered \/ ReportUnanswered

Server ==
    \/ \E b \in Batches, i \in 0..MaxActions : Arrive(b, i)
    \/ \E b \in Batches : EndTurn(b) \/ Expire(b)

Next ==
    \/ Run \/ Client \/ Faulty
    \/ Execution \/ Server
    \/ \E b \in Batches, r \in Requests : Ask(b, r)

(* The command goes on while it can; sent transactions are executed; the   *)
(* server drops or takes what it is sent, and lets actions expire and      *)
(* turns end.  Nothing is asked of Run: a job of the portal that has       *)
(* failed waits for a person, who may retry it twice, and a command that   *)
(* died leaves operator.lock, which a person removes.                      *)
Fairness == WF_vars(Client) /\ WF_vars(Execution) /\ WF_vars(Server)

Spec == Init /\ [][Next]_vars /\ Fairness

-----------------------------------------------------------------------------
(* Properties *)

Statuses == {"pending", "expired", "gone", "submitted"}
Action == [request : Requests, status : Statuses]
Session == [turn : {None, "running", "ended"}, mismatch : BOOLEAN, actions : Seq(Action)]
Journal == [started : BOOLEAN, request : Requests \cup {None}, hash : BOOLEAN,
            repaired : BOOLEAN, attempts : 0..TurnLimit, state : {"pending", "confirmed"}]

(* Type invariant: a command past its beginning has a journal, a journal   *)
(* has counted at most the turns it allows, an action that is executed or  *)
(* reported exists in the session it belongs to, and the network has only  *)
(* what was signed.                                                        *)
TypeOK ==
    /\ pc \in {"down", "attach", "work", "begin", "start", "send", "loop", "sign",
              "transact", "wait", "report", "confirm"}
    /\ pc \notin {"down", "attach", "work"} => cur \in Journals
    /\ pc \in {"sign", "transact", "wait", "report"} => chosen \in DOMAIN server[cur].actions
    /\ seen \in Session /\ server \in [Batches -> Session]
    /\ Journals \subseteq Batches /\ \A b \in Journals : journal[b] \in Journal
    /\ signed \subseteq Batches /\ sent \subseteq signed
    /\ \A w \in wire : w[1] \in Batches /\ w[2] \in {0} \cup DOMAIN server[w[1]].actions
    /\ chain \in 0..MaxBatches /\ stops \in 0..MaxStops

(* The local signer never signs for the agent what was not asked for: a    *)
(* signed transaction has, on disk, the agent's request for it, and that   *)
(* is the authorized one with a passed simulation (saved before the signer *)
(* sees it, so no crash loses it).                                         *)
SignedIsRequested == \A b \in signed : b \in Journals /\ journal[b].request = "authorized"

(* "A lost response must not start a second execution": whatever messages, *)
(* answers and processes are lost, the agent counts at most one submission *)
(* for a batch, and a batch is confirmed only when it has exactly one and  *)
(* is on the chain.                                                        *)
Submitted(b) == {i \in DOMAIN server[b].actions : server[b].actions[i].status = "submitted"}

SubmittedOnce ==
    \A b \in Batches :
       /\ \A i, k \in Submitted(b) : i = k
       /\ b \in Confirmed => Submitted(b) # {} /\ b <= chain

(* A batch is begun only when every earlier one is confirmed: at most one  *)
(* journal is open, and it is the last one.                                *)
OneOpenJournal == \A b \in Open, i \in Journals : i <= b

(* Nothing is left to hope for: the turn has ended with nothing to sign,   *)
(* to acknowledge or to repair, and the code will not ask for another,     *)
(* either because turnAttempts, which nothing resets, is used up, or       *)
(* because the batch is executed already and the call that precedes a      *)
(* retry reverts.                                                          *)
Exhausted(b) ==
    /\ b \in Journals
    /\ server[b].turn = "ended"
    /\ \A i \in DOMAIN server[b].actions : server[b].actions[i].status \in {"gone", "submitted"}
    /\ \A i \in 0..MaxActions : <<b, i>> \notin wire
    /\ ~(journal[b].hash /\ Submitted(b) # {})
    /\ ~RepairDue(server[b], journal[b])
    /\ journal[b].attempts = TurnLimit \/ b <= chain

(* Somebody runs the command again whenever it has ended. *)
KeptRunning == []<>(pc # "down")

(* If the command is always run again, a batch that was begun is confirmed *)
(* in the end, by this run or a later one, unless the session is           *)
(* exhausted: no journal makes every later run fail, as long as the agent  *)
(* may still be asked.                                                     *)
BatchEnds ==
    KeptRunning => \A b \in Batches : b \in Journals ~> b \in Confirmed \/ Exhausted(b)

=============================================================================
