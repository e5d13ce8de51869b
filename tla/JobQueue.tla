------------------------------- MODULE JobQueue -------------------------------
(***************************************************************************)
(* The hosted portal (demo/portal/server.js): a table of jobs, worked off  *)
(* one at a time by a child process that runs the operator                 *)
(* (`run.js aomi-submit') under its lock file.                             *)
(*                                                                         *)
(* The table, the lock and the operator's files are durable.  `portal' and *)
(* `current' live in the server's memory; a child may outlive the server   *)
(* that started it.                                                        *)
(***************************************************************************)
EXTENDS Integers, Sequences, FiniteSets

CONSTANTS
    Ids,           \* job ids clients may use
    MaxOpen,       \* jobs not done; 5 in the code
    DailyLimit,    \* jobs accepted in 24 hours; 20 in the code
    MaxAttempts,   \* attempts after which a failed job is not retried; 3
    MaxStops,      \* bound: crashes and orderly stops of the server
    MaxKills,      \* bound: children killed by the timeout
    MaxFaults      \* bound: errors inside a child

ASSUME JobAssumption ==
    /\ "none" \notin Ids
    /\ MaxOpen \in Nat /\ DailyLimit \in Nat /\ MaxAttempts \in Nat \ {0}
    /\ MaxStops \in Nat /\ MaxKills \in Nat /\ MaxFaults \in Nat

VARIABLES
    jobs,       \* table jobs, in order of created, rowid
    recent,     \* how many of the newest jobs are less than 24 hours old
    portal,     \* "up", "closing" or "down"
    current,    \* the child execute() waits for; its presence is `working'
    children,   \* operator processes
    lock,       \* operator.lock exists
    recorded,   \* jobs whose request the operator's store has
    answered,   \* those whose decision is anchored as well
    exports,    \* jobs with an exports/web-<id> folder
    stops, kills, faults

operatorFiles == <<lock, recorded, answered, exports>>
bounds == <<stops, kills, faults>>
vars == <<jobs, recent, portal, current, children, operatorFiles, bounds>>

None == [job |-> "none", attempt |-> 0]

Rows(state) == {k \in DOMAIN jobs : jobs[k].state = state}

RowOf(id) == CHOOSE k \in DOMAIN jobs : jobs[k].id = id

SetState(k, state) == [jobs EXCEPT ![k].state = state]

Process(id, attempt, pc) == [of |-> [job |-> id, attempt |-> attempt], pc |-> pc]

(* A process past "boot" created the lock and will delete it. *)
Writers == {c \in children : c.pc \notin {"boot", "ok", "error"}}

-----------------------------------------------------------------------------
(* pump.  Every handler that calls it does so before anything else runs,   *)
(* so it is part of that handler: `table' is the table as the handler left *)
(* it, `alive' the processes, and nothing is being waited for.             *)

(* Mutant: a failed job does not hold up the others. *)
PumpOverFailed(table, alive) ==
    LET queued == {k \in DOMAIN table : table[k].state = "queued"}
        next   == CHOOSE k \in queued : \A o \in queued : k <= o
        id     == table[next].id
        n      == table[next].attempts + 1
    IN  IF queued = {}
        THEN jobs' = table /\ children' = alive /\ current' = None
        ELSE /\ jobs' = [table EXCEPT ![next] = [id |-> id, state |-> "running",
                                                 attempts |-> n]]
             /\ children' = alive \cup {Process(id, n, "boot")}
             /\ current' = [job |-> id, attempt |-> n]

Pump(table, alive) ==
    LET queued == {k \in DOMAIN table : table[k].state = "queued"}
        paused == \E k \in DOMAIN table : table[k].state = "failed"
        next   == CHOOSE k \in queued : \A o \in queued : k <= o
        id     == table[next].id
        n      == table[next].attempts + 1
    IN  IF paused \/ queued = {}
        THEN jobs' = table /\ children' = alive /\ current' = None
        ELSE /\ jobs' = [table EXCEPT ![next] = [id |-> id, state |-> "running",
                                                 attempts |-> n]]
             /\ children' = alive \cup {Process(id, n, "boot")}
             /\ current' = [job |-> id, attempt |-> n]

PumpIfFree(table) ==
    IF current = None
    THEN Pump(table, children)
    ELSE jobs' = table /\ UNCHANGED <<children, current>>

-----------------------------------------------------------------------------
(* Requests of clients *)

Open == Rows("queued") \cup Rows("running") \cup Rows("failed")

(* A known id answers with its job and changes nothing. *)
Post(id) ==
    /\ portal = "up"
    /\ \A k \in DOMAIN jobs : jobs[k].id # id
    /\ Cardinality(Open) < MaxOpen                           \* QUEUE_FULL
    /\ recent < DailyLimit                                   \* DAILY_REQUEST_LIMIT
    /\ recent' = recent + 1
    /\ PumpIfFree(Append(jobs, [id |-> id, state |-> "queued", attempts |-> 0]))
    /\ UNCHANGED <<portal, operatorFiles, bounds>>

(* Mutant: without RETRY_LIMIT_REACHED. *)
RetryAlways(k) ==
    /\ portal = "up"
    /\ jobs[k].state = "failed"
    /\ PumpIfFree(SetState(k, "queued"))
    /\ UNCHANGED <<recent, portal, operatorFiles, bounds>>

Retry(k) ==
    /\ portal = "up"
    /\ jobs[k].state = "failed"                              \* JOB_NOT_FAILED
    /\ jobs[k].attempts < MaxAttempts                        \* RETRY_LIMIT_REACHED
    /\ PumpIfFree(SetState(k, "queued"))
    /\ UNCHANGED <<recent, portal, operatorFiles, bounds>>

(* The oldest of the recent jobs turns 24 hours old. *)
Age ==
    /\ recent > 0 /\ recent' = recent - 1
    /\ UNCHANGED <<jobs, portal, current, children, operatorFiles, bounds>>

-----------------------------------------------------------------------------
(* execute: what becomes of the child that is waited for *)

(* The row is updated, `working' is cleared and pump is called again,      *)
(* unless the server is closing.                                           *)
Finish(child, state) ==
    LET table == SetState(RowOf(child.of.job), state)
        alive == children \ {child}
    IN  /\ current = child.of
        /\ IF portal = "up"
           THEN Pump(table, alive)
           ELSE jobs' = table /\ children' = alive /\ current' = None
        /\ UNCHANGED <<recent, portal>>

(* Mutant: the exit code is not looked at. *)
SettleBlindly(child) ==
    /\ child.pc \in {"ok", "error"}
    /\ Finish(child, "done")
    /\ UNCHANGED <<operatorFiles, bounds>>

(* A result is read from the exports of a child that exited with 0. *)
Settle(child) ==
    /\ \/ child.pc = "ok" /\ child.of.job \in exports /\ Finish(child, "done")
       \/ child.pc = "error" /\ Finish(child, "failed")
    /\ UNCHANGED <<operatorFiles, bounds>>

(* After 900 seconds execFile kills the child; it has no handler for the   *)
(* signal, so a lock it holds stays.                                       *)
TimeOut(child) ==
    /\ child.pc \notin {"ok", "error"} /\ kills < MaxKills
    /\ kills' = kills + 1
    /\ Finish(child, "failed")
    /\ UNCHANGED <<operatorFiles, stops, faults>>

-----------------------------------------------------------------------------
(* run.js aomi-submit *)

Go(child, pc) == children' = (children \ {child}) \cup {[child EXCEPT !.pc = pc]}

Portal == <<jobs, recent, portal, current>>

(* Mutant: the lock is not exclusive. *)
BootAnyway(child) ==
    /\ child.pc = "boot"
    /\ lock' = TRUE /\ Go(child, "request")
    /\ UNCHANGED <<Portal, recorded, answered, exports, bounds>>

(* The lock is created exclusively, or the process ends with an error. *)
Boot(child) ==
    /\ child.pc = "boot"
    /\ lock' = TRUE
    /\ Go(child, IF lock THEN "error" ELSE "request")
    /\ UNCHANGED <<Portal, recorded, answered, exports, bounds>>

(* Mutant: the request is not stored. *)
RequestUnsaved(child) ==
    /\ child.pc = "request"
    /\ Go(child, "cycle")
    /\ UNCHANGED <<Portal, operatorFiles, bounds>>

(* submit: the request of this job, made or found again, ...               *)
Request(child) ==
    /\ child.pc = "request"
    /\ recorded' = recorded \cup {child.of.job}
    /\ Go(child, "cycle")
    /\ UNCHANGED <<Portal, lock, answered, exports, bounds>>

(* ... a cycle, which anchors and decides everything recorded, ...         *)
Cycle(child) ==
    /\ child.pc = "cycle"
    /\ answered' = recorded
    /\ Go(child, "export")
    /\ UNCHANGED <<Portal, lock, recorded, exports, bounds>>

(* ... and the evidence of this job.                                       *)
Export(child) ==
    /\ child.pc = "export"
    /\ exports' = exports \cup {child.of.job}
    /\ Go(child, "close ok")
    /\ UNCHANGED <<Portal, lock, recorded, answered, bounds>>

Fault(child) ==
    /\ child.pc \in {"request", "cycle", "export"} /\ faults < MaxFaults
    /\ faults' = faults + 1
    /\ Go(child, "close error")
    /\ UNCHANGED <<Portal, operatorFiles, stops, kills>>

(* finally: the lock is deleted.  Nobody waits for an orphan. *)
Exit(child) ==
    /\ child.pc \in {"close ok", "close error"}
    /\ lock' = FALSE
    /\ IF current = child.of
       THEN Go(child, IF child.pc = "close ok" THEN "ok" ELSE "error")
       ELSE children' = children \ {child}
    /\ UNCHANGED <<Portal, recorded, answered, exports, bounds>>

(* Outside the code: somebody deletes the lock of a process that is gone. *)
ClearLock ==
    /\ lock /\ Writers = {}
    /\ lock' = FALSE
    /\ UNCHANGED <<Portal, children, recorded, answered, exports, bounds>>

-----------------------------------------------------------------------------
(* The life of the server *)

(* close(): no new requests, no pump; the child is waited for. *)
Close ==
    /\ portal = "up" /\ stops < MaxStops
    /\ stops' = stops + 1
    /\ portal' = "closing"
    /\ UNCHANGED <<jobs, recent, current, children, operatorFiles, kills, faults>>

Closed ==
    /\ portal = "closing" /\ current = None
    /\ portal' = "down"
    /\ UNCHANGED <<jobs, recent, current, children, operatorFiles, bounds>>

(* The server dies; its child goes on, or dies with it. *)
Crash ==
    /\ portal # "down" /\ stops < MaxStops
    /\ stops' = stops + 1
    /\ portal' = "down"
    /\ current' = None
    /\ \/ children' = {c \in children : c.pc \notin {"ok", "error"}}
       \/ children' = {}
    /\ UNCHANGED <<jobs, recent, operatorFiles, kills, faults>>

(* Mutant: jobs that were running stay so. *)
RestartAsIs ==
    /\ portal = "down"
    /\ portal' = "up"
    /\ Pump(jobs, children)
    /\ UNCHANGED <<recent, operatorFiles, bounds>>

(* Jobs that were running are queued again; the server listens and pumps. *)
Restart ==
    /\ portal = "down"
    /\ portal' = "up"
    /\ Pump([k \in DOMAIN jobs |->
               [jobs[k] EXCEPT !.state = IF @ = "running" THEN "queued" ELSE @]],
            children)
    /\ UNCHANGED <<recent, operatorFiles, bounds>>

-----------------------------------------------------------------------------
Init ==
    /\ jobs = <<>> /\ recent = 0
    /\ portal = "down" /\ current = None /\ children = {}
    /\ lock = FALSE /\ recorded = {} /\ answered = {} /\ exports = {}
    /\ stops = 0 /\ kills = 0 /\ faults = 0

Work == \E c \in children : Boot(c) \/ Request(c) \/ Cycle(c) \/ Export(c) \/ Exit(c)

Settled == \E c \in children : Settle(c)

Retried == \E k \in DOMAIN jobs : Retry(k)

Next ==
    \/ \E id \in Ids : Post(id)
    \/ Retried \/ Age
    \/ Work \/ Settled
    \/ \E c \in children : TimeOut(c) \/ Fault(c)
    \/ ClearLock
    \/ Close \/ Closed \/ Crash \/ Restart

Spec == Init /\ [][Next]_vars

(* Processes run on, a stopped server is started again, and people do what *)
(* is needed: retry a failed job, as the portal offers, and remove a dead  *)
(* lock, of which the portal says nothing.                                 *)
FairSpec ==
    /\ Spec
    /\ \A id \in Ids, n \in 1..(MaxAttempts + MaxStops) :
          WF_vars(\E c \in children : /\ c.of = [job |-> id, attempt |-> n]
                                      /\ Boot(c) \/ Request(c) \/ Cycle(c) \/ Export(c) \/ Exit(c))
    /\ WF_vars(Settled) /\ WF_vars(Closed) /\ WF_vars(Restart)
    /\ WF_vars(Retried) /\ WF_vars(ClearLock)

-----------------------------------------------------------------------------
(* Types, and what the operator's files say of each other *)

States == {"queued", "running", "done", "failed"}
Waited == [job : Ids, attempt : Nat \ {0}]

JobTypeOK ==
    /\ jobs \in Seq([id : Ids, state : States, attempts : Nat])
    /\ recent \in 0..Len(jobs)
    /\ portal \in {"up", "closing", "down"}
    /\ current \in Waited \cup {None}
    /\ children \subseteq [of : Waited,
                           pc : {"boot", "request", "cycle", "export",
                                 "close ok", "close error", "ok", "error"}]
    /\ lock \in BOOLEAN
    /\ exports \subseteq answered /\ answered \subseteq recorded /\ recorded \subseteq Ids

-----------------------------------------------------------------------------
(* Safety *)

(* "One worker": however servers and children come and go, at most one     *)
(* process writes the operator's directory, and its lock stands.           *)
OneWriter ==
    /\ \A c, d \in Writers : c = d
    /\ Writers # {} => lock

(* Jobs are worked off in the order in which they were accepted, across    *)
(* failures, retries and restarts: what is done is a prefix.               *)
DoneInOrder ==
    \A i, k \in DOMAIN jobs : i < k /\ jobs[k].state = "done" => jobs[i].state = "done"

(* The table and the memory of the server agree on the job in progress. *)
OneRunning ==
    portal # "down" =>
        \A k \in DOMAIN jobs :
            jobs[k].state = "running" <=>
                current = [job |-> jobs[k].id, attempt |-> jobs[k].attempts]

(* A client told "done" can download evidence of an anchored decision. *)
DoneIsAnswered ==
    \A k \in DOMAIN jobs : jobs[k].state = "done" => jobs[k].id \in exports \cap answered

(* Retries are limited; only a restart of the server adds to them. *)
AttemptsBounded ==
    \A k \in DOMAIN jobs : jobs[k].attempts <= MaxAttempts + stops

-----------------------------------------------------------------------------
(* Liveness *)

Exhausted == \E k \in Rows("failed") : jobs[k].attempts >= MaxAttempts

(* An accepted job is done one day, unless the queue is paused for good by *)
(* a job that used up its retries.                                         *)
JobsEnd ==
    \A id \in Ids :
        (\E k \in DOMAIN jobs : jobs[k].id = id)
            ~> (Exhausted \/ \E k \in Rows("done") : jobs[k].id = id)
=============================================================================
