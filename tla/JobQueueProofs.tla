--------------------------- MODULE JobQueueProofs ----------------------------
(***************************************************************************)
(* Proofs about JobQueue, for any number of jobs, any limits and any       *)
(* number of crashes, killed children and errors.                          *)
(***************************************************************************)
EXTENDS JobQueue, NumberFacts, TLAPS

-----------------------------------------------------------------------------
(* The inductive invariant *)

Row == [id : Ids, state : States, attempts : Nat]
Pcs == {"boot", "request", "cycle", "export", "close ok", "close error", "ok", "error"}
Child == [of : Waited, pc : Pcs]

TypeInv ==
    /\ jobs \in Seq(Row)
    /\ recent \in 0..Len(jobs)
    /\ portal \in {"up", "closing", "down"}
    /\ current \in Waited \cup {None}
    /\ children \subseteq Child
    /\ lock \in BOOLEAN
    /\ exports \subseteq Ids /\ answered \subseteq Ids /\ recorded \subseteq Ids
    /\ stops \in Nat

(* What is said of the table alone: ids are a primary key, and all rows    *)
(* before one that left the queue are done.                                *)
TableOK(table) ==
    /\ table \in Seq(Row)
    /\ \A i, k \in DOMAIN table : table[i].id = table[k].id => i = k
    /\ \A i, k \in DOMAIN table :
          i < k /\ table[k].state # "queued" => table[i].state = "done"

(* The row of the child that is waited for. *)
InProgress(k) == current = [job |-> jobs[k].id, attempt |-> jobs[k].attempts]

(* A server that is down waits for nobody; one that is not knows the row   *)
(* that is running, and waits for a child of a row.                        *)
MemoryOK ==
    /\ portal = "down" => current = None
    /\ OneRunning
    /\ current # None => \E k \in DOMAIN jobs : InProgress(k)

(* A child past a step has left the file of that step. *)
FilesOK ==
    /\ exports \subseteq answered /\ answered \subseteq recorded
    /\ \A c \in children :
          /\ c.pc = "cycle" => c.of.job \in recorded
          /\ c.pc = "export" => c.of.job \in answered
    /\ DoneIsAnswered

(* Every restart pays for the attempt it puts back in the queue. *)
AttemptsOK ==
    \A k \in DOMAIN jobs :
        /\ jobs[k].attempts <= MaxAttempts + stops
        /\ jobs[k].state = "queued" \/ (jobs[k].state = "running" /\ portal = "down")
              => jobs[k].attempts < MaxAttempts + stops

QueueInv == TypeInv /\ TableOK(jobs) /\ MemoryOK /\ FilesOK /\ AttemptsOK /\ OneWriter

-----------------------------------------------------------------------------
(* What pump does *)

(* With no row in progress, pump starts the first queued row and nothing   *)
(* else, or leaves everything as it found it.                              *)
Started(table, alive, k) ==
    /\ k \in DOMAIN table
    /\ table[k].state = "queued"
    /\ \A i \in DOMAIN table : i < k => table[i].state # "queued"
    /\ \A i \in DOMAIN table : table[i].state # "failed"
    /\ jobs' = [table EXCEPT ![k] = [id |-> table[k].id, state |-> "running",
                                     attempts |-> table[k].attempts + 1]]
    /\ children' = alive \cup {Process(table[k].id, table[k].attempts + 1, "boot")}
    /\ current' = [job |-> table[k].id, attempt |-> table[k].attempts + 1]

LEMMA PumpEffect ==
    ASSUME NEW table, TableOK(table), NEW alive, Pump(table, alive)
    PROVE  \/ jobs' = table /\ children' = alive /\ current' = None
           \/ \E k \in DOMAIN table : Started(table, alive, k)
<1> DEFINE queued == {k \in DOMAIN table : table[k].state = "queued"}
           next == CHOOSE k \in queued : \A o \in queued : k <= o
<1>1. CASE queued = {} \/ \E k \in DOMAIN table : table[k].state = "failed"
  BY <1>1 DEF Pump
<1>2. CASE queued # {} /\ ~\E k \in DOMAIN table : table[k].state = "failed"
  <2>1. table \in Seq(Row) /\ Len(table) \in Nat /\ DOMAIN table = 1..Len(table)
    BY DEF TableOK
  <2>2. queued \in SUBSET Nat
    BY <2>1
  <2>3. \E k \in queued : \A o \in queued : k <= o
    BY <1>2, <2>2, LeastOf
  <2>4. next \in queued /\ \A o \in queued : next <= o
    BY <2>3
  <2>5. /\ jobs' = [table EXCEPT ![next] = [id |-> table[next].id, state |-> "running",
                                            attempts |-> table[next].attempts + 1]]
        /\ children' = alive \cup {Process(table[next].id, table[next].attempts + 1, "boot")}
        /\ current' = [job |-> table[next].id, attempt |-> table[next].attempts + 1]
    BY <1>2 DEF Pump
  <2> HIDE DEF next
  <2>6. \A i \in DOMAIN table : i < next => table[i].state # "queued"
    BY <2>1, <2>4
  <2>7. Started(table, alive, next)
    BY <1>2, <2>4, <2>5, <2>6 DEF Started
  <2> QED
    BY <2>4, <2>7
<1> QED
  BY <1>1, <1>2

(* A table pump may be called with. *)
TableReady(table) ==
    /\ TableOK(table)
    /\ \A k \in DOMAIN table :
          /\ table[k].state # "running"
          /\ table[k].attempts <= MaxAttempts + stops
          /\ table[k].state = "queued" => table[k].attempts < MaxAttempts + stops
          /\ table[k].state = "done" => table[k].id \in exports \cap answered

LEMMA PumpStep ==
    ASSUME QueueInv, NEW table, TableReady(table), NEW alive \in SUBSET children,
           Pump(table, alive), portal' = "up", recent' \in 0..Len(table),
           UNCHANGED <<operatorFiles, stops>>
    PROVE  QueueInv'
<1> USE JobAssumption
<1>1. /\ table \in Seq(Row) /\ Len(table) \in Nat /\ DOMAIN table = 1..Len(table)
      /\ \A k \in DOMAIN table : table[k] \in Row
      /\ stops \in Nat
  BY DEF TableReady, TableOK, QueueInv, TypeInv
<1>2. UNCHANGED <<lock, recorded, answered, exports, stops>>
  BY DEF operatorFiles
<1>3. CASE jobs' = table /\ children' = alive /\ current' = None
  <2>1. TypeInv'
    BY <1>1, <1>2, <1>3 DEF QueueInv, TypeInv
  <2>2. TableOK(jobs')
    BY <1>3 DEF TableReady
  <2>3. MemoryOK'
    <3>1. \A k \in DOMAIN table : [job |-> table[k].id, attempt |-> table[k].attempts] # None
      BY <1>1 DEF None, Row
    <3> QED
      BY <1>3, <3>1 DEF MemoryOK, OneRunning, TableReady
  <2>4. FilesOK'
    BY <1>2, <1>3 DEF QueueInv, FilesOK, DoneIsAnswered, TableReady
  <2>5. AttemptsOK'
    BY <1>2, <1>3 DEF AttemptsOK, TableReady
  <2>6. OneWriter'
    BY <1>2, <1>3 DEF QueueInv, OneWriter, Writers
  <2> QED
    BY <2>1, <2>2, <2>3, <2>4, <2>5, <2>6 DEF QueueInv
<1>4. ASSUME NEW k \in DOMAIN table, Started(table, alive, k) PROVE QueueInv'
  <2> DEFINE n == table[k].attempts + 1
             row == [id |-> table[k].id, state |-> "running", attempts |-> n]
             child == [of |-> [job |-> table[k].id, attempt |-> n], pc |-> "boot"]
  <2>1. row \in Row /\ child \in Child /\ n \in Nat \ {0}
    BY <1>1 DEF Row, Child, Waited, States, Pcs
  <2>2. jobs' = [table EXCEPT ![k] = row] /\ children' = alive \cup {child}
        /\ current' = child.of
    BY <1>4 DEF Started, Process
  <2>3. /\ DOMAIN jobs' = DOMAIN table /\ jobs'[k] = row
        /\ \A i \in DOMAIN table : i # k => jobs'[i] = table[i]
    BY <1>1, <2>2
  <2>4. jobs' \in Seq(Row) /\ Len(jobs') = Len(table)
    BY <1>1, <2>1, <2>2
  <2>5. TypeInv'
    BY <1>2, <2>1, <2>2, <2>4 DEF QueueInv, TypeInv, Child
  <2>6. TableOK(jobs')
    <3>1. \A i, j \in DOMAIN table : table[i].id = table[j].id => i = j
      BY DEF TableReady, TableOK
    <3>2. \A i \in DOMAIN table : i < k => table[i].state = "done"
      <4> SUFFICES ASSUME NEW i \in DOMAIN table, i < k PROVE table[i].state = "done"
        OBVIOUS
      <4>1. table[i].state \in States
        BY <1>1 DEF Row
      <4> QED
        BY <1>4, <4>1 DEF Started, TableReady, States
    <3>3. \A i, j \in DOMAIN table : i < j /\ table[j].state # "queued" => table[i].state = "done"
      BY DEF TableReady, TableOK
    <3>4. table[k].state = "queued"
      BY <1>4 DEF Started
    <3>5. \A i, j \in DOMAIN jobs' : i < j /\ jobs'[j].state # "queued" => jobs'[i].state = "done"
      BY <1>1, <2>3, <3>2, <3>3, <3>4
    <3> QED
      BY <2>3, <2>4, <3>1, <3>5 DEF TableOK
  <2>7. MemoryOK'
    <3>1. \A i \in DOMAIN jobs' : jobs'[i].state = "running" <=>
                current' = [job |-> jobs'[i].id, attempt |-> jobs'[i].attempts]
      BY <2>2, <2>3 DEF TableReady, TableOK
    <3> QED
      BY <2>2, <2>3, <3>1 DEF MemoryOK, OneRunning, InProgress
  <2>8. FilesOK'
    <3>1. DoneIsAnswered'
      BY <1>2, <2>3 DEF DoneIsAnswered, TableReady
    <3> QED
      BY <1>2, <2>2, <3>1 DEF QueueInv, FilesOK
  <2>9. AttemptsOK'
    BY SMTT(30), <1>1, <1>2, <1>4, <2>3 DEF AttemptsOK, TableReady, Started, Row
  <2>10. OneWriter'
    <3>1. Writers' \subseteq Writers
      BY <2>2 DEF Writers
    <3> QED
      BY <1>2, <3>1 DEF QueueInv, OneWriter
  <2> QED
    BY <2>5, <2>6, <2>7, <2>8, <2>9, <2>10 DEF QueueInv
<1> QED
  BY <1>3, <1>4, PumpEffect DEF TableReady

-----------------------------------------------------------------------------
(* Every action keeps the invariant *)

LEMMA RowTypes ==
    ASSUME QueueInv
    PROVE  /\ Len(jobs) \in Nat /\ DOMAIN jobs = 1..Len(jobs)
           /\ \A k \in DOMAIN jobs : jobs[k] \in Row
BY DEF QueueInv, TypeInv

(* While nobody is waited for, no row is in progress. *)
LEMMA FreeTable ==
    ASSUME QueueInv, current = None, portal # "down"
    PROVE  TableReady(jobs)
<1>1. \A k \in DOMAIN jobs : jobs[k].state # "running"
  <2> SUFFICES ASSUME NEW k \in DOMAIN jobs, jobs[k].state = "running" PROVE FALSE
    OBVIOUS
  <2>1. current = [job |-> jobs[k].id, attempt |-> jobs[k].attempts]
    BY DEF QueueInv, MemoryOK, OneRunning
  <2>2. jobs[k].id \in Ids
    BY RowTypes DEF Row
  <2> QED
    BY <2>1, <2>2, JobAssumption DEF None
<1> QED
  BY <1>1 DEF QueueInv, TableReady, AttemptsOK, FilesOK, DoneIsAnswered

(* The row of the child that is waited for, and no other, is in progress.  *)
LEMMA CurrentRow ==
    ASSUME QueueInv, NEW child \in children, current = child.of
    PROVE  /\ portal # "down"
           /\ RowOf(child.of.job) \in DOMAIN jobs
           /\ jobs[RowOf(child.of.job)].id = child.of.job
           /\ jobs[RowOf(child.of.job)].state = "running"
           /\ \A k \in DOMAIN jobs : jobs[k].state = "running" => k = RowOf(child.of.job)
<1>1. child.of \in Waited
  BY DEF QueueInv, TypeInv, Child
<1>2. current # None
  BY <1>1 DEF Waited, None
<1>3. PICK k \in DOMAIN jobs : InProgress(k)
  BY <1>2 DEF QueueInv, MemoryOK
<1>4. jobs[k].id = child.of.job
  BY <1>3 DEF InProgress
<1>5. jobs[RowOf(child.of.job)].id = child.of.job /\ RowOf(child.of.job) \in DOMAIN jobs
  BY <1>4 DEF RowOf
<1>6. RowOf(child.of.job) = k
  BY <1>4, <1>5 DEF QueueInv, TableOK
<1>7. portal # "down"
  BY <1>2 DEF QueueInv, MemoryOK
<1>8. jobs[k].state = "running"
  BY <1>3, <1>7 DEF InProgress, QueueInv, MemoryOK, OneRunning
<1>9. \A i \in DOMAIN jobs : jobs[i].state = "running" => i = k
  BY <1>3, <1>7 DEF InProgress, QueueInv, MemoryOK, OneRunning, TableOK
<1> QED
  BY <1>5, <1>6, <1>7, <1>8, <1>9

(* A row leaves the queue, or comes back to it, where all before it are    *)
(* done.                                                                   *)
LEMMA StateSet ==
    ASSUME QueueInv, NEW k \in DOMAIN jobs, jobs[k].state # "queued", NEW state \in States,
           state # "done" => jobs[k].state # "done"
    PROVE  /\ SetState(k, state) \in Seq(Row)
           /\ Len(SetState(k, state)) = Len(jobs)
           /\ DOMAIN SetState(k, state) = DOMAIN jobs
           /\ SetState(k, state)[k] = [id |-> jobs[k].id, state |-> state,
                                       attempts |-> jobs[k].attempts]
           /\ \A i \in DOMAIN jobs : i # k => SetState(k, state)[i] = jobs[i]
           /\ TableOK(SetState(k, state))
<1> DEFINE row == [id |-> jobs[k].id, state |-> state, attempts |-> jobs[k].attempts]
           table == SetState(k, state)
<1>1. /\ jobs \in Seq(Row) /\ Len(jobs) \in Nat /\ DOMAIN jobs = 1..Len(jobs)
      /\ \A i \in DOMAIN jobs : jobs[i] \in Row
  BY RowTypes DEF QueueInv, TypeInv
<1>2. row \in Row /\ row = [jobs[k] EXCEPT !.state = state]
  BY <1>1 DEF Row
<1>3. table = [jobs EXCEPT ![k] = row]
  BY <1>2 DEF SetState
<1>4. table \in Seq(Row) /\ Len(table) = Len(jobs) /\ DOMAIN table = DOMAIN jobs
  BY <1>1, <1>2, <1>3
<1>5. table[k] = row /\ \A i \in DOMAIN jobs : i # k => table[i] = jobs[i]
  BY <1>1, <1>3
<1>6. \A i, j \in DOMAIN jobs : i < j /\ jobs[j].state # "queued" => jobs[i].state = "done"
  BY DEF QueueInv, TableOK
<1>7. \A i, j \in DOMAIN jobs : jobs[i].id = jobs[j].id => i = j
  BY DEF QueueInv, TableOK
<1>8. \A j \in DOMAIN jobs : k < j /\ jobs[j].state # "queued" => state = "done"
  BY <1>6
<1> HIDE DEF table
<1>9. TableOK(table)
  BY <1>1, <1>4, <1>5, <1>6, <1>7, <1>8 DEF TableOK
<1> QED
  BY <1>4, <1>5, <1>9 DEF table

LEMMA FinishStep ==
    ASSUME QueueInv, NEW child \in children, NEW state \in {"done", "failed"},
           state = "done" => child.of.job \in exports,
           Finish(child, state), UNCHANGED <<operatorFiles, stops>>
    PROVE  QueueInv'
<1> DEFINE k == RowOf(child.of.job)
           table == SetState(k, state)
           alive == children \ {child}
<1>1. /\ portal # "down" /\ k \in DOMAIN jobs /\ jobs[k].id = child.of.job
      /\ jobs[k].state = "running"
      /\ \A i \in DOMAIN jobs : jobs[i].state = "running" => i = k
  BY CurrentRow DEF Finish
<1>2. state \in States
  BY DEF States
<1>3. /\ table \in Seq(Row) /\ Len(table) = Len(jobs) /\ DOMAIN table = DOMAIN jobs
      /\ table[k] = [id |-> jobs[k].id, state |-> state, attempts |-> jobs[k].attempts]
      /\ \A i \in DOMAIN jobs : i # k => table[i] = jobs[i]
      /\ TableOK(table)
  BY <1>1, <1>2, StateSet
<1>4. UNCHANGED <<recent, portal, lock, recorded, answered, exports, stops>>
  BY DEF Finish, operatorFiles
<1> HIDE DEF k, table
<1>5. TableReady(table)
  BY <1>1, <1>3 DEF TableReady, QueueInv, AttemptsOK, FilesOK, DoneIsAnswered
<1>6. CASE portal = "up"
  <2>1. Pump(table, alive) /\ portal' = "up"
    BY <1>6 DEF Finish, k, table
  <2>2. recent' \in 0..Len(table)
    BY <1>3, <1>4 DEF QueueInv, TypeInv
  <2>3. alive \in SUBSET children
    OBVIOUS
  <2> HIDE DEF alive
  <2> QED
    BY <1>5, <2>1, <2>2, <2>3, PumpStep
<1>7. CASE portal # "up"
  <2>1. jobs' = table /\ children' = alive /\ current' = None
    BY <1>7 DEF Finish, k, table
  <2>2. TypeInv'
    BY <1>3, <1>4, <2>1 DEF QueueInv, TypeInv
  <2>3. MemoryOK'
    <3>1. \A i \in DOMAIN table : [job |-> table[i].id, attempt |-> table[i].attempts] # None
      BY <1>3, RowTypes, JobAssumption DEF None, Row, TableOK
    <3> QED
      BY <1>5, <2>1, <3>1 DEF MemoryOK, OneRunning, TableReady
  <2>4. FilesOK'
    BY <1>4, <1>5, <2>1 DEF QueueInv, FilesOK, DoneIsAnswered, TableReady
  <2>5. AttemptsOK'
    BY <1>4, <1>5, <2>1 DEF AttemptsOK, TableReady
  <2>6. OneWriter'
    BY <1>4, <2>1 DEF QueueInv, OneWriter, Writers
  <2> QED
    BY <1>3, <2>1, <2>2, <2>3, <2>4, <2>5, <2>6 DEF QueueInv
<1> QED
  BY <1>6, <1>7

(* A child takes a step of its own. *)
LEMMA WorkStep ==
    ASSUME QueueInv, NEW child \in children,
           Boot(child) \/ Request(child) \/ Cycle(child) \/ Export(child) \/ Exit(child)
              \/ Fault(child)
    PROVE  QueueInv'
<1>1. UNCHANGED <<jobs, recent, portal, current, stops>>
  BY Zenon DEF Boot, Request, Cycle, Export, Exit, Fault, Portal, bounds
<1>2. child \in Child /\ child.of.job \in Ids /\ children \subseteq Child
  BY DEF QueueInv, TypeInv, Child, Waited
<1>3. \A pc \in Pcs : [child EXCEPT !.pc = pc] \in Child
  BY <1>2 DEF Child
<1>4. TableOK(jobs') /\ MemoryOK' /\ AttemptsOK'
  <2>1. OneRunning'
    BY <1>1 DEF QueueInv, MemoryOK, OneRunning
  <2> QED
    BY <1>1, <2>1 DEF QueueInv, MemoryOK, AttemptsOK, InProgress
<1>5. child.pc \notin {"boot", "ok", "error"} => lock /\ Writers = {child}
  BY DEF QueueInv, OneWriter, Writers
<1>6. CASE Boot(child)
  <2>1. /\ lock' = TRUE /\ UNCHANGED <<recorded, answered, exports>>
        /\ \/ lock /\ children' = (children \ {child}) \cup {[child EXCEPT !.pc = "error"]}
           \/ ~lock /\ children' = (children \ {child}) \cup {[child EXCEPT !.pc = "request"]}
    BY <1>6 DEF Boot, Go, QueueInv, TypeInv
  <2>2. TypeInv'
    BY Zenon, <1>1, <1>2, <1>3, <2>1 DEF QueueInv, TypeInv, Pcs
  <2>3. FilesOK'
    BY <1>1, <1>2, <2>1 DEF QueueInv, FilesOK, DoneIsAnswered, Child
  <2>4. OneWriter'
    <3>1. CASE lock
      <4>1. Writers' \subseteq Writers
        BY <1>2, <2>1, <3>1 DEF Writers, Child
      <4> QED
        BY <2>1, <4>1 DEF QueueInv, OneWriter
    <3>2. CASE ~lock
      <4>1. Writers = {}
        BY <3>2 DEF QueueInv, OneWriter
      <4>2. Writers' \subseteq {[child EXCEPT !.pc = "request"]}
        BY <2>1, <3>2, <4>1 DEF Writers
      <4> QED
        BY <2>1, <4>2 DEF OneWriter
    <3> QED
      BY <3>1, <3>2
  <2> QED
    BY <1>4, <2>2, <2>3, <2>4 DEF QueueInv
<1>7. CASE Request(child) \/ Cycle(child) \/ Export(child) \/ Fault(child)
  <2>1. child.pc \in {"request", "cycle", "export"} /\ UNCHANGED lock
    BY Zenon, <1>7 DEF Request, Cycle, Export, Fault, operatorFiles
  <2>2. PICK pc \in {"cycle", "export", "close ok", "close error"} :
            /\ children' = (children \ {child}) \cup {[child EXCEPT !.pc = pc]}
            /\ pc = "cycle" => child.of.job \in recorded'
            /\ pc = "export" => child.of.job \in answered'
    BY Zenon, <1>7 DEF Request, Cycle, Export, Fault, Go, operatorFiles, QueueInv, FilesOK
  <2>3. /\ recorded' \subseteq Ids /\ answered' \subseteq Ids /\ exports' \subseteq Ids
        /\ recorded \subseteq recorded' /\ answered \subseteq answered' /\ exports \subseteq exports'
        /\ exports' \subseteq answered' /\ answered' \subseteq recorded'
    BY Zenon, <1>2, <1>7 DEF Request, Cycle, Export, Fault, operatorFiles, QueueInv, FilesOK, TypeInv
  <2>4. TypeInv'
    BY Zenon, <1>1, <1>2, <1>3, <2>1, <2>2, <2>3 DEF QueueInv, TypeInv, Pcs
  <2>5. FilesOK'
    BY Zenon, <1>1, <1>2, <2>2, <2>3 DEF QueueInv, FilesOK, DoneIsAnswered, Child
  <2>6. OneWriter'
    <3>1. Writers' \subseteq {[child EXCEPT !.pc = pc]}
      BY Zenon, <1>5, <2>1, <2>2 DEF Writers
    <3> QED
      BY Zenon, <1>5, <2>1, <3>1 DEF OneWriter
  <2> QED
    BY Zenon, <1>4, <2>4, <2>5, <2>6 DEF QueueInv
<1>8. CASE Exit(child)
  <2>1. /\ child.pc \in {"close ok", "close error"} /\ lock' = FALSE
        /\ UNCHANGED <<recorded, answered, exports>>
        /\ \/ children' = (children \ {child}) \cup {[child EXCEPT !.pc = "ok"]}
           \/ children' = (children \ {child}) \cup {[child EXCEPT !.pc = "error"]}
           \/ children' = children \ {child}
    BY Zenon, <1>8 DEF Exit, Go
  <2>2. TypeInv'
    BY Zenon, <1>1, <1>2, <1>3, <2>1 DEF QueueInv, TypeInv, Pcs
  <2>3. FilesOK'
    BY Zenon, <1>1, <1>2, <2>1 DEF QueueInv, FilesOK, DoneIsAnswered, Child
  <2>4. Writers' = {}
    BY Zenon, <1>2, <1>5, <2>1 DEF Writers, Child
  <2> QED
    BY Zenon, <1>4, <2>1, <2>2, <2>3, <2>4 DEF QueueInv, OneWriter
<1> QED
  BY <1>6, <1>7, <1>8

(* A handler that changes the table and pumps only if nobody is waited for. *)
LEMMA TableStep ==
    ASSUME QueueInv, NEW table, portal = "up", portal' = "up", PumpIfFree(table),
           TableOK(table), recent' \in 0..Len(table),
           UNCHANGED <<operatorFiles, stops>>,
           DOMAIN jobs \subseteq DOMAIN table,
           \A k \in DOMAIN table :
              \/ k \in DOMAIN jobs /\ table[k] = jobs[k]
              \/ /\ table[k].state = "queued" /\ table[k].attempts < MaxAttempts
                 /\ k \in DOMAIN jobs => jobs[k].state = "failed" /\ table[k].id = jobs[k].id
                                           /\ table[k].attempts = jobs[k].attempts
                 /\ k \notin DOMAIN jobs => table[k].attempts = 0
    PROVE  QueueInv'
<1>1. /\ table \in Seq(Row) /\ Len(table) \in Nat /\ DOMAIN table = 1..Len(table)
      /\ \A k \in DOMAIN table : table[k] \in Row
      /\ stops \in Nat /\ MaxAttempts \in Nat
  BY JobAssumption DEF TableOK, QueueInv, TypeInv
<1>2. CASE current = None
  <2>1. TableReady(jobs)
    BY <1>2, FreeTable
  <2>2. TableReady(table)
    BY SMTT(30), <1>1, <2>1 DEF TableReady, Row
  <2>3. Pump(table, children)
    BY <1>2 DEF PumpIfFree
  <2> QED
    BY <2>2, <2>3, PumpStep
<1>3. CASE current # None
  <2>1. jobs' = table /\ UNCHANGED <<children, current, lock, recorded, answered, exports, stops>>
    BY <1>3 DEF PumpIfFree, operatorFiles
  <2>2. TypeInv'
    BY <1>1, <2>1 DEF QueueInv, TypeInv
  <2>3. MemoryOK'
    <3>1. PICK c \in DOMAIN jobs : InProgress(c)
      BY <1>3 DEF QueueInv, MemoryOK
    <3>2. jobs[c].state = "running"
      BY <3>1 DEF InProgress, QueueInv, MemoryOK, OneRunning
    <3>3. c \in DOMAIN table /\ table[c] = jobs[c]
      BY <3>2
    <3>4. \A k \in DOMAIN table :
             table[k].state = "running" <=> current = [job |-> table[k].id, attempt |-> table[k].attempts]
      <4> SUFFICES ASSUME NEW k \in DOMAIN table
                   PROVE  table[k].state = "running" <=>
                            current = [job |-> table[k].id, attempt |-> table[k].attempts]
        OBVIOUS
      <4>1. CASE k \in DOMAIN jobs /\ table[k] = jobs[k]
        BY <4>1 DEF QueueInv, MemoryOK, OneRunning
      <4>2. CASE table[k].state = "queued" /\ k # c
        <5>1. table[k].id # table[c].id
          BY <3>3, <4>2 DEF TableOK
        <5> QED
          BY <3>1, <3>3, <4>2, <5>1 DEF InProgress
      <4> QED
        BY <3>2, <3>3, <4>1, <4>2
    <3> QED
      BY <1>3, <2>1, <3>1, <3>3, <3>4 DEF MemoryOK, OneRunning, InProgress
  <2>4. FilesOK'
    BY <2>1 DEF QueueInv, FilesOK, DoneIsAnswered
  <2>5. AttemptsOK'
    BY <1>1, <2>1 DEF QueueInv, AttemptsOK, Row
  <2>6. OneWriter'
    BY <2>1 DEF QueueInv, OneWriter, Writers
  <2> QED
    BY <2>1, <2>2, <2>3, <2>4, <2>5, <2>6 DEF QueueInv
<1> QED
  BY <1>2, <1>3

LEMMA PostStep ==
    ASSUME QueueInv, NEW id \in Ids, Post(id)
    PROVE  QueueInv'
<1> DEFINE row == [id |-> id, state |-> "queued", attempts |-> 0]
           table == Append(jobs, row)
<1>1. /\ jobs \in Seq(Row) /\ Len(jobs) \in Nat /\ DOMAIN jobs = 1..Len(jobs)
      /\ recent \in 0..Len(jobs) /\ row \in Row
  BY RowTypes DEF QueueInv, TypeInv, Row, States
<1>2. /\ table \in Seq(Row) /\ Len(table) = Len(jobs) + 1 /\ DOMAIN table = 1..(Len(jobs) + 1)
      /\ table[Len(jobs) + 1] = row
      /\ \A k \in DOMAIN jobs : table[k] = jobs[k]
  BY <1>1
<1>3. \A k \in DOMAIN jobs : jobs[k].id # id
  BY DEF Post
<1> HIDE DEF table
<1>4. TableOK(table)
  BY <1>1, <1>2, <1>3 DEF QueueInv, TableOK
<1>5. recent' \in 0..Len(table)
  BY <1>1, <1>2 DEF Post
<1>6. PumpIfFree(table) /\ portal = "up" /\ portal' = "up" /\ UNCHANGED <<operatorFiles, stops>>
  BY DEF Post, bounds, table
<1> QED
  BY <1>1, <1>2, <1>4, <1>5, <1>6, TableStep, JobAssumption

LEMMA RetryStep ==
    ASSUME QueueInv, NEW k \in DOMAIN jobs, Retry(k)
    PROVE  QueueInv'
<1> DEFINE table == SetState(k, "queued")
<1>1. jobs[k].state = "failed" /\ jobs[k].attempts < MaxAttempts
  BY DEF Retry
<1>2. /\ Len(table) = Len(jobs) /\ DOMAIN table = DOMAIN jobs
      /\ table[k] = [id |-> jobs[k].id, state |-> "queued", attempts |-> jobs[k].attempts]
      /\ \A i \in DOMAIN jobs : i # k => table[i] = jobs[i]
      /\ TableOK(table)
  BY <1>1, StateSet DEF States
<1>3. PumpIfFree(table) /\ portal = "up" /\ portal' = "up" /\ UNCHANGED <<operatorFiles, stops>>
  BY DEF Retry, bounds
<1> HIDE DEF table
<1>4. recent' \in 0..Len(table)
  BY <1>2 DEF Retry, QueueInv, TypeInv
<1> QED
  BY <1>1, <1>2, <1>3, <1>4, TableStep

LEMMA RestartStep ==
    ASSUME QueueInv, Restart
    PROVE  QueueInv'
<1> DEFINE table == [k \in DOMAIN jobs |->
                       [jobs[k] EXCEPT !.state = IF @ = "running" THEN "queued" ELSE @]]
<1>1. /\ Len(jobs) \in Nat /\ DOMAIN jobs = 1..Len(jobs)
      /\ \A k \in DOMAIN jobs : jobs[k] \in Row
  BY RowTypes
<1>2. /\ DOMAIN table = DOMAIN jobs
      /\ \A k \in DOMAIN jobs :
            /\ table[k] \in Row
            /\ table[k].id = jobs[k].id /\ table[k].attempts = jobs[k].attempts
            /\ table[k].state = IF jobs[k].state = "running" THEN "queued" ELSE jobs[k].state
  BY <1>1 DEF Row, States
<1>3. Pump(table, children) /\ portal = "down" /\ portal' = "up"
      /\ UNCHANGED <<recent, operatorFiles, stops>>
  BY DEF Restart, bounds
<1> HIDE DEF table
<1>4. table \in Seq(Row) /\ Len(table) = Len(jobs)
  <2>1. table \in [1..Len(jobs) -> Row]
    <3>1. table = [k \in DOMAIN table |-> table[k]]
      BY DEF table
    <3> QED
      BY <1>1, <1>2, <3>1
  <2> QED
    BY <1>1, <2>1
<1>5. TableReady(table)
  BY <1>2, <1>3, <1>4 DEF TableReady, QueueInv, TableOK, AttemptsOK, FilesOK, DoneIsAnswered
<1>6. recent' \in 0..Len(table)
  BY <1>3, <1>4 DEF QueueInv, TypeInv
<1> QED
  BY <1>3, <1>5, <1>6, PumpStep

(* The steps that leave the table and the files alone. *)
LEMMA LifeStep ==
    ASSUME QueueInv, Age \/ ClearLock \/ Close \/ Closed \/ Crash
    PROVE  QueueInv'
<1>1. UNCHANGED <<jobs, recorded, answered, exports>>
  BY DEF Age, ClearLock, Close, Closed, Crash, operatorFiles, Portal
<1>2. children' \subseteq children /\ (current' = current \/ current' = None)
  BY DEF Age, ClearLock, Close, Closed, Crash, operatorFiles, Portal
<1>3. /\ stops' = stops \/ stops' = stops + 1
      /\ portal' = portal \/ portal' \in {"closing", "down"}
      /\ recent' = recent \/ (recent > 0 /\ recent' = recent - 1)
  BY DEF Age, ClearLock, Close, Closed, Crash, operatorFiles, Portal, bounds
<1>4. TypeInv'
  <2>1. recent' \in 0..Len(jobs)
    BY <1>3, RowTypes DEF QueueInv, TypeInv
  <2>2. lock' \in BOOLEAN
    BY DEF Age, ClearLock, Close, Closed, Crash, operatorFiles, QueueInv, TypeInv
  <2>3. children' \subseteq Child
    BY <1>2 DEF QueueInv, TypeInv
  <2> QED
    BY <1>1, <1>2, <1>3, <2>1, <2>2, <2>3 DEF QueueInv, TypeInv
<1>5. MemoryOK'
  <2>1. CASE portal' = "down"
    <3>1. current' = None
      BY <2>1 DEF Age, ClearLock, Close, Closed, Crash, Portal, QueueInv, MemoryOK
    <3> QED
      BY <2>1, <3>1 DEF MemoryOK, OneRunning
  <2>2. CASE portal' # "down"
    <3>1. portal # "down" /\ UNCHANGED current
      BY <2>2 DEF Age, ClearLock, Close, Closed, Crash, Portal
    <3> QED
      BY <1>1, <2>2, <3>1 DEF QueueInv, MemoryOK, OneRunning, InProgress
  <2> QED
    BY <2>1, <2>2
<1>6. FilesOK'
  BY <1>1, <1>2 DEF QueueInv, FilesOK, DoneIsAnswered
<1>7. AttemptsOK'
  <2>1. CASE portal' = "down" /\ portal # "down"
    <3>1. CASE Crash
      BY <1>1, <3>1, RowTypes, JobAssumption DEF Crash, QueueInv, AttemptsOK, TypeInv, Row
    <3>2. CASE ~Crash
      <4>1. current = None /\ UNCHANGED stops
        BY <2>1, <3>2 DEF Age, ClearLock, Close, Closed, Portal, bounds
      <4>2. TableReady(jobs)
        BY <2>1, <4>1, FreeTable
      <4> QED
        BY <1>1, <4>1, <4>2 DEF TableReady, AttemptsOK
    <3> QED
      BY <3>1, <3>2
  <2>2. CASE portal' # "down" \/ portal = "down"
    <3>1. \A k \in DOMAIN jobs : jobs[k].attempts \in Nat
      BY RowTypes DEF Row
    <3>2. MaxAttempts \in Nat /\ stops \in Nat
      BY JobAssumption DEF QueueInv, TypeInv
    <3> QED
      BY <1>1, <1>3, <2>2, <3>1, <3>2 DEF QueueInv, AttemptsOK
  <2> QED
    BY <2>1, <2>2
<1>8. OneWriter'
  <2>1. Writers' \subseteq Writers
    BY <1>2 DEF Writers
  <2>2. lock' = lock \/ Writers = {}
    BY DEF Age, ClearLock, Close, Closed, Crash, operatorFiles
  <2> QED
    BY <2>1, <2>2 DEF QueueInv, OneWriter
<1> QED
  BY <1>1, <1>4, <1>5, <1>6, <1>7, <1>8 DEF QueueInv

LEMMA QueueStep == QueueInv /\ [Next]_vars => QueueInv'
<1> SUFFICES ASSUME QueueInv, [Next]_vars PROVE QueueInv'
  OBVIOUS
<1>1. CASE \E id \in Ids : Post(id)
  BY <1>1, PostStep
<1>2. CASE Retried
  BY <1>2, RetryStep DEF Retried
<1>3. CASE Work \/ \E c \in children : Fault(c)
  BY <1>3, WorkStep DEF Work
<1>4. CASE Settled
  BY <1>4, FinishStep DEF Settled, Settle, bounds
<1>5. CASE \E c \in children : TimeOut(c)
  BY <1>5, FinishStep DEF TimeOut
<1>6. CASE Restart
  BY <1>6, RestartStep
<1>7. CASE Age \/ ClearLock \/ Close \/ Closed \/ Crash
  BY <1>7, LifeStep
<1>8. CASE UNCHANGED vars
  <2>1. UNCHANGED <<jobs, recent, portal, current, children, lock, recorded, answered, exports, stops>>
    BY <1>8 DEF vars, operatorFiles, bounds
  <2>2. TypeInv' /\ FilesOK' /\ OneWriter'
    BY <2>1 DEF QueueInv, TypeInv, FilesOK, DoneIsAnswered, OneWriter, Writers
  <2>3. MemoryOK' /\ AttemptsOK'
    BY <2>1 DEF QueueInv, MemoryOK, OneRunning, InProgress, AttemptsOK
  <2> QED
    BY <2>1, <2>2, <2>3 DEF QueueInv
<1> QED
  BY <1>1, <1>2, <1>3, <1>4, <1>5, <1>6, <1>7, <1>8 DEF Next

LEMMA QueueAlways == Spec => []QueueInv
<1>1. Init => QueueInv
  <2> SUFFICES ASSUME Init PROVE QueueInv
    OBVIOUS
  <2>1. TypeInv
    <3>1. jobs \in Seq(Row) /\ Len(jobs) = 0 /\ recent = 0
      BY DEF Init
    <3>2. recent \in 0..Len(jobs)
      BY <3>1
    <3>3. lock \in BOOLEAN
      BY DEF Init
    <3>4. /\ portal \in {"up", "closing", "down"} /\ current \in Waited \cup {None}
          /\ children \subseteq Child /\ stops \in Nat
          /\ exports \subseteq Ids /\ answered \subseteq Ids /\ recorded \subseteq Ids
      BY DEF Init
    <3> QED
      BY <3>1, <3>2, <3>3, <3>4 DEF TypeInv
  <2>2. DOMAIN jobs = {} /\ jobs \in Seq(Row) /\ children = {}
    BY DEF Init
  <2>3. TableOK(jobs) /\ AttemptsOK
    BY <2>2 DEF TableOK, AttemptsOK
  <2>4. MemoryOK
    BY <2>2 DEF Init, MemoryOK, OneRunning
  <2>5. FilesOK /\ OneWriter
    BY <2>2 DEF Init, FilesOK, DoneIsAnswered, OneWriter, Writers
  <2> QED
    BY <2>1, <2>3, <2>4, <2>5 DEF QueueInv
<1> QED
  BY <1>1, QueueStep, PTL DEF Spec

-----------------------------------------------------------------------------
(* Theorems *)

(* Every state is well typed; files only say what earlier files back.      *)
THEOREM JobTypes == Spec => []JobTypeOK
<1>1. QueueInv => JobTypeOK
  BY Zenon DEF QueueInv, TypeInv, FilesOK, JobTypeOK, Row, Child, Pcs
<1> QED
  BY <1>1, QueueAlways, PTL

(* At most one process ever writes the operator's directory, whichever     *)
(* servers started it and died (run.js:19-20).                             *)
THEOREM OneWorker == Spec => []OneWriter
<1>1. QueueInv => OneWriter
  BY DEF QueueInv
<1> QED
  BY <1>1, QueueAlways, PTL

(* Jobs are done in the order in which they were accepted (server.js,      *)
(* pump), through failures, retries and restarts.                          *)
THEOREM InAcceptedOrder == Spec => []DoneInOrder
<1>1. QueueInv => DoneInOrder
  BY DEF QueueInv, TableOK, DoneInOrder
<1> QED
  BY <1>1, QueueAlways, PTL

(* The memory of the server and its table name the same job in progress.   *)
THEOREM RunningAgrees == Spec => []OneRunning
<1>1. QueueInv => OneRunning
  BY DEF QueueInv, MemoryOK
<1> QED
  BY <1>1, QueueAlways, PTL

(* A job said to be done has evidence of an anchored decision to download. *)
THEOREM DoneHasEvidence == Spec => []DoneIsAnswered
<1>1. QueueInv => DoneIsAnswered
  BY DEF QueueInv, FilesOK
<1> QED
  BY <1>1, QueueAlways, PTL

(* Attempts are bounded by the retry limit and the restarts there were.    *)
THEOREM RetriesBounded == Spec => []AttemptsBounded
<1>1. QueueInv => AttemptsBounded
  BY DEF QueueInv, AttemptsOK, AttemptsBounded
<1> QED
  BY <1>1, QueueAlways, PTL

=============================================================================
