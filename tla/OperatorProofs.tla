---------------------------- MODULE OperatorProofs ---------------------------
(***************************************************************************)
(* Proofs about Operator: the daemon is a correct user of the evidence     *)
(* store, so that every theorem about the store holds of it, and what its  *)
(* journal promises holds for any number of crashes, errors and            *)
(* reorganisations.                                                        *)
(***************************************************************************)
EXTENDS Operator, EvidenceStoreProofs

-----------------------------------------------------------------------------
(* The daemon as a user of the store *)

(* Every transaction there is, in memory, journal or network, is a call    *)
(* that prepare has handed out.                                            *)
CallsPrepared ==
    /\ tx # None => tx.call \in calls
    /\ \A id \in DOMAIN journal : journal[id].call \in calls
    /\ \A raw \in network : raw.call \in calls

LEMMA StoreInterrupted ==
    ASSUME op' = Idle, UNCHANGED <<chainVars, storeVars>>
    PROVE  [Next]_vars
<1>1. CASE op = Idle
  BY <1>1 DEF vars
<1>2. CASE op # Idle
  BY <1>2 DEF Next, Interrupt
<1> QED
  BY <1>1, <1>2

(* Each step of the daemon, the network and the chain is one of the store, *)
(* or leaves the store alone.                                              *)
LEMMA StoreStep ==
    ASSUME CallsPrepared, [OperatorNext]_allVars
    PROVE  [Next]_vars
<1>0. CASE UNCHANGED allVars
  BY <1>0 DEF allVars, vars
<1>1. CASE \E r \in Requests : Produce(r)
  BY <1>1 DEF Produce
<1>2. CASE Start \/ Stop \/ ClearLock
  BY <1>2 DEF Start, Stop, ClearLock
<1>3. CASE Crash
  BY <1>3, StoreInterrupted DEF Crash
<1>4. CASE Fault
  BY <1>4, StoreInterrupted DEF Fault, Abandon
<1>5. CASE Daemon
  <2>1. CASE \E r \in Requests : SubmitFile(r)
    BY <2>1 DEF SubmitFile, Next
  <2>2. ASSUME NEW r \in Requests, DecideNext(r) PROVE [Next]_vars
    <3>1. DecideRead(r, view.number) /\ view.number \in DOMAIN blocks
      BY <2>2 DEF DecideNext, Canonical
    <3> QED
      BY <3>1 DEF Next
  <2>3. CASE RegisterPrepare
    BY <2>3 DEF RegisterPrepare, Next
  <2>4. CASE StoreWorks
    BY <2>4 DEF StoreWorks, Next
  <2>5. CASE RegisterPrepared
    BY <2>5 DEF RegisterPrepared, Next
  <2>6. CASE Retry
    BY <2>6, StoreInterrupted DEF Retry, Abandon
  <2>7. CASE SubmitDone \/ RegisterNothing \/ ListUndecided \/ DecideDone \/ Audit \/ Wake
    BY <2>7 DEF SubmitDone, RegisterNothing, ListUndecided, DecideDone, Audit, Wake
  <2>8. CASE OpenJournal \/ Estimate \/ Charge \/ SaveJournal \/ Send \/ Settle
    BY <2>8 DEF OpenJournal, Estimate, Charge, SaveJournal, Send, Settle
  <2> QED
    BY <1>5, <2>1, <2>2, <2>3, <2>4, <2>5, <2>6, <2>7, <2>8 DEF Daemon
<1>6. CASE Network
  <2>1. ASSUME NEW raw \in network, Execute(raw) PROVE [Next]_vars
    <3>1. UNCHANGED <<storeVars, op>> /\ (AnchorBatch(raw.call) \/ UNCHANGED chainVars)
      BY <2>1 DEF Execute
    <3>2. raw.call \in calls
      BY DEF CallsPrepared
    <3> QED
      BY <3>1, <3>2 DEF Next, Chain, ChainStep, vars
  <2>2. CASE SealBlock
    BY <2>2 DEF SealBlock, Next, Chain, ChainStep
  <2> QED
    BY <1>6, <2>1, <2>2 DEF Network
<1>7. CASE \E h \in 1..(Len(blocks) - 1) : ReorgBlocks(h)
  BY <1>7 DEF ReorgBlocks, Next, Chain, ChainStep
<1> QED
  BY <1>0, <1>1, <1>2, <1>3, <1>4, <1>5, <1>6, <1>7 DEF OperatorNext

LEMMA CallsKept ==
    ASSUME [Next]_vars
    PROVE  calls \subseteq calls'
<1>1. PrepareReturn \/ UNCHANGED calls
  BY DEF Next, vars, chainVars, Submit, DecideRead, PrepareRead, Freeze, ExportBlob, ExportBatch,
         Evaluate, DecideCheck, DecideCommit, Interrupt, Chain, ChainStep, AnchorBatch, Seal, Reorg
<1> QED
  BY <1>1 DEF PrepareReturn

-----------------------------------------------------------------------------
(* Types, and what the journal knows *)

(* The variables of the loop. *)
LoopOK ==
    /\ files \subseteq Requests
    /\ lock \in BOOLEAN
    /\ phase \in Phases
    /\ view \in Block
    /\ todo \subseteq Requests
    /\ stops \in 0..MaxStops /\ faults \in 0..MaxFaults

(* The transaction in progress is for a call that prepare has handed out.  *)
(* Its journal is looked for before a nonce is taken, and there once it is *)
(* sent.                                                                   *)
TxOK ==
    \/ tx = None
    \/ tx \in [step : {"open"}, call : calls]
    \/ tx \in [step : {"quote"}, call : calls] /\ tx.call.id \notin DOMAIN journal
    \/ tx \in [step : {"sign"}, call : calls, nonce : Nat \ {0}] /\ tx.call.id \notin DOMAIN journal
    \/ tx \in [step : {"lookup", "wait"}, call : calls] /\ tx.call.id \in DOMAIN journal

JournalOK ==
    \A id \in DOMAIN journal :
        journal[id] \in [nonce : Nat \ {0}, call : calls] /\ journal[id].call.id = id

NetworkOK ==
    /\ IsFiniteSet(network)
    /\ \A raw \in network : raw.call.id \in DOMAIN journal /\ journal[raw.call.id] = raw

ExecutedOK == executed \in Seq([raw : RawTransaction, ok : BOOLEAN, block : Nat \ {0}])

(* A fee is booked for every transaction in the journal, and for the one   *)
(* about to be signed.                                                     *)
Booked ==
    /\ spent \in 0..DailyFees
    /\ IsFiniteSet(DOMAIN journal)
    /\ Cardinality(DOMAIN journal) + (IF tx.step = "sign" THEN 1 ELSE 0) <= spent

TransactInv == TxOK /\ JournalOK /\ NetworkOK /\ ExecutedOK /\ Booked

OperatorInv == TypeInv /\ LoopOK /\ TransactInv

LEMMA InvCalls ==
    ASSUME OperatorInv
    PROVE  CallsPrepared
BY DEF OperatorInv, TransactInv, TxOK, JournalOK, NetworkOK, CallsPrepared

LEMMA CallTypes ==
    ASSUME OperatorInv
    PROVE  calls \subseteq Call /\ network \subseteq RawTransaction
<1>1. calls \subseteq Call
  BY DEF OperatorInv, TypeInv, TypeOK, Call
<1>2. \A id \in DOMAIN journal : journal[id] \in RawTransaction
  BY <1>1 DEF OperatorInv, TransactInv, JournalOK, RawTransaction
<1> QED
  BY <1>1, <1>2 DEF OperatorInv, TransactInv, NetworkOK

LEMMA NoViewType ==
    ASSUME OperatorInv
    PROVE  NoView \in Block
<1>1. TypeOK /\ 1 \in DOMAIN blocks
  BY DEF OperatorInv, TypeInv, TypeOK
<1> QED
  BY <1>1, HashIsBlock DEF NoView

LEMMA LoopStep ==
    ASSUME OperatorInv, [OperatorNext]_allVars
    PROVE  LoopOK'
<1> USE OperatorAssumption DEF LoopOK, Phases, Down
<1>1. LoopOK /\ TypeOK /\ stops \in Nat /\ faults \in Nat
  BY DEF OperatorInv, TypeInv
<1>2. NoView \in Block /\ Latest \in Block
  BY <1>1, NoViewType, LatestIsBlock
<1>3. CASE UNCHANGED allVars
  BY <1>1, <1>3 DEF allVars, operatorVars, loopVars, diskVars, bounds
<1>4. ASSUME NEW r \in Requests, Produce(r) PROVE LoopOK'
  BY <1>1, <1>4 DEF Produce, loopVars, bounds
<1>5. CASE Start
  BY <1>1, <1>5 DEF Start, GoTo, bounds
<1>6. CASE Stop
  <2>1. stops' \in 0..MaxStops
    BY <1>1, <1>6 DEF Stop
  <2> QED
    BY <1>1, <1>6, <2>1 DEF Stop
<1>7. CASE Crash
  BY <1>1, <1>2, <1>7 DEF Crash, Forget, diskVars
<1>8. CASE ClearLock
  BY <1>1, <1>8 DEF ClearLock, loopVars, bounds
<1>9. CASE Fault
  BY <1>1, <1>2, <1>9 DEF Fault, Abandon, Forget, diskVars
<1>10. CASE Retry
  BY <1>1, <1>2, <1>10 DEF Retry, Abandon, Forget, diskVars
<1>11. CASE \/ (\E r \in Requests : SubmitFile(r)) \/ RegisterPrepare \/ StoreWorks
            \/ SubmitDone \/ RegisterNothing \/ RegisterPrepared \/ Audit \/ Wake
  BY <1>1, <1>11 DEF SubmitFile, RegisterPrepare, StoreWorks, SubmitDone, RegisterNothing,
        RegisterPrepared, Audit, Wake, GoTo, AfterRegister, operatorVars, loopVars, diskVars, bounds
<1>12. CASE ListUndecided \/ DecideDone
  BY <1>1, <1>2, <1>12 DEF ListUndecided, DecideDone, diskVars, bounds
<1>13. ASSUME NEW r \in Requests, DecideNext(r) PROVE LoopOK'
  BY <1>1, <1>13 DEF DecideNext, diskVars, bounds
<1>14. CASE OpenJournal \/ Estimate \/ Charge \/ SaveJournal \/ Send \/ Settle
  BY <1>1, <1>14 DEF OpenJournal, Estimate, Charge, SaveJournal, Send, Settle, Step,
        AfterRegister, loopVars, diskVars, bounds
<1>15. CASE Network
  BY <1>1, <1>15 DEF Network, Execute, SealBlock, operatorVars, loopVars, diskVars, bounds
<1>16. CASE \E h \in 1..(Len(blocks) - 1) : ReorgBlocks(h)
  BY <1>1, <1>16 DEF ReorgBlocks, loopVars, diskVars, bounds
<1> QED
  BY <1>3, <1>4, <1>5, <1>6, <1>7, <1>8, <1>9, <1>10, <1>11, <1>12, <1>13, <1>14, <1>15, <1>16
     DEF OperatorNext, Daemon

(* While the transaction in progress, its journal and its budget stay as   *)
(* they are, or the transaction is given up, nothing is lost.              *)
LEMMA TransactKept ==
    ASSUME OperatorInv, calls \subseteq calls', UNCHANGED <<journal, spent, network, executed>>,
           tx' = tx \/ tx' = None
    PROVE  TransactInv'
<1>1. TransactInv
  BY DEF OperatorInv
<1>2. TxOK'
  BY <1>1 DEF TransactInv, TxOK, None
<1>3. JournalOK' /\ NetworkOK' /\ ExecutedOK'
  BY <1>1 DEF TransactInv, JournalOK, NetworkOK, ExecutedOK
<1>4. Booked'
  <2>1. IsFiniteSet(DOMAIN journal) /\ Cardinality(DOMAIN journal) \in Nat
    BY <1>1, FS_CardinalityType DEF TransactInv, Booked
  <2> QED
    BY <1>1, <2>1, OperatorAssumption DEF TransactInv, Booked, None
<1> QED
  BY <1>2, <1>3, <1>4 DEF TransactInv

LEMMA NoncesArePositive ==
    ASSUME OperatorInv, NEW n \in ProposedNonces
    PROVE  n \in Nat \ {0}
<1>1. Len(executed) \in Nat
  BY DEF OperatorInv, TransactInv, ExecutedOK
<1>2. Cardinality(network) \in Nat
  BY FS_CardinalityType DEF OperatorInv, TransactInv, NetworkOK
<1> QED
  BY <1>1, <1>2 DEF ProposedNonces

(* The transaction is made, charged, signed and sent. *)
LEMMA TransactStep ==
    ASSUME OperatorInv, calls \subseteq calls',
           OpenJournal \/ Estimate \/ Charge \/ SaveJournal \/ Send
    PROVE  TransactInv'
<1> DEFINE size == Cardinality(DOMAIN journal)
<1>1. TransactInv /\ TxOK /\ JournalOK /\ NetworkOK /\ ExecutedOK /\ Booked
  BY DEF OperatorInv, TransactInv
<1>2. /\ IsFiniteSet(DOMAIN journal) /\ size \in Nat /\ size <= spent
      /\ spent \in Nat /\ spent <= DailyFees /\ DailyFees \in Nat
      /\ tx.step = "sign" => size + 1 <= spent
  BY <1>1, FS_CardinalityType, OperatorAssumption DEF Booked
<1>3. CASE OpenJournal \/ Estimate
  <2>1. UNCHANGED <<journal, spent, network, executed>>
    BY <1>3 DEF OpenJournal, Estimate, diskVars, netVars
  <2>2. /\ tx \in [step : {"open"}, call : calls]
        /\ \/ tx' = [tx EXCEPT !.step = "lookup"] /\ tx.call.id \in DOMAIN journal
           \/ tx' = [tx EXCEPT !.step = "quote"] /\ tx.call.id \notin DOMAIN journal
    BY <1>1, <1>3 DEF TxOK, OpenJournal, Estimate, Step, None
  <2>3. TxOK' /\ tx'.step # "sign"
    BY <2>1, <2>2 DEF TxOK
  <2> HIDE DEF size
  <2>4. JournalOK' /\ NetworkOK' /\ ExecutedOK'
    BY <1>1, <2>1 DEF JournalOK, NetworkOK, ExecutedOK
  <2>5. Booked'
    BY <1>1, <1>2, <2>1, <2>3 DEF Booked, size
  <2> QED
    BY <2>3, <2>4, <2>5 DEF TransactInv
<1>4. CASE Charge
  <2>1. /\ UNCHANGED <<journal, network, executed>>
        /\ spent' = spent + 1 /\ spent < DailyFees
    BY <1>4 DEF Charge, netVars
  <2>2. tx \in [step : {"quote"}, call : calls] /\ tx.call.id \notin DOMAIN journal
    BY <1>1, <1>4 DEF TxOK, Charge, None
  <2>3. PICK n \in ProposedNonces : tx' = [step |-> "sign", call |-> tx.call, nonce |-> n]
    BY <1>4 DEF Charge
  <2>4. n \in Nat \ {0}
    BY NoncesArePositive
  <2>5. TxOK'
    BY <2>1, <2>2, <2>3, <2>4 DEF TxOK
  <2>6. JournalOK' /\ NetworkOK' /\ ExecutedOK'
    BY <1>1, <2>1 DEF JournalOK, NetworkOK, ExecutedOK
  <2>7. Booked'
    <3>1. Cardinality(DOMAIN journal)' = size /\ tx'.step = "sign"
      BY <2>1, <2>3
    <3>2. size + 1 <= spent' /\ spent' \in 0..DailyFees
      BY <1>2, <2>1
    <3> HIDE DEF size
    <3> QED
      BY <1>2, <2>1, <3>1, <3>2 DEF Booked, size
  <2> QED
    BY <2>5, <2>6, <2>7 DEF TransactInv
<1>5. CASE SaveJournal
  <2> DEFINE id == tx.call.id
             raw == Signed(tx.nonce, tx.call)
  <2>1. /\ UNCHANGED <<spent, network, executed>>
        /\ journal' = Extend(journal, id, raw)
        /\ tx' = [step |-> "lookup", call |-> tx.call]
    BY <1>5 DEF SaveJournal, netVars
  <2>2. tx \in [step : {"sign"}, call : calls, nonce : Nat \ {0}] /\ id \notin DOMAIN journal
    BY <1>1, <1>5 DEF TxOK, SaveJournal, None
  <2>3. DOMAIN journal' = DOMAIN journal \cup {id}
    BY <2>1 DEF Extend
  <2>4. TxOK'
    BY <2>1, <2>2, <2>3 DEF TxOK
  <2>5. /\ journal'[id] = raw
        /\ \A i \in DOMAIN journal : journal'[i] = journal[i]
    BY <2>1, <2>2 DEF Extend
  <2>6. JournalOK'
    <3>1. raw \in [nonce : Nat \ {0}, call : calls] /\ raw.call.id = id
      BY <2>2 DEF Signed
    <3> HIDE DEF raw, id
    <3> QED
      BY <1>1, <2>3, <2>5, <3>1 DEF JournalOK
  <2>7. NetworkOK' /\ ExecutedOK'
    BY <1>1, <2>1, <2>2, <2>3, <2>5 DEF NetworkOK, ExecutedOK
  <2>8. Booked'
    <3>1. IsFiniteSet(DOMAIN journal') /\ Cardinality(DOMAIN journal') = size + 1
      BY <1>2, <2>2, <2>3, FS_AddElement
    <3>2. tx'.step # "sign" /\ tx.step = "sign"
      BY <2>1, <2>2
    <3> HIDE DEF size
    <3> QED
      BY <1>1, <1>2, <2>1, <3>1, <3>2 DEF Booked
  <2> QED
    BY <2>4, <2>6, <2>7, <2>8 DEF TransactInv
<1>6. CASE Send
  <2>1. /\ UNCHANGED <<journal, spent, executed>>
        /\ network' = network \cup {journal[tx.call.id]}
        /\ tx' = [tx EXCEPT !.step = "wait"] /\ tx.step = "lookup"
    BY <1>6 DEF Send, diskVars, Step
  <2>2. tx \in [step : {"lookup", "wait"}, call : calls] /\ tx.call.id \in DOMAIN journal
    BY <1>1, <2>1 DEF TxOK, None
  <2>3. TxOK' /\ tx'.step # "sign"
    BY <2>1, <2>2 DEF TxOK
  <2>4. NetworkOK'
    <3>1. IsFiniteSet(network')
      BY <1>1, <2>1, FS_AddElement DEF NetworkOK
    <3> QED
      BY <1>1, <2>1, <2>2, <3>1 DEF NetworkOK, JournalOK
  <2>5. JournalOK' /\ ExecutedOK'
    BY <1>1, <2>1 DEF JournalOK, ExecutedOK
  <2>6. Booked'
    BY <1>1, <1>2, <2>1, <2>3 DEF Booked
  <2> QED
    BY <2>3, <2>4, <2>5, <2>6 DEF TransactInv
<1> QED
  BY <1>3, <1>4, <1>5, <1>6

(* The chain executes what it was sent, and forgets it in a reorganisation. *)
LEMMA ExecutedStep ==
    ASSUME OperatorInv, calls \subseteq calls',
           \/ \E raw \in network : Execute(raw)
           \/ \E h \in 1..(Len(blocks) - 1) : ReorgBlocks(h)
    PROVE  TransactInv'
<1> DEFINE Execution == [raw : RawTransaction, ok : BOOLEAN, block : Nat \ {0}]
<1>1. TransactInv /\ executed \in Seq(Execution) /\ Len(blocks) \in Nat
  BY DEF OperatorInv, TransactInv, ExecutedOK, TypeInv, TypeOK
<1>2. UNCHANGED <<tx, journal, spent, network>>
  BY DEF Execute, ReorgBlocks, loopVars, diskVars
<1>3. executed' \in Seq(Execution)
  <2>1. ASSUME NEW raw \in network, Execute(raw) PROVE executed' \in Seq(Execution)
    <3> DEFINE ok == raw.call.id = Len(anchored) + 1
    <3>1. raw \in RawTransaction
      BY CallTypes
    <3>2. [raw |-> raw, ok |-> ok, block |-> Len(blocks) + 1] \in Execution
      BY <1>1, <3>1
    <3>3. executed' = Append(executed, [raw |-> raw, ok |-> ok, block |-> Len(blocks) + 1])
      BY <2>1 DEF Execute
    <3> HIDE DEF Execution, ok
    <3> QED
      BY <1>1, <3>2, <3>3
  <2>2. ASSUME NEW h \in 1..(Len(blocks) - 1), ReorgBlocks(h)
        PROVE  executed' \in Seq(Execution)
    <3> DEFINE S == {n \in DOMAIN executed : executed[n].block <= h}
    <3>1. Len(executed) \in Nat /\ DOMAIN executed = 1..Len(executed)
      BY <1>1
    <3>2. IsFiniteSet(1..Len(executed)) /\ Cardinality(1..Len(executed)) = Len(executed)
      BY <3>1, IntervalSize
    <3>3. S \subseteq 1..Len(executed)
      BY <3>1
    <3>4. IsFiniteSet(S) /\ Cardinality(S) <= Len(executed)
      BY <3>2, <3>3, FS_Subset
    <3>5. Cardinality(S) \in Nat
      BY <3>4, FS_CardinalityType
    <3>6. executed' = SubSeq(executed, 1, Cardinality(S))
      BY <2>2 DEF ReorgBlocks
    <3> HIDE DEF Execution, S
    <3> QED
      BY <1>1, <3>1, <3>4, <3>5, <3>6
  <2> QED
    BY <2>1, <2>2
<1>4. TxOK' /\ JournalOK' /\ NetworkOK'
  BY <1>1, <1>2 DEF TransactInv, TxOK, JournalOK, NetworkOK
<1>5. Booked'
  BY <1>1, <1>2 DEF TransactInv, Booked
<1> QED
  BY <1>3, <1>4, <1>5 DEF TransactInv, ExecutedOK

LEMMA OperatorStep == OperatorInv /\ [OperatorNext]_allVars => OperatorInv'
<1> SUFFICES ASSUME OperatorInv, [OperatorNext]_allVars PROVE OperatorInv'
  OBVIOUS
<1>1. [Next]_vars
  BY InvCalls, StoreStep
<1>2. TypeInv' /\ calls \subseteq calls'
  BY <1>1, TypeStep, CallsKept DEF OperatorInv
<1>3. LoopOK'
  BY LoopStep
<1>4. TransactInv'
  <2>1. CASE OpenJournal \/ Estimate \/ Charge \/ SaveJournal \/ Send
    BY <1>2, <2>1, TransactStep
  <2>2. CASE \/ \E raw \in network : Execute(raw)
             \/ \E h \in 1..(Len(blocks) - 1) : ReorgBlocks(h)
    BY <1>2, <2>2, ExecutedStep
  <2>3. CASE RegisterPrepared
    <3>1. UNCHANGED <<journal, spent, network, executed>>
      BY <2>3 DEF RegisterPrepared, diskVars, netVars
    <3>2. PICK call \in calls' : tx' = [step |-> "open", call |-> call]
      BY <2>3 DEF RegisterPrepared, PrepareReturn
    <3>3. TxOK' /\ tx'.step # "sign"
      BY <3>2 DEF TxOK
    <3>4. JournalOK' /\ NetworkOK' /\ ExecutedOK'
      BY <1>2, <3>1 DEF OperatorInv, TransactInv, JournalOK, NetworkOK, ExecutedOK
    <3>5. Booked'
      <4>1. Booked /\ Cardinality(DOMAIN journal) \in Nat
        BY FS_CardinalityType DEF OperatorInv, TransactInv, Booked
      <4> QED
        BY <3>1, <3>3, <4>1, OperatorAssumption DEF Booked
    <3> QED
      BY <3>3, <3>4, <3>5 DEF TransactInv
  <2>4. CASE /\ UNCHANGED <<journal, spent, network, executed>>
             /\ tx' = tx \/ tx' = None
    BY <1>2, <2>4, TransactKept
  <2>5. CASE UNCHANGED allVars
    BY <1>2, <2>5, TransactKept DEF allVars, operatorVars, loopVars, diskVars, netVars
  <2>6. CASE (\E r \in Requests : Produce(r)) \/ Start \/ Stop \/ Crash \/ ClearLock \/ Fault \/ SealBlock
    BY <2>4, <2>6 DEF Produce, Start, Stop, Crash, ClearLock, Fault, SealBlock, Abandon, Forget,
          GoTo, operatorVars, loopVars, diskVars, netVars
  <2>7. CASE Settle \/ Retry
    BY <2>4, <2>7 DEF Settle, Retry, Abandon, Forget, diskVars, netVars
  <2>8. CASE \E r \in Requests : SubmitFile(r) \/ DecideNext(r)
    BY <2>4, <2>8 DEF SubmitFile, DecideNext, operatorVars, loopVars, diskVars, netVars
  <2>9. CASE \/ SubmitDone \/ RegisterNothing \/ RegisterPrepare \/ StoreWorks
             \/ ListUndecided \/ DecideDone \/ Audit \/ Wake
    BY <2>4, <2>9 DEF SubmitDone, RegisterNothing, RegisterPrepare, StoreWorks, ListUndecided,
          DecideDone, Audit, Wake, GoTo, operatorVars, loopVars, diskVars, netVars
  <2> QED
    BY <2>1, <2>2, <2>3, <2>5, <2>6, <2>7, <2>8, <2>9 DEF OperatorNext, Daemon, Network
<1> QED
  BY <1>2, <1>3, <1>4 DEF OperatorInv

LEMMA OperatorStarts == OperatorInit => OperatorInv
<1> SUFFICES ASSUME OperatorInit PROVE OperatorInv
  OBVIOUS
<1>1. TypeInv
  BY DEF OperatorInit, Init, ChainInit, TypeInv, BatchKnown, TypeOK, IsTable, Idle
<1>2. LoopOK
  <2>1. NoView \in Block
    BY DEF OperatorInit, Init, ChainInit, NoView, Hash, Block
  <2>2. stops \in 0..MaxStops /\ faults \in 0..MaxFaults
    BY OperatorAssumption DEF OperatorInit
  <2>3. files \subseteq Requests /\ todo \subseteq Requests
    BY DEF OperatorInit
  <2>4. lock \in BOOLEAN /\ phase \in Phases /\ view = NoView
    BY DEF OperatorInit, Phases
  <2> QED
    BY <2>1, <2>2, <2>3, <2>4 DEF LoopOK
<1>3. TransactInv
  <2>1. DOMAIN journal = {} /\ IsFiniteSet({}) /\ Cardinality({}) = 0
    BY FS_EmptySet DEF OperatorInit
  <2> QED
    BY <2>1, OperatorAssumption DEF OperatorInit, TransactInv, TxOK, JournalOK, NetworkOK,
          ExecutedOK, Booked, None
<1> QED
  BY <1>1, <1>2, <1>3 DEF OperatorInv

LEMMA OperatorAlways == OperatorSpec => []OperatorInv
<1> QED
  BY OperatorStarts, OperatorStep, PTL DEF OperatorSpec

(* Every state of the daemon, its files and the network is well typed; in  *)
(* particular no fee is spent beyond the daily budget (run.js:48).         *)
THEOREM OperatorTypes == OperatorSpec => []OperatorTypeOK
<1>1. OperatorInv => OperatorTypeOK
  <2> SUFFICES ASSUME OperatorInv PROVE OperatorTypeOK
    OBVIOUS
  <2>1. calls \subseteq Call /\ network \subseteq RawTransaction
    BY CallTypes
  <2>2. TxOK /\ JournalOK /\ ExecutedOK /\ Booked /\ LoopOK /\ TypeOK
    BY DEF OperatorInv, TransactInv, TypeInv
  <2>3. tx \in {None} \cup [step : {"open", "quote", "lookup", "wait"}, call : Call]
                      \cup [step : {"sign"}, call : Call, nonce : Nat \ {0}]
    BY <2>1, <2>2 DEF TxOK
  <2>4. IsTable(journal, RawTransaction)
    BY <2>1, <2>2 DEF JournalOK, IsTable, RawTransaction, Call
  <2>5. spent \in 0..DailyFees
    BY <2>2 DEF Booked
  <2> QED
    BY <2>1, <2>2, <2>3, <2>4, <2>5 DEF OperatorTypeOK, LoopOK, ExecutedOK
<1> QED
  BY <1>1, OperatorAlways, PTL

(* The daemon, with its producers, its crashes and the network, takes only *)
(* the steps of EvidenceStore, so every theorem about Spec holds of it.    *)
THEOREM StoreUsed == OperatorSpec => UsesStore
<1>1. OperatorInit => Init
  BY DEF OperatorInit
<1>2. OperatorInv /\ [OperatorNext]_allVars => [Next]_vars
  BY InvCalls, StoreStep
<1> QED
  BY <1>1, <1>2, OperatorAlways, PTL DEF OperatorSpec, UsesStore, Spec

(* Nothing is on the network that the journal does not hold in that form,  *)
(* and nothing is in the journal whose fee was not booked (run.js:49-51).  *)
THEOREM JournalCovers == OperatorSpec => []JournalCoversNetwork
<1>1. OperatorInv => JournalCoversNetwork
  <2> SUFFICES ASSUME OperatorInv PROVE JournalCoversNetwork
    OBVIOUS
  <2>1. NetworkOK /\ Booked /\ Cardinality(DOMAIN journal) \in Nat
    BY FS_CardinalityType DEF OperatorInv, TransactInv, Booked
  <2>2. Cardinality(DOMAIN journal) <= spent
    BY <2>1, OperatorAssumption DEF Booked
  <2> QED
    BY <2>1, <2>2 DEF JournalCoversNetwork, NetworkOK
<1> QED
  BY <1>1, OperatorAlways, PTL

(* A journal found for a batch is for the call now asked for, because the  *)
(* store never hands out two calls for one batch (run.js:53).              *)
THEOREM JournalAgrees == OperatorSpec => []JournalFits
<1>1. OperatorInv /\ NoEquivocation => JournalFits
  <2> SUFFICES ASSUME OperatorInv, NoEquivocation, tx # None, tx.call.id \in DOMAIN journal
               PROVE  journal[tx.call.id].call = tx.call
    BY DEF JournalFits
  <2> DEFINE c == tx.call
             d == journal[tx.call.id].call
  <2>1. c \in calls
    BY DEF OperatorInv, TransactInv, TxOK
  <2>2. d \in calls /\ d.id = c.id
    BY DEF OperatorInv, TransactInv, JournalOK
  <2>3. c \in Call /\ d \in Call
    BY <2>1, <2>2, CallTypes
  <2>4. d.records = c.records
    BY <2>1, <2>2 DEF NoEquivocation
  <2> QED
    BY <2>2, <2>3, <2>4 DEF Call
<1>2. OperatorSpec => []NoEquivocation
  BY StoreUsed, OneCommitment, PTL DEF UsesStore
<1> QED
  BY <1>1, <1>2, OperatorAlways, PTL

-----------------------------------------------------------------------------
(* One decision for a request *)

Undecided(r) == \A i \in Decisions : entries[i].rec.req # r

LEMMA UndecidedKept ==
    ASSUME TypeInv, Ledger, [Next]_vars, NEW r, Undecided(r),
           ~(DecideCommit /\ op.rec.req = r)
    PROVE  Undecided(r)'
<1>1. CASE /\ DOMAIN entries' = DOMAIN entries
           /\ \A i \in DOMAIN entries : entries'[i].rec = entries[i].rec
  BY <1>1 DEF Undecided, Decisions
<1>2. ASSUME NEW q \in Requests, Insert(RequestRecord(q)) PROVE Undecided(r)'
  <2>1. RequestRecord(q).kind # "DECISION"
    BY DEF RequestRecord
  <2>2. Decisions' = Decisions /\ \A i \in Decisions : entries'[i] = entries[i]
    BY <1>2, <2>1, InsertDecisions
  <2> QED
    BY <2>2 DEF Undecided
<1>3. CASE DecideCommit /\ Insert(op.rec)
  BY <1>3, InsertDecisions DEF Undecided
<1> QED
  BY <1>1, <1>2, <1>3, RecordSteps

LEMMA SingleKept ==
    ASSUME TypeInv, Ledger, [Next]_vars, SingleDecision,
           DecideCommit => Undecided(op.rec.req)
    PROVE  SingleDecision'
<1>1. CASE /\ DOMAIN entries' = DOMAIN entries
           /\ \A i \in DOMAIN entries : entries'[i].rec = entries[i].rec
  BY <1>1 DEF SingleDecision, Decisions
<1>2. ASSUME NEW q \in Requests, Insert(RequestRecord(q)) PROVE SingleDecision'
  <2>1. RequestRecord(q).kind # "DECISION"
    BY DEF RequestRecord
  <2>2. Decisions' = Decisions /\ \A i \in Decisions : entries'[i] = entries[i]
    BY <1>2, <2>1, InsertDecisions
  <2> QED
    BY <2>2 DEF SingleDecision
<1>3. CASE DecideCommit /\ Insert(op.rec)
  BY <1>3, InsertDecisions DEF SingleDecision, Undecided
<1> QED
  BY <1>1, <1>2, <1>3, RecordSteps

(* Requests are decided in the phase of that name only, and those that are *)
(* to be, or are being, have no decision.                                  *)
DecisionInv ==
    /\ Deciding => phase = "decide" /\ Undecided(op.rec.req) /\ op.rec.req \notin todo
    /\ tx # None => op = Idle /\ Registering
    /\ phase = "decide" => \A r \in todo : Undecided(r)
    /\ SingleDecision

(* The awaited steps of a handler neither change its kind nor its record.  *)
LEMMA HandlerSteps ==
    ASSUME TypeInv, StoreWorks
    PROVE  /\ tx # None => op # Idle
           /\ Deciding' => Deciding /\ ~DecideCommit /\ op'.rec = op.rec
<1>1. op = Idle \/ op \in PrepareOp \/ op \in DecideOp
  BY DEF TypeInv, TypeOK
<1>2. op # Idle
  BY DEF StoreWorks, Freeze, ExportBlob, ExportBatch, Exporting, Evaluate, DecideCheck,
         DecideCommit, Idle
<1>3. CASE Freeze \/ DecideCheck \/ ExportBlob
  BY <1>1, <1>2, <1>3 DEF Freeze, DecideCheck, ExportBlob, Exporting, Deciding, PrepareOp, DecideOp,
     DecideCommit
<1>4. CASE ExportBatch \/ Evaluate
  BY <1>1, <1>2, <1>4 DEF ExportBatch, Evaluate, Exporting, Deciding, PrepareOp, DecideOp, Idle,
     DecideCommit
<1>5. CASE DecideCommit
  BY <1>5 DEF DecideCommit, Deciding, Idle
<1> QED
  BY <1>2, <1>3, <1>4, <1>5 DEF StoreWorks

LEMMA DecisionStep ==
    OperatorInv /\ Ledger /\ DecisionInv /\ [OperatorNext]_allVars => DecisionInv'
<1> SUFFICES ASSUME OperatorInv, Ledger, DecisionInv, [OperatorNext]_allVars
             PROVE  DecisionInv'
  OBVIOUS
<1>1. TypeInv /\ [Next]_vars
  BY InvCalls, StoreStep DEF OperatorInv
<1>2. DecideCommit => Deciding
  BY DEF DecideCommit, Deciding
<1>3. SingleDecision'
  BY <1>1, <1>2, SingleKept DEF DecisionInv
<1>4. ASSUME phase = "decide", NEW r \in todo PROVE Undecided(r)'
  BY <1>1, <1>2, <1>4, UndecidedKept DEF DecisionInv
<1>5. CASE StoreWorks
  <2>1. UNCHANGED <<phase, todo, tx>>
    BY <1>5 DEF StoreWorks, operatorVars, loopVars
  <2>2. /\ tx = None
        /\ Deciding' => Deciding /\ ~DecideCommit /\ op'.rec = op.rec
    BY <1>1, <1>5, HandlerSteps DEF DecisionInv
  <2>3. ASSUME Deciding' PROVE Undecided(op.rec.req)'
    <3>1. PICK r : r = op.rec.req
      OBVIOUS
    <3>2. Undecided(r)'
      BY <1>1, <2>2, <2>3, <3>1, UndecidedKept DEF DecisionInv
    <3> QED
      BY <2>2, <2>3, <3>1, <3>2 DEF Undecided
  <2> QED
    BY <1>3, <1>4, <2>1, <2>2, <2>3 DEF DecisionInv
<1>6. ASSUME NEW r \in Requests, DecideNext(r) PROVE DecisionInv'
  <2>1. /\ phase = "decide" /\ r \in todo /\ op = Idle
        /\ todo' = todo \ {r} /\ UNCHANGED <<phase, tx>>
    BY <1>6 DEF DecideNext, DecideRead
  <2>2. op'.rec.req = r
    BY <1>6 DEF DecideNext, DecideRead, DecisionRecord
  <2>3. tx = None
    BY <2>1 DEF DecisionInv, Registering
  <2>4. Undecided(op.rec.req)'
    BY <1>4, <2>1, <2>2 DEF Undecided
  <2> QED
    BY <1>3, <1>4, <2>1, <2>2, <2>3, <2>4 DEF DecisionInv
<1>7. CASE ListUndecided
  <2>1. UNCHANGED <<op, entries, tx>> /\ phase = "list" /\ phase' = "decide"
    BY <1>7 DEF ListUndecided, vars, storeVars
  <2>2. ~Deciding /\ tx = None
    BY <2>1 DEF DecisionInv, Registering
  <2>3. \A r \in todo' : \A i \in Decisions : entries[i].rec.req # r
    BY <1>7 DEF ListUndecided
  <2>4. Decisions' = Decisions
    BY <2>1 DEF Decisions
  <2> QED
    BY <1>3, <2>1, <2>2, <2>3, <2>4 DEF DecisionInv, Deciding, Undecided
<1>8. CASE UNCHANGED <<op, entries, todo, phase, tx>>
  BY <1>3, <1>8 DEF DecisionInv, Deciding, Undecided, Decisions, Registering
<1>9. CASE RegisterPrepare
  <2>1. UNCHANGED <<todo, phase, tx>> /\ tx = None /\ op'.pc = "freeze"
    BY <1>9 DEF RegisterPrepare, PrepareRead, Quiet, operatorVars, loopVars
  <2> QED
    BY <1>3, <1>4, <2>1 DEF DecisionInv, Deciding
<1>10. CASE RegisterPrepared
  <2>1. UNCHANGED <<todo, phase>> /\ Registering /\ op' = Idle
    BY <1>10 DEF RegisterPrepared, PrepareReturn
  <2> QED
    BY <1>3, <1>4, <2>1 DEF DecisionInv, Deciding, Idle, Registering
<1>11. CASE op' = Idle /\ tx' = None /\ phase' # "decide"
  BY <1>3, <1>11 DEF DecisionInv, Deciding, Idle
<1>12. CASE Crash \/ Fault \/ Retry
  BY <1>11, <1>12 DEF Crash, Fault, Retry, Abandon, Forget, Down
<1>13. CASE \E r \in Requests : SubmitFile(r)
  <2>1. UNCHANGED <<todo, phase, tx>> /\ op = Idle /\ op' = Idle
    BY <1>13 DEF SubmitFile, Submit, operatorVars, loopVars
  <2> QED
    BY <1>3, <1>4, <2>1 DEF DecisionInv, Deciding, Idle, Registering
<1>14. CASE Start \/ Stop \/ SubmitDone \/ RegisterNothing \/ DecideDone \/ Audit \/ Wake \/ Settle
  <2>1. UNCHANGED op /\ phase' # "decide"
    BY <1>14 DEF Start, Stop, SubmitDone, RegisterNothing, DecideDone, Audit, Wake, Settle, GoTo,
          AfterRegister, vars, Down
  <2>2. op = Idle \/ ~Deciding
    BY <1>14 DEF Start, Stop, SubmitDone, RegisterNothing, DecideDone, Audit, Wake, Settle,
          Quiet, DecisionInv, Down, None
  <2>3. tx' = None
    BY <1>14 DEF Start, Stop, SubmitDone, RegisterNothing, DecideDone, Audit, Wake, Settle, GoTo,
          Quiet, DecisionInv, Registering, Down
  <2> QED
    BY <1>3, <2>1, <2>2, <2>3 DEF DecisionInv, Deciding, Idle
<1>15. CASE OpenJournal \/ Estimate \/ Charge \/ SaveJournal \/ Send
  <2>1. UNCHANGED <<op, entries, phase, todo>> /\ tx # None
    BY <1>15 DEF OpenJournal, Estimate, Charge, SaveJournal, Send, Step, vars, storeVars, None
  <2> QED
    BY <1>3, <1>4, <2>1 DEF DecisionInv, Deciding, Idle, Registering
<1>16. CASE \/ \E r \in Requests : Produce(r)
            \/ ClearLock \/ SealBlock
            \/ \E raw \in network : Execute(raw)
            \/ \E h \in 1..(Len(blocks) - 1) : ReorgBlocks(h)
  BY <1>8, <1>16 DEF Produce, ClearLock, SealBlock, Execute, ReorgBlocks, vars, storeVars,
        operatorVars, loopVars
<1>17. CASE UNCHANGED allVars
  BY <1>8, <1>17 DEF allVars, vars, storeVars, operatorVars, loopVars
<1> QED
  BY <1>5, <1>6, <1>7, <1>9, <1>10, <1>12, <1>13, <1>14, <1>15, <1>16, <1>17
     DEF OperatorNext, Daemon, Network

(* The daemon decides each request once, although decide on its own would  *)
(* decide it again under a new receipt (run.js:25).                        *)
THEOREM DecidedOnce == OperatorSpec => []SingleDecision
<1>1. OperatorInit => DecisionInv
  BY DEF OperatorInit, Init, DecisionInv, Deciding, Idle, Down, SingleDecision, Decisions
<1>2. OperatorSpec => []Ledger
  BY StoreUsed, LedgerAlways, PTL DEF UsesStore
<1>3. DecisionInv => SingleDecision
  BY DEF DecisionInv
<1> QED
  BY <1>1, <1>2, <1>3, DecisionStep, OperatorAlways, PTL DEF OperatorSpec

-----------------------------------------------------------------------------
(* Nonces, while the chain keeps its blocks *)

AllSealed == \A n \in DOMAIN executed : executed[n].block <= Len(blocks)

(* Batch and nonce are the same number, and at most the last one of the    *)
(* journal is not settled: a transaction is estimated for the batch after  *)
(* those in sealed blocks, and not again once it is in the journal.        *)
NonceInv ==
    /\ MaxReorgs = 0
    /\ Len(anchored) = Len(executed)
    /\ \A n \in DOMAIN executed :
          /\ executed[n].ok /\ executed[n].block = anchored[n].block
          /\ executed[n].raw \in network /\ executed[n].raw.call.id = n
          /\ n < Len(executed) => executed[n].block <= Len(blocks)
    /\ \A id \in DOMAIN journal :
          /\ journal[id].nonce = id
          /\ id <= Len(executed) \/ (id = Len(executed) + 1 /\ AllSealed)
    /\ tx.step \in {"quote", "sign"} => tx.call.id = Len(executed) + 1 /\ AllSealed
    /\ tx.step = "sign" => tx.nonce = tx.call.id

LEMMA ExecutedType ==
    ASSUME OperatorInv
    PROVE  /\ Len(executed) \in Nat /\ DOMAIN executed = 1..Len(executed)
           /\ \A n \in DOMAIN executed : executed[n].block \in Nat
           /\ Len(blocks) \in Nat
           /\ anchored \in Seq(Anchor) /\ Len(anchored) \in Nat
           /\ DOMAIN anchored = 1..Len(anchored)
           /\ DOMAIN journal \subseteq Nat
<1> DEFINE Entries == [raw : RawTransaction, ok : BOOLEAN, block : Nat \ {0}]
<1>1. executed \in Seq(Entries)
  BY DEF OperatorInv, TransactInv, ExecutedOK
<1>2. \A n \in DOMAIN executed : executed[n].block \in Nat
  <2> SUFFICES ASSUME NEW n \in DOMAIN executed PROVE executed[n].block \in Nat
    OBVIOUS
  <2>1. executed[n] \in Entries
    <3> HIDE DEF Entries
    <3> QED
      BY <1>1
  <2>2. executed[n].block \in Nat \ {0}
    BY <2>1, Zenon
  <2> QED
    BY <2>2
<1>3. blocks \in Seq(Nat) /\ anchored \in Seq(Anchor)
  BY DEF OperatorInv, TypeInv, TypeOK
<1>4. \A id \in DOMAIN journal : id \in Nat
  <2> SUFFICES ASSUME NEW id \in DOMAIN journal PROVE id \in Nat
    OBVIOUS
  <2>1. journal[id].call \in calls /\ journal[id].call.id = id
    BY DEF OperatorInv, TransactInv, JournalOK
  <2> QED
    BY <2>1 DEF OperatorInv, TypeInv, TypeOK
<1> QED
  BY <1>1, <1>2, <1>3, <1>4

(* A transaction on the network is journaled under its nonce. *)
LEMMA NonceIsBatch ==
    ASSUME OperatorInv, NonceInv, NEW raw \in network
    PROVE  /\ raw.nonce = raw.call.id /\ raw.call.id \in DOMAIN journal
           /\ journal[raw.call.id] = raw
BY DEF OperatorInv, TransactInv, NetworkOK, NonceInv

(* The batch estimated is the next one of the chain, with nothing pending. *)
LEMMA CountSealed ==
    ASSUME OperatorInv, NonceInv, CountAt(Len(blocks)) + 1 \notin DOMAIN journal
    PROVE  CountAt(Len(blocks)) = Len(executed) /\ AllSealed
<1> DEFINE E == Len(executed)
           S == {id \in DOMAIN anchored : anchored[id].block <= Len(blocks)}
<1>1. /\ E \in Nat /\ DOMAIN executed = 1..E /\ DOMAIN anchored = 1..E
      /\ \A n \in 1..E : executed[n].block = anchored[n].block
  BY ExecutedType DEF NonceInv
<1>2. CASE AllSealed
  <2>1. S = 1..E
    BY <1>1, <1>2 DEF AllSealed
  <2> QED
    BY <1>1, <1>2, <2>1, IntervalSize DEF CountAt
<1>3. CASE ~AllSealed
  <2>1. PICK n \in 1..E : ~(executed[n].block <= Len(blocks))
    BY <1>1, <1>3 DEF AllSealed
  <2>2. n = E /\ E - 1 \in Nat
    <3>1. ~(n < E)
      BY <1>1, <2>1 DEF NonceInv
    <3> HIDE DEF E
    <3> QED
      BY <1>1, <3>1
  <2>3. S = 1..(E - 1)
    <3>1. \A i \in 1..E : i < E => executed[i].block <= Len(blocks)
      BY <1>1 DEF NonceInv
    <3> HIDE DEF E
    <3>2. \A i \in 1..E : i # E => i < E
      BY <1>1
    <3>3. \A i \in 1..E : anchored[i].block <= Len(blocks) <=> i # E
      BY <1>1, <2>1, <2>2, <3>1, <3>2
    <3>4. S = {i \in 1..E : i # E}
      BY <1>1, <3>3
    <3>5. {i \in 1..E : i # E} = 1..(E - 1)
      BY <1>1
    <3> QED
      BY <3>4, <3>5
  <2>4. CountAt(Len(blocks)) = E - 1
    BY <2>2, <2>3, IntervalSize DEF CountAt
  <2>5. E \in DOMAIN journal
    BY <1>1, <2>2, NonceIsBatch DEF NonceInv
  <2> QED
    BY <2>2, <2>4, <2>5
<1> QED
  BY <1>2, <1>3

LEMMA NonceStep ==
    OperatorInv /\ NonceInv /\ [OperatorNext]_allVars => NonceInv'
<1> SUFFICES ASSUME OperatorInv, NonceInv, [OperatorNext]_allVars PROVE NonceInv'
  OBVIOUS
<1> DEFINE E == Len(executed)
<1>0. E \in Nat /\ DOMAIN executed = 1..E
  BY ExecutedType
<1>1. ASSUME UNCHANGED <<blocks, anchored, journal, executed>>, network \subseteq network',
             tx' = tx \/ tx'.step \notin {"quote", "sign"}
      PROVE  NonceInv'
  BY <1>1 DEF NonceInv, AllSealed
<1>2. CASE Estimate
  <2>1. /\ UNCHANGED <<blocks, anchored, journal, executed, network>>
        /\ tx.step = "open" /\ tx.call.id = CountAt(Len(blocks)) + 1
        /\ tx.call.id \notin DOMAIN journal
        /\ tx' = [tx EXCEPT !.step = "quote"]
    BY <1>2 DEF Estimate, Step, vars, chainVars, diskVars, netVars
  <2>2. tx \in [step : {"open"}, call : calls]
    BY <2>1 DEF OperatorInv, TransactInv, TxOK, None
  <2>3. tx'.call = tx.call /\ tx'.step = "quote"
    BY <2>1, <2>2
  <2>4. CountAt(Len(blocks)) = E /\ AllSealed
    BY <2>1, CountSealed
  <2> QED
    BY <2>1, <2>3, <2>4 DEF NonceInv, AllSealed
<1>3. CASE Charge
  <2>1. /\ UNCHANGED <<blocks, anchored, journal, executed, network>>
        /\ tx.step = "quote"
    BY <1>3 DEF Charge, vars, chainVars, netVars
  <2>2. PICK n \in ProposedNonces : tx' = [step |-> "sign", call |-> tx.call, nonce |-> n]
    BY <1>3 DEF Charge
  <2>3. tx.call.id \notin DOMAIN journal /\ tx.call.id = E + 1 /\ AllSealed
    BY <2>1 DEF OperatorInv, TransactInv, TxOK, None, NonceInv
  <2>4. \A raw \in network : raw.nonce # E + 1
    BY <2>3, NonceIsBatch
  <2>5. n = E + 1
    <3>1. CASE n \in (E + 1)..(E + 1 + Cardinality(network))
               /\ \A m \in (E + 1)..(n - 1) : \E raw \in network : raw.nonce = m
      <4>1. Cardinality(network) \in Nat
        BY FS_CardinalityType DEF OperatorInv, TransactInv, NetworkOK
      <4> HIDE DEF E
      <4>2. n \in Nat /\ n >= E + 1
        BY <1>0, <3>1, <4>1
      <4> QED
        BY <1>0, <2>4, <3>1, <4>2
    <3> QED
      BY <3>1 DEF ProposedNonces
  <2> QED
    BY <2>1, <2>2, <2>3, <2>5 DEF NonceInv, AllSealed
<1>4. CASE SaveJournal
  <2>1. /\ UNCHANGED <<blocks, anchored, executed, network>> /\ tx.step = "sign"
        /\ journal' = Extend(journal, tx.call.id, Signed(tx.nonce, tx.call))
        /\ tx' = [step |-> "lookup", call |-> tx.call]
    BY <1>4 DEF SaveJournal, vars, chainVars, netVars
  <2>2. /\ tx.call.id \notin DOMAIN journal /\ tx.call.id = E + 1 /\ AllSealed
        /\ tx.nonce = tx.call.id
    BY <2>1 DEF OperatorInv, TransactInv, TxOK, None, NonceInv
  <2>3. /\ DOMAIN journal' = DOMAIN journal \cup {E + 1}
        /\ journal'[E + 1].nonce = E + 1
        /\ \A id \in DOMAIN journal : journal'[id] = journal[id]
    BY <2>1, <2>2 DEF Extend, Signed
  <2> QED
    BY <2>1, <2>2, <2>3 DEF NonceInv, AllSealed
<1>5. ASSUME NEW raw \in network, Execute(raw) PROVE NonceInv'
  <2> DEFINE entry == [raw |-> raw, ok |-> TRUE, block |-> Len(blocks) + 1]
             anchor == [records |-> raw.call.records, block |-> Len(blocks) + 1]
  <2>1. /\ raw.call.id = E + 1 /\ E + 1 \in DOMAIN journal
    BY <1>5, NonceIsBatch DEF Execute
  <2>2. AllSealed
    BY <1>0, <2>1 DEF NonceInv
  <2>3. /\ executed' = Append(executed, entry) /\ anchored' = Append(anchored, anchor)
        /\ UNCHANGED <<blocks, journal, network, tx>>
    BY <1>5, <2>1 DEF NonceInv, Execute, AnchorBatch, loopVars, diskVars
  <2>4. ~(tx.step \in {"quote", "sign"})
    <3>1. ASSUME tx.step \in {"quote", "sign"} PROVE tx.call.id \notin DOMAIN journal
      BY <3>1 DEF OperatorInv, TransactInv, TxOK, None
    <3> QED
      BY <2>1, <3>1 DEF NonceInv
  <2>5. entry.ok /\ entry.raw = raw /\ entry.block = Len(blocks) + 1 /\ anchor.block = Len(blocks) + 1
    OBVIOUS
  <2> HIDE DEF entry, anchor
  <2>6. /\ Len(executed') = E + 1 /\ DOMAIN executed' = 1..(E + 1)
        /\ \A n \in 1..E : executed'[n] = executed[n]
        /\ executed'[E + 1] = entry
        /\ Len(anchored') = E + 1 /\ anchored'[E + 1] = anchor
        /\ \A n \in 1..E : anchored'[n] = anchored[n]
    BY <2>3, ExecutedType DEF NonceInv
  <2> HIDE DEF E
  <2>7. \A n \in 1..(E + 1) :
           /\ executed'[n].ok /\ executed'[n].block = anchored'[n].block
           /\ executed'[n].raw \in network' /\ executed'[n].raw.call.id = n
           /\ n < E + 1 => executed'[n].block <= Len(blocks')
    <3>1. ASSUME NEW n \in 1..E
          PROVE  /\ executed'[n].ok /\ executed'[n].block = anchored'[n].block
                 /\ executed'[n].raw \in network' /\ executed'[n].raw.call.id = n
                 /\ executed'[n].block <= Len(blocks')
      BY <1>0, <2>2, <2>3, <2>6, <3>1 DEF NonceInv, AllSealed
    <3> QED
      BY <1>0, <2>1, <2>3, <2>5, <2>6, <3>1
  <2>8. \A id \in DOMAIN journal : journal[id].nonce = id /\ id <= E + 1
    BY <1>0, ExecutedType DEF NonceInv, E
  <2> QED
    BY <2>3, <2>4, <2>6, <2>7, <2>8 DEF NonceInv
<1>6. CASE SealBlock
  <2>1. UNCHANGED <<anchored, journal, executed, network, tx>> /\ blocks' = Append(blocks, fork)
    BY <1>6 DEF SealBlock, Seal, operatorVars, loopVars, diskVars, netVars
  <2>2. Len(blocks') = Len(blocks) + 1 /\ Len(blocks) \in Nat
    BY <2>1 DEF OperatorInv, TypeInv, TypeOK
  <2>3. \A n \in DOMAIN executed : executed[n].block <= Len(blocks) => executed[n].block <= Len(blocks')
    BY <2>2, ExecutedType
  <2> QED
    BY <2>1, <2>3 DEF NonceInv, AllSealed
<1>7. ASSUME NEW h \in 1..(Len(blocks) - 1), ReorgBlocks(h) PROVE FALSE
  BY <1>7 DEF NonceInv, ReorgBlocks, Reorg, OperatorInv, TypeInv, TypeOK
<1> USE DEF vars, chainVars, operatorVars, loopVars, diskVars, netVars
<1>8. CASE UNCHANGED allVars
  BY <1>1, <1>8 DEF allVars
<1>9. CASE (\E r \in Requests : Produce(r)) \/ Start \/ Stop \/ Crash \/ ClearLock \/ Fault \/ Retry
  BY <1>1, <1>9 DEF Produce, Start, Stop, Crash, ClearLock, Fault, Retry, Abandon, Forget, GoTo, None
<1>10. CASE SubmitDone \/ RegisterNothing \/ ListUndecided \/ DecideDone \/ Audit \/ Wake
  BY <1>1, <1>10 DEF SubmitDone, RegisterNothing, ListUndecided, DecideDone, Audit, Wake, GoTo
<1>11. CASE (\E r \in Requests : SubmitFile(r) \/ DecideNext(r)) \/ RegisterPrepare \/ RegisterPrepared
  BY <1>1, <1>11 DEF SubmitFile, Submit, DecideNext, DecideRead, RegisterPrepare, PrepareRead,
     RegisterPrepared, PrepareReturn
<1>12. CASE StoreWorks
  BY <1>1, <1>12 DEF StoreWorks, Freeze, ExportBlob, ExportBatch, Evaluate, DecideCheck, DecideCommit
<1>13. CASE OpenJournal \/ Send \/ Settle
  <2>1. CASE Settle
    BY <1>1, <2>1 DEF Settle, None
  <2>2. CASE OpenJournal \/ Send
    <3>1. tx \in [step : {"open", "lookup"}, call : calls]
      BY <2>2 DEF OpenJournal, Send, OperatorInv, TransactInv, TxOK, None
    <3>2. tx'.step \in {"lookup", "wait"}
      BY <2>2, <3>1 DEF OpenJournal, Send, Step
    <3> QED
      BY <1>1, <2>2, <3>2 DEF OpenJournal, Send
  <2> QED
    BY <1>13, <2>1, <2>2
<1> QED
  BY <1>2, <1>3, <1>4, <1>5, <1>6, <1>7, <1>8, <1>9, <1>10, <1>11, <1>12, <1>13
     DEF OperatorNext, Daemon, Network

LEMMA NonceAlways == MaxReorgs = 0 /\ OperatorSpec => [](OperatorInv /\ NonceInv)
<1>1. MaxReorgs = 0 /\ OperatorInit => NonceInv
  BY DEF OperatorInit, Init, ChainInit, NonceInv, None
<1> QED
  BY <1>1, NonceStep, OperatorAlways, PTL DEF OperatorSpec

(* While the chain keeps its blocks, no fee is paid for a call that        *)
(* reverts: nothing is sent for a batch but the next one, once.            *)
THEOREM NoneReverts == MaxReorgs = 0 /\ OperatorSpec => []NothingReverts
<1>1. NonceInv => NothingReverts
  BY DEF NonceInv, NothingReverts
<1> QED
  BY <1>1, NonceAlways, PTL

(* While the chain keeps its blocks, a nonce is taken only when all that   *)
(* was signed before has its receipt, as run.js:114 says.                  *)
THEOREM NonceWaits == MaxReorgs = 0 /\ OperatorSpec => OutcomesKnown
<1>1. ASSUME OperatorInv, NonceInv, tx.step = "quote", NEW id \in DOMAIN journal
      PROVE  Receipts(journal[id]) # {}
  <2>1. tx.call.id = Len(executed) + 1 /\ AllSealed /\ tx.call.id \notin DOMAIN journal
    BY <1>1 DEF NonceInv, OperatorInv, TransactInv, TxOK, None
  <2>2. id \in DOMAIN executed
    <3>1. journal[id].call \in calls /\ journal[id].call.id = id
      BY <1>1 DEF OperatorInv, TransactInv, JournalOK
    <3>2. id \in Nat \ {0}
      BY <1>1, <3>1 DEF OperatorInv, TypeInv, TypeOK
    <3> QED
      BY <1>1, <2>1, <3>2, ExecutedType DEF NonceInv
  <2>3. executed[id].raw = journal[id]
    BY <1>1, <2>2, NonceIsBatch DEF NonceInv
  <2>4. executed[id].block <= Len(blocks)
    BY <2>1, <2>2 DEF AllSealed
  <2>5. id \in Receipts(journal[id])
    BY <2>2, <2>3, <2>4 DEF Receipts
  <2> QED
    BY <2>5
<1>2. OperatorInv /\ NonceInv =>
        [tx.step = "quote" /\ tx'.step = "sign" =>
            \A id \in DOMAIN journal : Receipts(journal[id]) # {}]_allVars
  BY <1>1
<1> QED
  BY <1>2, NonceAlways, PTL DEF OutcomesKnown

-----------------------------------------------------------------------------
(* What the store promises, of the running system *)

(* The daemon, its crashes and the network together implement the          *)
(* append-only log of commitments: a batch never changes once closed, none *)
(* is closed before the earlier ones are public, and the chain confirms    *)
(* public ones in order (run.js:25-31, store.js).                          *)
COROLLARY DaemonKeepsLog == OperatorSpec => ImplementsLog
BY StoreUsed, Implementation, PTL DEF UsesStore

(* However the daemon is interrupted, everything anchored has been         *)
(* published first, one commitment is made for a batch, requests are       *)
(* anchored in the order they came, an answer is anchored after its        *)
(* request and the snapshots answers rest on are kept (run.js:25-31).      *)
COROLLARY DaemonIsSafe ==
    OperatorSpec => [](/\ AnchoredIsPublished /\ NoEquivocation /\ FrozenPartition
                       /\ FirstComeFirstAnchored /\ CommitmentFirst /\ SnapshotsKept)
BY StoreUsed, Publication, OneCommitment, TablesAgree, SeqOrder, AnswersFollow, SnapshotsStay, PTL
   DEF UsesStore

(* While the chain keeps its blocks, the receipts the daemon's answers     *)
(* rest on hold, and each answer is anchored in a later block.             *)
COROLLARY DaemonReceiptsStand ==
    MaxReorgs = 0 /\ OperatorSpec => [](ReceiptsHold /\ EventOrder)
BY StoreUsed, ReceiptsStand, AnswersComeLater, PTL DEF UsesStore

=============================================================================
