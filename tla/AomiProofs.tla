------------------------------ MODULE AomiProofs -----------------------------
(***************************************************************************)
(* Proofs about Aomi, for any number of batches, actions, lost messages    *)
(* and restarts.                                                           *)
(***************************************************************************)
EXTENDS Aomi, NumberFacts, TLAPS

-----------------------------------------------------------------------------
(* The inductive invariant *)

Executing == pc \in {"sign", "transact", "wait", "report"}
Working == Executing \/ pc \in {"begin", "start", "send", "loop", "confirm"}

TypeInv ==
    /\ Working \/ pc \in {"down", "attach", "work"}
    /\ seen \in Session
    /\ Journals \subseteq Batches
    /\ \A b \in Journals : journal[b] \in Journal
    /\ chain \in Nat
    /\ server \in [Batches -> Session]

(* What the files say of each other and of the chain. *)
FilesOK ==
    /\ OneOpenJournal
    /\ \A b \in Journals : journal[b].hash => b <= chain
    /\ SignedIsRequested
    /\ sent \subseteq signed

Status(b, i) == server[b].actions[i].status

(* All actions before i have been taken back by the server. *)
Oldest(b, i) ==
    /\ b \in Batches /\ i \in DOMAIN server[b].actions
    /\ \A k \in 1..(i - 1) : Status(b, k) = "gone"

(* An action whose result the server may get, or has got. *)
Reported(b, i) == Oldest(b, i) /\ b \in Journals /\ journal[b].hash

(* What this client has seen of a session is still true of it. *)
Follows(old, new) ==
    \A i \in DOMAIN old.actions :
        /\ i \in DOMAIN new.actions
        /\ old.actions[i].status \in {"gone", "submitted"}
              => new.actions[i].status = old.actions[i].status

(* The agent's server has at most what was reported, and all that is       *)
(* confirmed.                                                              *)
SessionsOK ==
    /\ \A w \in wire : w[2] = 0 \/ Reported(w[1], w[2])
    /\ \A b \in Batches : \A i \in Submitted(b) : Reported(b, i)
    /\ \A b \in Confirmed : Submitted(b) # {} /\ journal[b].hash

(* What the command has saved, seen and sent by the step it has reached. *)
CommandOK ==
    /\ Working => cur \in Open
    /\ pc = "work" => Open = {}
    /\ Executing => journal[cur].request = "authorized" /\ Oldest(cur, chosen)
    /\ pc \in {"transact", "wait", "report"} => cur \in signed
    /\ pc = "loop" => Follows(seen, server[cur])
    /\ pc = "report" => journal[cur].hash
    /\ pc = "confirm" => Submitted(cur) # {} /\ journal[cur].hash

AomiInv == TypeInv /\ FilesOK /\ SessionsOK /\ CommandOK

-----------------------------------------------------------------------------
(* Operators *)

LEMMA FirstPending ==
    ASSUME seen \in Session, PendingActions # {}
    PROVE  First \in PendingActions /\ \A k \in PendingActions : First <= k
<1>1. seen.actions \in Seq(Action)
  BY DEF Session
<1>2. PendingActions \in SUBSET Nat
  BY <1>1 DEF PendingActions
<1> QED
  BY <1>2, LeastOf DEF First

LEMMA SaveEffect ==
    ASSUME AomiInv, Working, NEW j \in Journal, Save(j)
    PROVE  /\ DOMAIN journal' = Journals
           /\ journal'[cur] = j
           /\ \A b \in Journals \ {cur} : journal'[b] = journal[b]
           /\ \A b \in Journals : journal'[b] \in Journal
<1>1. cur \in Journals
  BY DEF AomiInv, CommandOK, Open
<1> QED
  BY <1>1 DEF Save, Journals, AomiInv, TypeInv

LEMMA MineType ==
    ASSUME AomiInv, Working
    PROVE  /\ cur \in Journals /\ cur \in Batches /\ Mine \in Journal
           /\ Mine.state = "pending" /\ server[cur] \in Session
BY DEF AomiInv, CommandOK, TypeInv, Open, Confirmed, Mine, Journal

-----------------------------------------------------------------------------
(* Steps that change no session, and no file *)

LEMMA StillOK ==
    ASSUME AomiInv, UNCHANGED <<journal, signed, sent, chain, server, wire>>
    PROVE  /\ FilesOK' /\ SessionsOK' /\ Open' = Open
           /\ \A b, i : Oldest(b, i) => Oldest(b, i)'
           /\ Journals' = Journals /\ \A b : Submitted(b)' = Submitted(b)
<1>1. Journals' = Journals /\ Confirmed' = Confirmed /\ Open' = Open
  BY DEF Journals, Confirmed, Open
<1>2. FilesOK'
  BY <1>1 DEF AomiInv, FilesOK, OneOpenJournal, SignedIsRequested
<1>3. \A b : Submitted(b)' = Submitted(b)
  BY DEF Submitted
<1>4. \A b, i : Oldest(b, i) => Oldest(b, i)'
  BY DEF Oldest, Status
<1>5. SessionsOK'
  BY <1>1, <1>3, <1>4 DEF AomiInv, SessionsOK, Reported
<1> QED
  BY <1>1, <1>2, <1>3, <1>4, <1>5

(* The session of a batch, once it is fetched. *)
LEMMA FollowsItself ==
    ASSUME NEW session \in Session
    PROVE  Follows(session, session)
BY DEF Follows

LEMMA MoveStep ==
    ASSUME AomiInv,
           \/ Run \/ Attached \/ Finished \/ Stop \/ Restore \/ Recognise \/ GiveUp \/ Fetch
           \/ Transact \/ UNCHANGED vars
    PROVE  AomiInv'
<1> USE DEF disk, outside, remote, memory, Executing, Working
<1>1. NoSession \in Session
  BY DEF NoSession, Session
<1>2. TypeInv
  BY DEF AomiInv
<1>3. CASE Transact
  <2>1. /\ UNCHANGED <<journal, signed, chain, server, wire, cur, chosen>>
        /\ pc = "transact" /\ pc' = "wait" /\ sent' = sent \cup {cur} /\ seen' = NoSession
    BY <1>3 DEF Transact, GoTo
  <2>2. Journals' = Journals /\ Confirmed' = Confirmed /\ Open' = Open
    BY <2>1 DEF Journals, Confirmed, Open
  <2>3. TypeInv'
    BY <1>1, <1>2, <2>1, <2>2 DEF TypeInv
  <2>4. FilesOK'
    BY <2>1, <2>2 DEF AomiInv, FilesOK, CommandOK, OneOpenJournal, SignedIsRequested
  <2>5. SessionsOK'
    BY <2>1, <2>2 DEF AomiInv, SessionsOK, Reported, Oldest, Status, Submitted
  <2>6. CommandOK'
    BY <2>1, <2>2 DEF AomiInv, CommandOK, Oldest, Status
  <2> QED
    BY <2>3, <2>4, <2>5, <2>6 DEF AomiInv
<1>4. CASE UNCHANGED vars
  <2>1. UNCHANGED <<pc, cur, seen, chosen, journal, signed, sent, chain, server, wire>>
    BY <1>4 DEF vars
  <2>2. FilesOK' /\ SessionsOK' /\ Open' = Open /\ Journals' = Journals
        /\ (\A b, i : Oldest(b, i) => Oldest(b, i)') /\ \A b : Submitted(b)' = Submitted(b)
    BY <2>1, StillOK
  <2>3. TypeInv'
    BY <1>2, <2>1, <2>2 DEF TypeInv
  <2>4. CommandOK'
    BY <2>1, <2>2 DEF AomiInv, CommandOK
  <2> QED
    BY <2>2, <2>3, <2>4 DEF AomiInv
<1>5. CASE Run \/ Attached \/ Finished \/ Stop \/ Restore \/ Recognise \/ GiveUp \/ Fetch
  <2>1. UNCHANGED <<journal, signed, sent, chain, server, wire>>
    BY <1>5 DEF Run, Attached, Finished, Stop, Restore, Recognise, GiveUp, Fetch
  <2>2. FilesOK' /\ SessionsOK' /\ Open' = Open /\ Journals' = Journals
        /\ (\A b, i : Oldest(b, i) => Oldest(b, i)') /\ \A b : Submitted(b)' = Submitted(b)
    BY <2>1, StillOK
  <2>3. CASE pc' \in {"down", "attach"} /\ seen' = NoSession
    <3>1. TypeInv'
      BY <1>1, <1>2, <2>1, <2>2, <2>3 DEF TypeInv
    <3>2. CommandOK'
      BY <2>3 DEF CommandOK
    <3> QED
      BY <2>2, <3>1, <3>2 DEF AomiInv
  <2>4. CASE Run \/ Finished \/ Stop \/ GiveUp
    BY <2>3, <2>4 DEF Run, Finished, Stop, GiveUp, GoTo, Leave, Exit
  <2>5. CASE Attached
    <3>1. pc' = "work" /\ seen' = NoSession /\ Open = {}
      BY <2>5 DEF Attached, GoTo
    <3>2. TypeInv'
      BY <1>1, <1>2, <2>1, <2>2, <3>1 DEF TypeInv
    <3>3. CommandOK'
      BY <2>2, <3>1 DEF CommandOK
    <3> QED
      BY <2>2, <3>2, <3>3 DEF AomiInv
  <2>6. CASE Restore \/ Fetch
    <3>1. /\ UNCHANGED cur /\ Working
          /\ \/ pc' = "loop" /\ seen' = server[cur]
             \/ pc' = "start" /\ seen' = NoSession
      BY <2>6 DEF Restore, Fetch, GoTo
    <3>2. server[cur] \in Session /\ cur \in Open
      BY <3>1, MineType DEF AomiInv, CommandOK
    <3>3. TypeInv'
      BY <1>1, <1>2, <2>1, <2>2, <3>1, <3>2 DEF TypeInv
    <3>4. CommandOK'
      BY <2>1, <2>2, <3>1, <3>2, FollowsItself DEF CommandOK
    <3> QED
      BY <2>2, <3>3, <3>4 DEF AomiInv
  <2>7. CASE Recognise
    <3>1. /\ UNCHANGED cur /\ pc = "loop" /\ pc' = "confirm" /\ seen' = NoSession
          /\ Mine.hash /\ \E i \in DOMAIN seen.actions : seen.actions[i].status = "submitted"
      BY <2>7 DEF Recognise, GoTo, Acknowledged
    <3>2. Submitted(cur) # {}
      BY <3>1 DEF AomiInv, CommandOK, Follows, Submitted
    <3>3. TypeInv'
      BY <1>1, <1>2, <2>1, <2>2, <3>1 DEF TypeInv
    <3>4. CommandOK'
      BY <2>1, <2>2, <3>1, <3>2 DEF AomiInv, CommandOK, Mine
    <3> QED
      BY <2>2, <3>3, <3>4 DEF AomiInv
  <2> QED
    BY <1>5, <2>4, <2>5, <2>6, <2>7
<1> QED
  BY <1>3, <1>4, <1>5

-----------------------------------------------------------------------------
(* Steps that write the journal *)

LEMMA BeginStep ==
    ASSUME AomiInv, Resume \/ Register
    PROVE  AomiInv'
<1> USE DEF outside, remote, Executing, Working
<1>1. PICK b \in Batches :
          /\ Begin(b)
          /\ \/ b \in Open
             \/ b \notin Journals /\ Open = {} /\ b = chain + 1
  <2>1. CASE Resume
    BY <2>1 DEF Resume, Open, AomiInv, TypeInv
  <2>2. CASE Register
    BY <2>2 DEF Register, AomiInv, CommandOK
  <2> QED
    BY <2>1, <2>2
<1>2. /\ pc' = "begin" /\ cur' = b /\ UNCHANGED <<seen, chosen, signed, sent, chain, server, wire>>
      /\ journal' = [i \in Journals \cup {b} |-> IF i \in Journals THEN journal[i] ELSE NewJournal]
  BY <1>1 DEF Begin
<1>3. /\ Journals' = Journals \cup {b}
      /\ \A i \in Journals : journal'[i] = journal[i]
      /\ b \notin Journals => journal'[b] = NewJournal
  BY <1>2 DEF Journals
<1>4. NewJournal \in Journal /\ ~NewJournal.hash /\ NewJournal.state = "pending"
  BY DEF NewJournal, Journal, TurnLimit
<1>5. Confirmed' = Confirmed /\ Open' = Open \cup {b} /\ b \in Open'
  BY <1>1, <1>3, <1>4 DEF Confirmed, Open
<1>6. TypeInv'
  BY <1>1, <1>2, <1>3, <1>4 DEF AomiInv, TypeInv
<1>7. FilesOK'
  <2>1. OneOpenJournal'
    <3>1. CASE b \in Open
      BY <1>3, <1>5, <3>1 DEF AomiInv, FilesOK, OneOpenJournal, Open
    <3>2. CASE b \notin Journals /\ Open = {} /\ b = chain + 1
      <4>1. \A i \in Journals : i <= chain
        BY <3>2 DEF Open, AomiInv, FilesOK, SessionsOK
      <4>2. Open' = {b} /\ chain \in Nat /\ Journals \subseteq Nat /\ b \in Nat
        BY <1>1, <1>5, <3>2 DEF AomiInv, TypeInv, Batches
      <4>3. \A i \in Journals : i <= b
        BY <3>2, <4>1, <4>2
      <4> QED
        BY <1>3, <4>2, <4>3 DEF OneOpenJournal
    <3> QED
      BY <1>1, <3>1, <3>2
  <2>2. (\A i \in Journals : journal[i].hash => i <= chain)'
    BY <1>2, <1>3, <1>4 DEF AomiInv, FilesOK
  <2>3. SignedIsRequested' /\ (sent \subseteq signed)'
    BY <1>2, <1>3 DEF AomiInv, FilesOK, SignedIsRequested
  <2> QED
    BY <2>1, <2>2, <2>3 DEF FilesOK
<1>8. SessionsOK'
  <2>1. \A d : Submitted(d)' = Submitted(d)
    BY <1>2 DEF Submitted
  <2>2. \A d, i : Reported(d, i) => Reported(d, i)'
    BY <1>2, <1>3 DEF Reported, Oldest, Status
  <2>3. (\A d \in Confirmed : Submitted(d) # {} /\ journal[d].hash)'
    BY <1>3, <1>5, <2>1 DEF AomiInv, SessionsOK, Confirmed
  <2> QED
    BY <1>2, <2>1, <2>2, <2>3 DEF AomiInv, SessionsOK
<1>9. CommandOK'
  BY <1>2, <1>5 DEF CommandOK
<1> QED
  BY <1>6, <1>7, <1>8, <1>9 DEF AomiInv

(* Saving the journal of the batch the command is about: its request and   *)
(* its hash, once saved, stay.                                             *)
LEMMA SaveKeeps ==
    ASSUME AomiInv, Working, NEW j \in Journal, Save(j),
           j.request \in {Mine.request, "authorized"},
           Mine.hash => j.hash, j.hash => cur <= chain,
           j.state = "confirmed" => Submitted(cur) # {} /\ j.hash,
           UNCHANGED <<signed, sent, chain, server, wire>>
    PROVE  /\ FilesOK' /\ SessionsOK'
           /\ Journals' = Journals /\ (\A b \in Journals : journal'[b] \in Journal)
           /\ journal'[cur] = j
           /\ Open \ {cur} = {}
           /\ \A b, i : Oldest(b, i) => Oldest(b, i)'
           /\ \A b : Submitted(b)' = Submitted(b)
<1>1. /\ DOMAIN journal' = Journals /\ journal'[cur] = j
      /\ \A b \in Journals \ {cur} : journal'[b] = journal[b]
      /\ \A b \in Journals : journal'[b] \in Journal
  BY SaveEffect
<1>2. Journals' = Journals
  BY <1>1 DEF Journals
<1>3. cur \in Open /\ cur \in Journals
  BY DEF AomiInv, CommandOK, Open
<1>4. Open \ {cur} = {}
  <2> SUFFICES ASSUME NEW b \in Open PROVE b = cur
    OBVIOUS
  <2>1. b \in Journals /\ cur \in Journals /\ b \in Nat /\ cur \in Nat
    BY <1>3 DEF Open, AomiInv, TypeInv, Batches
  <2>2. b <= cur /\ cur <= b
    BY <1>3, <2>1 DEF AomiInv, FilesOK, OneOpenJournal
  <2> QED
    BY <2>1, <2>2
<1>5. Open' \subseteq {cur} /\ Confirmed' \subseteq Confirmed \cup {cur}
  BY <1>1, <1>2, <1>4 DEF Open, Confirmed
<1>6. FilesOK'
  <2>1. OneOpenJournal'
    BY <1>2, <1>3, <1>5 DEF AomiInv, FilesOK, OneOpenJournal
  <2>2. (\A b \in Journals : journal[b].hash => b <= chain)'
    BY <1>1, <1>2 DEF AomiInv, FilesOK
  <2>3. SignedIsRequested' /\ (sent \subseteq signed)'
    BY <1>1, <1>2 DEF AomiInv, FilesOK, SignedIsRequested, Mine
  <2> QED
    BY <2>1, <2>2, <2>3 DEF FilesOK
<1>7. \A b, i : Oldest(b, i) => Oldest(b, i)'
  BY DEF Oldest, Status
<1>8. \A b : Submitted(b)' = Submitted(b)
  BY DEF Submitted
<1>9. \A b, i : Reported(b, i) => Reported(b, i)'
  BY <1>1, <1>2, <1>7 DEF Reported, Mine
<1>10. SessionsOK'
  <2>1. (\A b \in Confirmed : Submitted(b) # {} /\ journal[b].hash)'
    <3> SUFFICES ASSUME NEW b \in Confirmed' PROVE Submitted(b) # {} /\ journal'[b].hash
      BY <1>8
    <3>1. CASE b = cur
      BY <3>1, <1>1 DEF Confirmed
    <3>2. CASE b # cur
      BY <3>2, <1>1, <1>2, <1>5 DEF AomiInv, SessionsOK, Confirmed
    <3> QED
      BY <3>1, <3>2
  <2> QED
    BY <2>1, <1>8, <1>9 DEF AomiInv, SessionsOK
<1> QED
  BY <1>1, <1>2, <1>4, <1>6, <1>7, <1>8, <1>10

LEMMA SavingStep ==
    ASSUME AomiInv, Start \/ Execute \/ Repair \/ Retry \/ Settle \/ Confirm
    PROVE  AomiInv'
<1> USE DEF disk, outside, remote, Executing, Working
<1>1. NoSession \in Session /\ TypeInv
  BY DEF NoSession, Session, AomiInv
<1>2. CASE Start \/ Repair \/ Retry
  <2>1. PICK j : /\ Send(j)
                 /\ \/ j = [Mine EXCEPT !.started = TRUE]
                    \/ j = [Mine EXCEPT !.repaired = TRUE]
                    \/ j = [Mine EXCEPT !.attempts = @ + 1] /\ Mine.attempts < TurnLimit
    BY <1>2 DEF Start, Repair, Retry
  <2>2. Working
    BY <1>2 DEF Start, Repair, Retry
  <2>3. Mine \in Journal /\ Mine.state = "pending" /\ (Mine.hash => cur <= chain)
    BY <2>2, MineType DEF AomiInv, FilesOK, Mine
  <2>4. /\ j \in Journal /\ j.request = Mine.request /\ j.hash = Mine.hash
        /\ j.state = "pending"
    <3>1. CASE j = [Mine EXCEPT !.started = TRUE] \/ j = [Mine EXCEPT !.repaired = TRUE]
      BY <2>3, <3>1 DEF Journal
    <3>2. CASE j = [Mine EXCEPT !.attempts = @ + 1] /\ Mine.attempts < TurnLimit
      <4>1. Mine.attempts + 1 \in 0..TurnLimit
        BY <2>3, <3>2 DEF Journal, TurnLimit
      <4>2. j = [Mine EXCEPT !.attempts = Mine.attempts + 1]
        BY <3>2
      <4> QED
        BY <2>3, <4>1, <4>2 DEF Journal
    <3> QED
      BY <2>1, <3>1, <3>2
  <2>5. Save(j) /\ pc' = "send" /\ seen' = NoSession
        /\ UNCHANGED <<cur, chosen, signed, sent, chain, server, wire>>
    BY <2>1 DEF Send, GoTo
  <2>6. /\ FilesOK' /\ SessionsOK'
        /\ Journals' = Journals /\ (\A b \in Journals : journal'[b] \in Journal)
        /\ journal'[cur] = j
    BY <2>2, <2>3, <2>4, <2>5, SaveKeeps
  <2>7. TypeInv'
    BY <1>1, <2>5, <2>6 DEF TypeInv
  <2>8. CommandOK'
    BY <2>2, <2>4, <2>5, <2>6, MineType DEF CommandOK, Open, Confirmed
  <2> QED
    BY <2>6, <2>7, <2>8 DEF AomiInv
<1>3. CASE Execute
  <2>1. pc = "loop" /\ ~Acknowledged /\ PendingActions # {}
    BY <1>3 DEF Execute
  <2>2. CASE pc' = "down"
    <3>1. /\ UNCHANGED <<journal, signed, sent, chain, server, wire>> /\ seen' = NoSession
      BY <1>3, <2>2 DEF Execute, Exit, Leave
    <3>2. FilesOK' /\ SessionsOK' /\ Journals' = Journals
      BY <3>1, StillOK
    <3>3. TypeInv'
      BY <1>1, <2>2, <3>1, <3>2 DEF TypeInv
    <3>4. CommandOK'
      BY <2>2 DEF CommandOK
    <3> QED
      BY <3>2, <3>3, <3>4 DEF AomiInv
  <2>3. CASE pc' # "down"
    <3> DEFINE j == [Mine EXCEPT !.request = "authorized"]
    <3>1. /\ Save(j) /\ pc' = "sign" /\ chosen' = First /\ seen' = NoSession
          /\ UNCHANGED <<cur, signed, sent, chain, server, wire>>
      BY <1>3, <2>3 DEF Execute, Exit, Leave
    <3>2. Mine \in Journal /\ Mine.state = "pending" /\ (Mine.hash => cur <= chain)
          /\ server[cur] \in Session /\ cur \in Journals /\ cur \in Batches
      BY <2>1, MineType DEF AomiInv, FilesOK, Mine
    <3>3. /\ j \in Journal /\ j.request = "authorized" /\ j.hash = Mine.hash
          /\ j.state = "pending"
      BY <3>2 DEF Journal, Requests
    <3> HIDE DEF j
    <3>4. /\ FilesOK' /\ SessionsOK'
          /\ Journals' = Journals /\ (\A b \in Journals : journal'[b] \in Journal)
          /\ journal'[cur] = j
          /\ \A b, i : Oldest(b, i) => Oldest(b, i)'
      BY <2>1, <3>1, <3>2, <3>3, SaveKeeps
    <3>5. Oldest(cur, First)
      <4>1. First \in PendingActions /\ \A k \in PendingActions : First <= k
        BY <1>1, <2>1, FirstPending DEF TypeInv
      <4>2. seen.actions \in Seq(Action) /\ Follows(seen, server[cur])
        BY <1>1, <2>1 DEF TypeInv, Session, AomiInv, CommandOK
      <4>3. First \in DOMAIN server[cur].actions /\ First \in DOMAIN seen.actions
        BY <4>1, <4>2 DEF PendingActions, Follows
      <4>4. ASSUME NEW k \in 1..(First - 1) PROVE Status(cur, k) = "gone"
        <5>1. k \in DOMAIN seen.actions /\ ~(First <= k) /\ seen.actions[k] \in Action
          BY <4>2, <4>3
        <5>2. seen.actions[k].status \in {"gone", "submitted"}
          BY <4>1, <5>1 DEF PendingActions, Action, Statuses
        <5>3. Status(cur, k) = seen.actions[k].status /\ k \in DOMAIN server[cur].actions
          BY <4>2, <5>1, <5>2 DEF Follows, Status
        <5>4. CASE seen.actions[k].status = "submitted"
          <6>1. k \in Submitted(cur)
            BY <5>3, <5>4 DEF Submitted, Status
          <6>2. Mine.hash
            BY <3>2, <6>1 DEF AomiInv, SessionsOK, Reported, Mine
          <6> QED
            BY <2>1, <5>1, <5>4, <6>2 DEF Acknowledged
        <5> QED
          BY <5>2, <5>3, <5>4
      <4> QED
        BY <3>2, <4>3, <4>4 DEF Oldest
    <3>6. Oldest(cur, chosen)'
      BY <3>1, <3>5 DEF Oldest, Status
    <3>7. TypeInv'
      BY <1>1, <3>1, <3>4 DEF TypeInv
    <3>8. CommandOK'
      BY <3>1, <3>2, <3>3, <3>4, <3>6 DEF CommandOK, Open, Confirmed
    <3> QED
      BY <3>4, <3>7, <3>8 DEF AomiInv
  <2> QED
    BY <2>2, <2>3
<1>4. CASE Settle
  <2> DEFINE j == [Mine EXCEPT !.hash = TRUE]
  <2>1. /\ pc = "wait" /\ cur <= chain /\ Save(j) /\ pc' = "report" /\ seen' = NoSession
        /\ UNCHANGED <<cur, chosen, signed, sent, chain, server, wire>>
    BY <1>4 DEF Settle, GoTo
  <2>2. Mine \in Journal /\ Mine.state = "pending" /\ cur \in Journals
    BY <2>1, MineType
  <2>3. j \in Journal /\ j.request = Mine.request /\ j.hash /\ j.state = "pending"
    BY <2>2 DEF Journal
  <2> HIDE DEF j
  <2>4. /\ FilesOK' /\ SessionsOK'
        /\ Journals' = Journals /\ (\A b \in Journals : journal'[b] \in Journal)
        /\ journal'[cur] = j
        /\ \A b, i : Oldest(b, i) => Oldest(b, i)'
    BY <2>1, <2>2, <2>3, SaveKeeps
  <2>5. Oldest(cur, chosen)' /\ Mine.request = "authorized" /\ cur \in signed
    BY <2>1, <2>4 DEF AomiInv, CommandOK, Oldest, Status, Mine
  <2>6. TypeInv'
    BY <1>1, <2>1, <2>4 DEF TypeInv
  <2>7. CommandOK'
    BY <2>1, <2>2, <2>3, <2>4, <2>5 DEF CommandOK, Open, Confirmed
  <2> QED
    BY <2>4, <2>6, <2>7 DEF AomiInv
<1>5. CASE Confirm
  <2> DEFINE j == [Mine EXCEPT !.state = "confirmed"]
  <2>1. /\ pc = "confirm" /\ Save(j) /\ pc' = "work" /\ seen' = NoSession
        /\ UNCHANGED <<signed, sent, chain, server, wire>>
    BY <1>5 DEF Confirm, Leave
  <2>2. /\ Mine \in Journal /\ (Mine.hash => cur <= chain) /\ Mine.hash /\ cur \in Journals
        /\ Submitted(cur) # {}
    BY <2>1, MineType DEF AomiInv, FilesOK, CommandOK, Mine
  <2>3. j \in Journal /\ j.request = Mine.request /\ j.hash = Mine.hash /\ j.state = "confirmed"
    BY <2>2 DEF Journal
  <2> HIDE DEF j
  <2>4. /\ FilesOK' /\ SessionsOK'
        /\ Journals' = Journals /\ (\A b \in Journals : journal'[b] \in Journal)
        /\ journal'[cur] = j
        /\ Open \ {cur} = {}
    BY <2>1, <2>2, <2>3, SaveKeeps
  <2>5. Open' = {}
    <3>1. \A b \in Journals \ {cur} : journal'[b] = journal[b]
      BY <2>1, <2>3, SaveEffect
    <3> QED
      BY <2>3, <2>4, <3>1 DEF Open, Confirmed
  <2>6. TypeInv'
    BY <1>1, <2>1, <2>4 DEF TypeInv
  <2>7. CommandOK'
    BY <2>1, <2>5 DEF CommandOK
  <2> QED
    BY <2>4, <2>6, <2>7 DEF AomiInv
<1> QED
  BY <1>2, <1>3, <1>4, <1>5

-----------------------------------------------------------------------------
(* Steps of the signer and of the network *)

LEMMA SignStep ==
    ASSUME AomiInv, Sign
    PROVE  AomiInv'
<1> USE DEF outside, remote, Executing, Working
<1>1. /\ pc = "sign" /\ UNCHANGED <<journal, sent, chain, server, wire>> /\ seen' = NoSession
      /\ \/ pc' = "transact" /\ UNCHANGED <<cur, chosen>> /\ signed' = signed \cup {cur}
         \/ pc' = "down" /\ UNCHANGED signed
  BY DEF Sign, GoTo, Exit, Leave
<1>2. /\ cur \in Journals /\ journal[cur].request = "authorized" /\ cur \in Open
      /\ signed \subseteq signed' /\ signed' \subseteq signed \cup {cur}
  BY <1>1 DEF AomiInv, CommandOK, Open
<1>3. Journals' = Journals /\ Confirmed' = Confirmed /\ Open' = Open
  BY <1>1 DEF Journals, Confirmed, Open
<1>4. NoSession \in Session
  BY DEF NoSession, Session
<1>5. TypeInv'
  BY <1>1, <1>3, <1>4 DEF AomiInv, TypeInv
<1>6. FilesOK'
  BY <1>1, <1>2, <1>3 DEF AomiInv, FilesOK, OneOpenJournal, SignedIsRequested
<1>7. SessionsOK'
  BY <1>1, <1>3 DEF AomiInv, SessionsOK, Reported, Oldest, Status, Submitted
<1>8. CommandOK'
  BY <1>1, <1>2, <1>3 DEF AomiInv, CommandOK, Oldest, Status
<1> QED
  BY <1>5, <1>6, <1>7, <1>8 DEF AomiInv

LEMMA ExecutionStep ==
    ASSUME AomiInv, Execution
    PROVE  AomiInv'
<1>1. /\ UNCHANGED <<pc, cur, seen, chosen, journal, signed, sent, server, wire>>
      /\ chain' = chain + 1 /\ chain \in Nat
  BY DEF Execution, memory, disk, remote, AomiInv, TypeInv
<1>2. Journals' = Journals /\ Confirmed' = Confirmed /\ Open' = Open
  BY <1>1 DEF Journals, Confirmed, Open
<1>3. TypeInv'
  BY <1>1, <1>2 DEF AomiInv, TypeInv, Executing, Working
<1>4. (\A b \in Journals : journal[b].hash => b <= chain)'
  <2>1. \A b \in Journals : b \in Nat /\ (journal[b].hash => b <= chain)
    BY DEF AomiInv, TypeInv, FilesOK, Batches
  <2>2. \A b \in Journals : journal[b].hash => b <= chain + 1
    BY <1>1, <2>1
  <2> QED
    BY <1>1, <1>2, <2>2
<1>5. FilesOK'
  BY <1>1, <1>2, <1>4 DEF AomiInv, FilesOK, OneOpenJournal, SignedIsRequested
<1>6. SessionsOK'
  BY <1>1, <1>2 DEF AomiInv, SessionsOK, Reported, Oldest, Status, Submitted
<1>7. CommandOK'
  BY <1>1, <1>2 DEF AomiInv, CommandOK, Oldest, Status, Executing, Working, Submitted
<1> QED
  BY <1>3, <1>5, <1>6, <1>7 DEF AomiInv

-----------------------------------------------------------------------------
(* Steps that change a session *)

(* A session changes to one that follows it, and the server takes for      *)
(* submitted only what was reported.                                       *)
LEMMA SessionChange ==
    ASSUME AomiInv, NEW b \in Batches, NEW s \in Session,
           server' = [server EXCEPT ![b] = s],
           Follows(server[b], s),
           \A i \in DOMAIN s.actions :
              s.actions[i].status = "submitted" => i \in Submitted(b) \/ Reported(b, i),
           \A w \in wire' : w \in wire \/ w[2] = 0 \/ Reported(w[1], w[2]),
           UNCHANGED <<journal, signed, sent, chain>>
    PROVE  /\ server' \in [Batches -> Session] /\ server'[b] = s
           /\ \A d \in Batches : Follows(server[d], server'[d])
           /\ FilesOK' /\ SessionsOK'
           /\ Journals' = Journals /\ Open' = Open
           /\ \A d, i : Oldest(d, i) => Oldest(d, i)'
           /\ \A d \in Batches : Submitted(d) \subseteq Submitted(d)'
<1>1. /\ server \in [Batches -> Session] /\ server' \in [Batches -> Session]
      /\ server'[b] = s /\ \A d \in Batches \ {b} : server'[d] = server[d]
  BY DEF AomiInv, TypeInv
<1>2. \A d \in Batches : Follows(server[d], server'[d])
  <2>1. \A d \in Batches : server[d] \in Session
    BY <1>1
  <2> QED
    BY <1>1, <2>1, FollowsItself
<1>3. Journals' = Journals /\ Confirmed' = Confirmed /\ Open' = Open
  BY DEF Journals, Confirmed, Open
<1>4. FilesOK'
  BY <1>3 DEF AomiInv, FilesOK, OneOpenJournal, SignedIsRequested
<1>5. ASSUME NEW d, NEW i, Oldest(d, i) PROVE Oldest(d, i)'
  <2>1. d \in Batches /\ i \in DOMAIN server[d].actions /\ server[d].actions \in Seq(Action)
    BY <1>1, <1>5 DEF Oldest, Session
  <2>2. i \in DOMAIN server'[d].actions
    BY <1>2, <2>1 DEF Follows
  <2>3. \A k \in 1..(i - 1) : k \in DOMAIN server[d].actions
    BY <2>1
  <2>4. \A k \in 1..(i - 1) : server'[d].actions[k].status = "gone"
    BY <1>2, <1>5, <2>1, <2>3 DEF Follows, Oldest, Status
  <2> QED
    BY <2>1, <2>2, <2>4 DEF Oldest, Status
<1>6. \A d \in Batches : Submitted(d) \subseteq Submitted(d)'
  BY <1>2 DEF Submitted, Follows
<1>7. \A d, i : Reported(d, i) => Reported(d, i)'
  BY <1>3, <1>5 DEF Reported
<1>8. SessionsOK'
  <2>1. (\A w \in wire : w[2] = 0 \/ Reported(w[1], w[2]))'
    <3>1. \A w \in wire' : w[2] = 0 \/ Reported(w[1], w[2])
      BY DEF AomiInv, SessionsOK
    <3> QED
      BY <1>7, <3>1
  <2>2. (\A d \in Batches : \A i \in Submitted(d) : Reported(d, i))'
    <3> SUFFICES ASSUME NEW d \in Batches, NEW i \in Submitted(d)' PROVE Reported(d, i)'
      BY DEF Batches
    <3>1. CASE d = b
      BY <1>1, <1>7, <3>1 DEF Submitted, AomiInv, SessionsOK
    <3>2. CASE d # b
      BY <1>1, <1>7, <3>2 DEF Submitted, AomiInv, SessionsOK
    <3> QED
      BY <3>1, <3>2
  <2>3. (\A d \in Confirmed : Submitted(d) # {} /\ journal[d].hash)'
    <3>1. \A d \in Confirmed : d \in Batches /\ Submitted(d) # {} /\ journal[d].hash
      BY DEF AomiInv, SessionsOK, TypeInv, Confirmed
    <3> QED
      BY <1>3, <1>6, <3>1
  <2> QED
    BY <2>1, <2>2, <2>3 DEF SessionsOK
<1> QED
  BY <1>1, <1>2, <1>3, <1>4, <1>5, <1>6, <1>8

(* The same, where the command goes on as it was. *)
LEMMA ServerStep ==
    ASSUME AomiInv, NEW b \in Batches, NEW s \in Session,
           server' = [server EXCEPT ![b] = s],
           Follows(server[b], s),
           \A i \in DOMAIN s.actions :
              s.actions[i].status = "submitted" => i \in Submitted(b) \/ Reported(b, i),
           \A w \in wire' : w \in wire \/ w[2] = 0 \/ Reported(w[1], w[2]),
           UNCHANGED <<pc, cur, seen, chosen, journal, signed, sent, chain>>
    PROVE  AomiInv'
<1>1. /\ server' \in [Batches -> Session]
      /\ \A d \in Batches : Follows(server[d], server'[d])
      /\ FilesOK' /\ SessionsOK'
      /\ Journals' = Journals /\ Open' = Open
      /\ \A d, i : Oldest(d, i) => Oldest(d, i)'
      /\ \A d \in Batches : Submitted(d) \subseteq Submitted(d)'
  BY SessionChange
<1>2. TypeInv'
  BY <1>1 DEF AomiInv, TypeInv, Executing, Working
<1>3. CommandOK'
  <2>1. (Working => cur \in Open)' /\ (pc = "work" => Open = {})'
    BY <1>1 DEF AomiInv, CommandOK, Executing, Working
  <2>2. (Executing => journal[cur].request = "authorized" /\ Oldest(cur, chosen))'
    <3>1. Executing => journal[cur].request = "authorized" /\ Oldest(cur, chosen)'
      BY <1>1 DEF AomiInv, CommandOK
    <3> QED
      BY <3>1 DEF Executing
  <2>3. /\ (pc \in {"transact", "wait", "report"} => cur \in signed)'
        /\ (pc = "report" => journal[cur].hash)'
    BY DEF AomiInv, CommandOK
  <2>4. (pc = "loop" => Follows(seen, server[cur]))'
    <3> SUFFICES ASSUME pc = "loop" PROVE Follows(seen, server'[cur])
      OBVIOUS
    <3>1. cur \in Batches
      BY MineType DEF Working
    <3>2. Follows(seen, server[cur]) /\ Follows(server[cur], server'[cur])
      BY <1>1, <3>1 DEF AomiInv, CommandOK
    <3> QED
      BY <3>2 DEF Follows
  <2>5. (pc = "confirm" => Submitted(cur) # {} /\ journal[cur].hash)'
    <3> SUFFICES ASSUME pc = "confirm" PROVE Submitted(cur)' # {} /\ journal[cur].hash
      OBVIOUS
    <3>1. cur \in Batches
      BY MineType DEF Working
    <3>2. Submitted(cur) # {} /\ journal[cur].hash /\ Submitted(cur) \subseteq Submitted(cur)'
      <4>1. \A d \in Batches : d = cur => Submitted(d)' = Submitted(cur)'
        BY DEF Submitted
      <4> QED
        BY <1>1, <3>1, <4>1 DEF AomiInv, CommandOK
    <3> QED
      BY <3>2
  <2> QED
    BY <2>1, <2>2, <2>3, <2>4, <2>5 DEF CommandOK
<1> QED
  BY <1>1, <1>2, <1>3 DEF AomiInv

(* A turn begins or ends: the actions stay. *)
LEMMA TurnChange ==
    ASSUME AomiInv, NEW b \in Batches, NEW s \in Session, s.actions = server[b].actions
    PROVE  /\ Follows(server[b], s)
           /\ \A i \in DOMAIN s.actions :
                 s.actions[i].status = "submitted" => i \in Submitted(b) \/ Reported(b, i)
BY DEF Follows, Submitted

LEMMA ToldEffect ==
    ASSUME AomiInv, NEW b \in Batches
    PROVE  \E s \in Session : /\ Told(b) = [server EXCEPT ![b] = s]
                              /\ s.actions = server[b].actions
<1> DEFINE s == [server[b] EXCEPT !.turn = "running"]
<1>1. server[b] \in Session /\ server \in [Batches -> Session]
  BY DEF AomiInv, TypeInv
<1>2. s \in Session /\ s.actions = server[b].actions
  <2>1. s = [turn |-> "running", mismatch |-> server[b].mismatch, actions |-> server[b].actions]
    BY <1>1 DEF Session
  <2>2. server[b].mismatch \in BOOLEAN /\ server[b].actions \in Seq(Action)
    BY <1>1 DEF Session
  <2> HIDE DEF s
  <2> QED
    BY <2>1, <2>2 DEF Session
<1>3. Told(b) = [server EXCEPT ![b] = s]
  BY <1>1 DEF Told
<1> QED
  BY <1>2, <1>3

(* The status of an action changes. *)
WithStatus(b, i, to) == [server EXCEPT ![b].actions[i].status = to]

LEMMA StatusChange ==
    ASSUME AomiInv, NEW b \in Batches, NEW i \in DOMAIN server[b].actions, NEW to \in Statuses,
           Status(b, i) \notin {"gone", "submitted"},
           to = "submitted" => Reported(b, i)
    PROVE  \E s \in Session :
              /\ WithStatus(b, i, to) = [server EXCEPT ![b] = s]
              /\ s.actions[i].status = to
              /\ Follows(server[b], s)
              /\ \A k \in DOMAIN s.actions :
                    s.actions[k].status = "submitted" => k \in Submitted(b) \/ Reported(b, k)
<1> DEFINE old == server[b].actions
           new == [old EXCEPT ![i] = [old[i] EXCEPT !.status = to]]
           s == [server[b] EXCEPT !.actions = new]
<1>1. server[b] \in Session /\ old \in Seq(Action) /\ old[i] \in Action
  BY DEF AomiInv, TypeInv, Session
<1>2. [old[i] EXCEPT !.status = to] \in Action /\ [old[i] EXCEPT !.status = to].status = to
  BY <1>1 DEF Action
<1>3. /\ new \in Seq(Action) /\ DOMAIN new = DOMAIN old /\ new[i].status = to
      /\ \A k \in DOMAIN old \ {i} : new[k] = old[k]
  BY <1>1, <1>2
<1> HIDE DEF new
<1>4. s \in Session /\ s.actions = new
  <2>1. s = [turn |-> server[b].turn, mismatch |-> server[b].mismatch, actions |-> new]
    BY <1>1 DEF Session
  <2>2. server[b].mismatch \in BOOLEAN /\ server[b].turn \in {None, "running", "ended"}
    BY <1>1 DEF Session
  <2> HIDE DEF s
  <2> QED
    BY <1>3, <2>1, <2>2 DEF Session
<1>5. WithStatus(b, i, to) = [server EXCEPT ![b] = s]
  BY DEF new, WithStatus
<1>6. Follows(server[b], s)
  BY <1>3, <1>4 DEF Follows, Status
<1>7. \A k \in DOMAIN s.actions :
         s.actions[k].status = "submitted" => k \in Submitted(b) \/ Reported(b, k)
  BY <1>3, <1>4 DEF Submitted
<1> HIDE DEF s
<1> QED
  BY <1>3, <1>4, <1>5, <1>6, <1>7

(* A result is accepted, or it is for an action that the server has closed. *)
LEMMA AcceptedEffect ==
    ASSUME AomiInv, NEW b, NEW i, Reported(b, i)
    PROVE  \E s \in Session :
              /\ Accepted(b, i) = [server EXCEPT ![b] = s]
              /\ Follows(server[b], s)
              /\ \A k \in DOMAIN s.actions :
                    s.actions[k].status = "submitted" => k \in Submitted(b) \/ Reported(b, k)
<1>1. b \in Batches /\ i \in DOMAIN server[b].actions
  BY DEF Reported, Oldest
<1>2. CASE server[b].actions[i].status = "pending"
  <2>1. Accepted(b, i) = WithStatus(b, i, "submitted")
    BY <1>2 DEF Accepted, WithStatus
  <2> QED
    BY <1>1, <1>2, <2>1, StatusChange DEF Status, Statuses
<1>3. CASE server[b].actions[i].status # "pending"
  <2>1. server[b] \in Session /\ server = [server EXCEPT ![b] = server[b]]
    BY <1>1 DEF AomiInv, TypeInv
  <2>2. Follows(server[b], server[b]) /\ Accepted(b, i) = server
    BY <1>3, <2>1, FollowsItself DEF Accepted
  <2> QED
    BY <1>1, <2>1, <2>2, TurnChange
<1> QED
  BY <1>2, <1>3

-----------------------------------------------------------------------------
(* The client's messages, and the server *)

LEMMA MessageStep ==
    ASSUME AomiInv, Sent \/ Report
    PROVE  AomiInv'
<1> USE DEF disk, outside, Executing, Working
<1>1. cur \in Batches /\ cur \in Open /\ cur \in Journals /\ NoSession \in Session
  BY MineType DEF Sent, Report, AomiInv, CommandOK, NoSession, Session
<1>2. CASE Sent
  <2>1. PICK s \in Session : Told(cur) = [server EXCEPT ![cur] = s] /\ s.actions = server[cur].actions
    BY <1>1, ToldEffect
  <2>2. /\ pc' = "loop" /\ seen' = server'[cur] /\ UNCHANGED <<cur, chosen>>
        /\ UNCHANGED <<journal, signed, sent, chain, wire>>
        /\ server' = [server EXCEPT ![cur] = s]
    BY <1>2, <2>1 DEF Sent
  <2>3. /\ server' \in [Batches -> Session] /\ server'[cur] = s
        /\ FilesOK' /\ SessionsOK' /\ Journals' = Journals /\ Open' = Open
    BY <1>1, <2>1, <2>2, TurnChange, SessionChange
  <2>4. TypeInv'
    BY <2>2, <2>3 DEF AomiInv, TypeInv
  <2>5. Follows(seen', server'[cur])
    BY <2>2, <2>3, FollowsItself
  <2>6. CommandOK'
    BY <1>1, <2>2, <2>3, <2>5 DEF CommandOK
  <2> QED
    BY <2>3, <2>4, <2>6 DEF AomiInv
<1>3. CASE Report
  <2>1. Reported(cur, chosen)
    BY <1>1, <1>3 DEF Report, AomiInv, CommandOK, Reported
  <2>2. PICK s \in Session :
           /\ Accepted(cur, chosen) = [server EXCEPT ![cur] = s]
           /\ Follows(server[cur], s)
           /\ \A k \in DOMAIN s.actions :
                 s.actions[k].status = "submitted" => k \in Submitted(cur) \/ Reported(cur, k)
    BY <2>1, AcceptedEffect
  <2>3. /\ UNCHANGED <<journal, signed, sent, chain, wire>> /\ seen' = NoSession
        /\ server' = [server EXCEPT ![cur] = s]
        /\ \/ pc' = "confirm" /\ UNCHANGED <<cur, chosen>>
              /\ server'[cur].actions[chosen].status = "submitted"
           \/ pc' = "down"
    BY <1>3, <2>2 DEF Report, GoTo, Exit, Leave
  <2>4. /\ server' \in [Batches -> Session] /\ server'[cur] = s
        /\ FilesOK' /\ SessionsOK' /\ Journals' = Journals /\ Open' = Open
        /\ \A d, i : Oldest(d, i) => Oldest(d, i)'
    BY <1>1, <2>2, <2>3, SessionChange
  <2>5. TypeInv'
    BY <1>1, <2>3, <2>4 DEF AomiInv, TypeInv
  <2>6. CommandOK'
    <3>1. CASE pc' = "down"
      BY <3>1 DEF CommandOK
    <3>2. CASE pc' = "confirm" /\ UNCHANGED <<cur, chosen>>
               /\ server'[cur].actions[chosen].status = "submitted"
      <4>1. chosen \in DOMAIN server'[cur].actions
        BY <2>1, <2>2, <2>4 DEF Reported, Oldest, Follows
      <4>2. chosen \in Submitted(cur)'
        BY <3>2, <4>1 DEF Submitted
      <4>3. journal'[cur'].hash
        BY <2>1, <2>3, <3>2 DEF Reported
      <4> QED
        BY <1>1, <2>4, <3>2, <4>2, <4>3 DEF CommandOK
    <3> QED
      BY <2>3, <3>1, <3>2
  <2> QED
    BY <2>4, <2>5, <2>6 DEF AomiInv
<1> QED
  BY <1>2, <1>3

LEMMA UnansweredStep ==
    ASSUME AomiInv, SentUnanswered \/ ReportUnanswered
    PROVE  AomiInv'
<1> USE DEF disk, outside, Executing, Working
<1>1. cur \in Batches /\ server[cur] \in Session /\ cur \in Journals /\ NoSession \in Session
  BY MineType DEF SentUnanswered, ReportUnanswered, NoSession, Session
<1>2. /\ UNCHANGED <<journal, signed, sent, chain, server>> /\ pc' = "down" /\ seen' = NoSession
      /\ \/ wire' = wire \cup {<<cur, 0>>}
         \/ pc = "report" /\ wire' = wire \cup {<<cur, chosen>>}
  BY DEF SentUnanswered, ReportUnanswered, Exit, Leave
<1>3. \A w \in wire' : w \in wire \/ w[2] = 0 \/ Reported(w[1], w[2])
  <2>1. CASE wire' = wire \cup {<<cur, 0>>}
    BY <2>1
  <2>2. CASE pc = "report" /\ wire' = wire \cup {<<cur, chosen>>}
    <3>1. Reported(cur, chosen)
      BY <1>1, <2>2 DEF AomiInv, CommandOK, Reported
    <3> QED
      BY <2>2, <3>1
  <2> QED
    BY <1>2, <2>1, <2>2
<1>4. server \in [Batches -> Session] /\ server' = [server EXCEPT ![cur] = server[cur]]
  BY <1>1, <1>2 DEF AomiInv, TypeInv
<1>5. FilesOK' /\ SessionsOK' /\ Journals' = Journals
  BY <1>1, <1>2, <1>3, <1>4, FollowsItself, TurnChange, SessionChange
<1>6. TypeInv'
  BY <1>1, <1>2, <1>5 DEF AomiInv, TypeInv
<1>7. CommandOK'
  BY <1>2 DEF CommandOK
<1> QED
  BY <1>5, <1>6, <1>7 DEF AomiInv

LEMMA ArriveStep ==
    ASSUME AomiInv, NEW b \in Batches, NEW i \in 0..MaxActions, Arrive(b, i)
    PROVE  AomiInv'
<1>1. /\ <<b, i>> \in wire /\ wire' \subseteq wire
      /\ server' = server \/ server' = (IF i = 0 THEN Told(b) ELSE Accepted(b, i))
      /\ UNCHANGED <<pc, cur, seen, chosen, journal, signed, sent, chain>>
  BY DEF Arrive, memory, disk, outside
<1>2. server[b] \in Session /\ server = [server EXCEPT ![b] = server[b]]
  BY DEF AomiInv, TypeInv
<1>3. CASE server' = server
  BY <1>1, <1>2, <1>3, FollowsItself, TurnChange, ServerStep
<1>4. CASE i = 0 /\ server' = Told(b)
  <2>1. PICK s \in Session : Told(b) = [server EXCEPT ![b] = s] /\ s.actions = server[b].actions
    BY ToldEffect
  <2> QED
    BY <1>1, <1>4, <2>1, TurnChange, ServerStep
<1>5. CASE i # 0 /\ server' = Accepted(b, i)
  <2>1. Reported(b, i)
    BY <1>1, <1>5 DEF AomiInv, SessionsOK
  <2>2. PICK s \in Session :
           /\ Accepted(b, i) = [server EXCEPT ![b] = s]
           /\ Follows(server[b], s)
           /\ \A k \in DOMAIN s.actions :
                 s.actions[k].status = "submitted" => k \in Submitted(b) \/ Reported(b, k)
    BY <2>1, AcceptedEffect
  <2> QED
    BY <1>1, <1>5, <2>2, ServerStep
<1> QED
  BY <1>1, <1>3, <1>4, <1>5

LEMMA AgentStep ==
    ASSUME AomiInv, NEW b \in Batches,
           EndTurn(b) \/ Expire(b) \/ \E r \in Requests : Ask(b, r)
    PROVE  AomiInv'
<1> USE DEF memory, disk, outside
<1>1. server[b] \in Session /\ server[b].actions \in Seq(Action) /\ server[b].mismatch \in BOOLEAN
  BY DEF AomiInv, TypeInv, Session
<1>2. CASE EndTurn(b)
  <2>1. PICK other \in BOOLEAN :
           Agent(b, [turn |-> "ended", mismatch |-> other, actions |-> server[b].actions])
    BY <1>2 DEF EndTurn
  <2> DEFINE s == [turn |-> "ended", mismatch |-> other, actions |-> server[b].actions]
  <2>2. s \in Session /\ s.actions = server[b].actions
    BY <1>1, <2>1 DEF Session
  <2>3. /\ server' = [server EXCEPT ![b] = s]
        /\ UNCHANGED <<pc, cur, seen, chosen, journal, signed, sent, chain, wire>>
    BY <2>1 DEF Agent
  <2> HIDE DEF s
  <2> QED
    BY <2>2, <2>3, TurnChange, ServerStep
<1>3. CASE Expire(b)
  <2>1. PICK i \in DOMAIN server[b].actions, to \in {"expired", "gone"} :
           /\ Status(b, i) \in {"pending", "expired"}
           /\ server' = [server EXCEPT ![b].actions[i].status = to]
    BY <1>3 DEF Expire, Status
  <2>2. UNCHANGED <<pc, cur, seen, chosen, journal, signed, sent, chain, wire>>
    BY <1>3 DEF Expire
  <2>3. PICK s \in Session :
           /\ server' = [server EXCEPT ![b] = s]
           /\ Follows(server[b], s)
           /\ \A k \in DOMAIN s.actions :
                 s.actions[k].status = "submitted" => k \in Submitted(b) \/ Reported(b, k)
    <3>1. /\ i \in DOMAIN server[b].actions /\ to \in Statuses /\ to # "submitted"
          /\ Status(b, i) \notin {"gone", "submitted"}
      BY <2>1 DEF Statuses
    <3>2. server' = WithStatus(b, i, to)
      BY <2>1 DEF WithStatus
    <3> QED
      BY <3>1, <3>2, StatusChange
  <2> QED
    BY <2>2, <2>3, ServerStep
<1>4. CASE \E r \in Requests : Ask(b, r)
  <2>1. PICK r \in Requests :
           Agent(b, [server[b] EXCEPT !.actions = Append(@, [request |-> r, status |-> "pending"])])
    BY <1>4 DEF Ask
  <2> DEFINE action == [request |-> r, status |-> "pending"]
             new == Append(server[b].actions, action)
             s == [server[b] EXCEPT !.actions = new]
  <2>2. /\ server' = [server EXCEPT ![b] = s]
        /\ UNCHANGED <<pc, cur, seen, chosen, journal, signed, sent, chain, wire>>
    BY <2>1 DEF Agent
  <2>3. action \in Action /\ action.status = "pending"
    BY DEF Action, Statuses
  <2> HIDE DEF action
  <2>4. /\ new \in Seq(Action) /\ DOMAIN server[b].actions \subseteq DOMAIN new
        /\ \A k \in DOMAIN new : IF k \in DOMAIN server[b].actions
                                 THEN new[k] = server[b].actions[k] ELSE new[k] = action
    BY <1>1, <2>3
  <2> HIDE DEF new
  <2>5. s \in Session /\ s.actions = new
    <3>1. s = [turn |-> server[b].turn, mismatch |-> server[b].mismatch, actions |-> new]
      BY <1>1 DEF Session
    <3>2. server[b].turn \in {None, "running", "ended"}
      BY <1>1 DEF Session
    <3> HIDE DEF s
    <3> QED
      BY <1>1, <2>4, <3>1, <3>2 DEF Session
  <2> HIDE DEF s
  <2>6. Follows(server[b], s)
    BY <2>4, <2>5 DEF Follows
  <2>7. \A k \in DOMAIN s.actions :
           s.actions[k].status = "submitted" => k \in Submitted(b) \/ Reported(b, k)
    BY <2>3, <2>4, <2>5 DEF Submitted
  <2> QED
    BY <2>2, <2>5, <2>6, <2>7, ServerStep
<1> QED
  BY <1>2, <1>3, <1>4

-----------------------------------------------------------------------------
(* Theorems *)

LEMMA AomiInit == Init => AomiInv
<1> SUFFICES ASSUME Init PROVE AomiInv
  OBVIOUS
<1>1. NoSession \in Session /\ NoSession.actions = <<>>
  BY DEF NoSession, Session
<1>2. /\ Journals = {} /\ Confirmed = {} /\ Open = {}
      /\ \A b \in Batches : Submitted(b) = {}
  BY <1>1 DEF Init, Journals, Confirmed, Open, Submitted
<1>3. TypeInv
  BY <1>1, <1>2 DEF Init, TypeInv
<1>4. FilesOK
  BY <1>2 DEF Init, FilesOK, OneOpenJournal, SignedIsRequested
<1>5. SessionsOK
  BY <1>2 DEF Init, SessionsOK
<1>6. CommandOK
  BY <1>2 DEF Init, CommandOK, Working, Executing
<1> QED
  BY <1>3, <1>4, <1>5, <1>6 DEF AomiInv

LEMMA AomiStep == AomiInv /\ [Next]_vars => AomiInv'
<1> SUFFICES ASSUME AomiInv, [Next]_vars PROVE AomiInv'
  OBVIOUS
<1>1. CASE Run \/ UNCHANGED vars
  BY <1>1, MoveStep
<1>2. CASE Client
  <2>1. CASE Resume \/ Register
    BY <2>1, BeginStep
  <2>2. CASE Attached \/ Finished \/ Restore \/ Recognise \/ GiveUp \/ Fetch \/ Transact
    BY <2>2, MoveStep
  <2>3. CASE Start \/ Execute \/ Repair \/ Retry \/ Settle \/ Confirm
    BY <2>3, SavingStep
  <2>4. CASE Sign
    BY <2>4, SignStep
  <2>5. CASE Sent \/ Report
    BY <2>5, MessageStep
  <2> QED
    BY <1>2, <2>1, <2>2, <2>3, <2>4, <2>5 DEF Client
<1>3. CASE Faulty
  BY <1>3, MoveStep, UnansweredStep DEF Faulty
<1>4. CASE Execution
  BY <1>4, ExecutionStep
<1>5. CASE Server \/ \E b \in Batches, r \in Requests : Ask(b, r)
  BY <1>5, ArriveStep, AgentStep DEF Server
<1> QED
  BY <1>1, <1>2, <1>3, <1>4, <1>5 DEF Next

LEMMA AomiAlways == Spec => []AomiInv
<1> QED
  BY AomiInit, AomiStep, PTL DEF Spec

LEMMA BoundStep ==
    ASSUME AomiInv, chain \in 0..MaxBatches, stops \in 0..MaxStops, [Next]_vars
    PROVE  chain' \in 0..MaxBatches /\ stops' \in 0..MaxStops
<1>1. CASE Execution
  <2>1. chain + 1 \in Batches
    BY <1>1 DEF Execution, AomiInv, TypeInv, FilesOK, SignedIsRequested
  <2> QED
    BY <1>1, <2>1, AomiAssumption DEF Execution, Batches
<1>2. CASE UNCHANGED chain
  <2>1. UNCHANGED stops \/ (stops < MaxStops /\ stops' = stops + 1)
    BY <1>2, Zenon DEF Next, vars, Run, Client, Faulty, Execution, Server, Resume, Attached,
       Register, Finished, Restore, Start, Send, Sent, Recognise, Execute, Repair, Retry, GiveUp,
       Fetch, Sign, Transact, Settle, Report, Confirm, Begin, Stop, SentUnanswered,
       ReportUnanswered, Arrive, EndTurn, Expire, Ask, Agent
  <2> QED
    BY <1>2, <2>1, AomiAssumption
<1>3. Execution \/ UNCHANGED chain
  BY Zenon DEF Next, vars, outside, Run, Client, Faulty, Server, Resume, Attached,
     Register, Finished, Restore, Start, Send, Sent, Recognise, Execute, Repair, Retry, GiveUp,
     Fetch, Sign, Transact, Settle, Report, Confirm, Begin, Stop, SentUnanswered,
     ReportUnanswered, Arrive, EndTurn, Expire, Ask, Agent
<1> QED
  BY <1>1, <1>2, <1>3

LEMMA EnvelopeStep ==
    ASSUME AomiInv, \A w \in wire : w[1] \in Batches, [Next]_vars
    PROVE  \A w \in wire' : w[1] \in Batches
<1>1. CASE SentUnanswered \/ ReportUnanswered
  <2>1. cur \in Batches
    BY <1>1, MineType DEF SentUnanswered, ReportUnanswered, Working, Executing
  <2> QED
    BY <1>1, <2>1 DEF SentUnanswered, ReportUnanswered
<1>2. CASE wire' \subseteq wire
  BY <1>2
<1>3. SentUnanswered \/ ReportUnanswered \/ wire' \subseteq wire
  BY Zenon DEF Next, vars, outside, remote, Run, Client, Faulty, Execution, Server, Resume,
     Attached, Register, Finished, Restore, Start, Send, Sent, Recognise, Execute, Repair, Retry,
     GiveUp, Fetch, Sign, Transact, Settle, Report, Confirm, Begin, Stop, Arrive, EndTurn,
     Expire, Ask, Agent
<1> QED
  BY <1>1, <1>2, <1>3

(* The command, its journals, the sessions as the client and the server    *)
(* have them, the messages in flight and the network are well typed: no    *)
(* journal counts more turns than it allows, and no result is sent for an  *)
(* action that is not in its session.                                      *)
THEOREM AomiTypes == Spec => []TypeOK
<1> DEFINE I == /\ AomiInv /\ chain \in 0..MaxBatches /\ stops \in 0..MaxStops
                /\ \A w \in wire : w[1] \in Batches
<1>1. Init => I
  <2>1. Init => chain \in 0..MaxBatches /\ stops \in 0..MaxStops /\ wire = {}
    BY AomiAssumption DEF Init
  <2> QED
    BY <2>1, AomiInit
<1>2. I /\ [Next]_vars => I'
  BY AomiStep, BoundStep, EnvelopeStep
<1>3. ASSUME I PROVE TypeOK
  <2>1. /\ pc \notin {"down", "attach", "work"} => cur \in Journals
        /\ Executing => chosen \in DOMAIN server[cur].actions
    BY <1>3 DEF AomiInv, TypeInv, CommandOK, Open, Oldest, Working
  <2>2. \A w \in wire : w[1] \in Batches /\ w[2] \in {0} \cup DOMAIN server[w[1]].actions
    BY <1>3 DEF AomiInv, SessionsOK, Reported, Oldest
  <2>3. signed \subseteq Batches /\ sent \subseteq signed
    BY <1>3 DEF AomiInv, TypeInv, FilesOK, SignedIsRequested
  <2> QED
    BY <1>3, <2>1, <2>2, <2>3 DEF AomiInv, TypeInv, Working, Executing, TypeOK
<1> HIDE DEF I
<1> QED
  BY <1>1, <1>2, <1>3, PTL DEF Spec

(* The signer signs nothing for the agent but the authorized call, and     *)
(* only after the request is on disk, over any crashes and lost messages.  *)
THEOREM SignsWhatWasAsked == Spec => []SignedIsRequested
<1>1. AomiInv => SignedIsRequested
  BY DEF AomiInv, FilesOK
<1> QED
  BY <1>1, AomiAlways, PTL

(* attachAomi finishes every open batch before register begins another.    *)
THEOREM LastIsOpen == Spec => []OneOpenJournal
<1>1. AomiInv => OneOpenJournal
  BY DEF AomiInv, FilesOK
<1> QED
  BY <1>1, AomiAlways, PTL

(* The agent counts one submission for a batch at most, exactly one for a  *)
(* confirmed one, and that batch is anchored.                              *)
THEOREM OneSubmission == Spec => []SubmittedOnce
<1>1. ASSUME AomiInv PROVE SubmittedOnce
  <2> SUFFICES ASSUME NEW b \in Batches
               PROVE  /\ \A i, k \in Submitted(b) : i = k
                      /\ b \in Confirmed => Submitted(b) # {} /\ b <= chain
    BY DEF SubmittedOnce
  <2>1. ASSUME NEW i \in Submitted(b), NEW k \in Submitted(b), i # k PROVE FALSE
    <3>1. i \in Nat \ {0} /\ k \in Nat \ {0}
      BY <1>1 DEF Submitted, AomiInv, TypeInv, Session
    <3>2. Oldest(b, i) /\ Oldest(b, k) /\ Status(b, i) = "submitted" /\ Status(b, k) = "submitted"
      BY <1>1 DEF AomiInv, SessionsOK, Reported, Submitted, Status
    <3>3. i \in 1..(k - 1) \/ k \in 1..(i - 1)
      BY <2>1, <3>1
    <3> QED
      BY <3>2, <3>3 DEF Oldest
  <2>2. ASSUME b \in Confirmed PROVE Submitted(b) # {} /\ b <= chain
    BY <1>1, <2>2 DEF AomiInv, SessionsOK, FilesOK, Confirmed
  <2> QED
    BY <2>1, <2>2
<1> QED
  BY <1>1, AomiAlways, PTL

=============================================================================
