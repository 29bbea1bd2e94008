------------------------ MODULE InterviewSessionProofs ------------------------
(***************************************************************************)
(* What InterviewSession guarantees for any number of interviews,          *)
(* requests, processes and permits.                                        *)
(***************************************************************************)
EXTENDS InterviewSession, SequenceTheorems, FiniteSetTheorems, TLAPS

USE DEF NoTurn, Uncommitted, InGraph, Live, Outcomes, StartLive,
        database, memory, routes

(***************************************************************************)
(* An accepted answer appended to a record keeps it a record.              *)
(***************************************************************************)
LEMMA AppendEntry ==
    ASSUME NEW log \in Seq(Entry), NEW r \in Requests, NEW t \in Nat
    PROVE  Append(log, [request |-> r, turn |-> t]) \in Seq(Entry)
  BY AppendProperties, [request |-> r, turn |-> t] \in Entry DEF Entry

(***************************************************************************)
(* A turn drawn now or earlier is still among the turns drawn after one    *)
(* more draw.                                                              *)
(***************************************************************************)
LEMMA StillDrawn ==
    ASSUME NEW n \in Nat, NEW t \in Nat, t <= n \/ t \in {NoTurn, n + 1}
    PROVE  t <= n + 1
  OBVIOUS

(***************************************************************************)
(* The types hold initially and every action keeps them.                   *)
(***************************************************************************)
LEMMA InitType == Init => TypeOK
  <1> SUFFICES ASSUME Init PROVE TypeOK
      OBVIOUS
  <1>1. NoRow \in Row
      BY EmptySeq DEF NoRow, Row
  <1>2. /\ \A i \in Interviews : row[i].open <= turns
        /\ \A r \in Requests : session[r].open <= turns
      BY DEF Init, NoRow
  <1>3. QED
      BY <1>1, <1>2 DEF Init, TypeOK

LEMMA StepType == TypeOK /\ [Next]_vars => TypeOK'
  <1> SUFFICES ASSUME TypeOK, [Next]_vars PROVE TypeOK'
      OBVIOUS
  <1> USE DEF TypeOK
  <1>1. ASSUME NEW i \in Interviews, BeginStart(i) \/ FirstQuestionReady(i) PROVE TypeOK'
    <2>1. starting' \in [Interviews -> {"idle", "published", "failed"} \cup StartLive]
        BY <1>1 DEF BeginStart, FirstQuestionReady
    <2>2. UNCHANGED <<database, memory, routes, pc, turn, session>>
        BY <1>1 DEF BeginStart, FirstQuestionReady
    <2>3. QED
        BY <2>1, <2>2
  <1>2. ASSUME NEW i \in Interviews, StoreCandidate(i) PROVE TypeOK'
      BY <1>2 DEF StoreCandidate
  <1>3. ASSUME NEW i \in Interviews, StoreSession(i) PROVE TypeOK'
    <2>1. \A open \in {NoTurn, turns + 1} :
             [published |-> TRUE, log |-> <<>>, open |-> open] \in Row
        BY EmptySeq DEF Row
    <2>2. row' \in [Interviews -> Row]
        BY <1>3, <2>1 DEF StoreSession
    <2>3. /\ turns' = turns + 1
          /\ session' = session
        BY <1>3 DEF StoreSession
    <2>4. ASSUME NEW j \in Interviews PROVE row'[j].open <= turns'
      <3>1. row[j].open <= turns
          OBVIOUS
      <3>2. row'[j] = row[j] \/ row'[j].open \in {NoTurn, turns + 1}
          BY <1>3 DEF StoreSession
      <3>3. row'[j].open \in Nat
          BY <2>2 DEF Row
      <3>4. QED
          BY <2>3, <3>1, <3>2, <3>3, StillDrawn
    <2>5. ASSUME NEW r \in Requests PROVE session'[r].open <= turns'
      <3>1. session[r].open \in Nat /\ session[r].open <= turns
          BY DEF Row
      <3>2. QED
          BY <2>3, <3>1, StillDrawn
    <2>6. QED
        BY <1>3, <2>2, <2>4, <2>5 DEF StoreSession
  <1>4. ASSUME NEW i \in Interviews, StartFails(i) PROVE TypeOK'
      BY <1>4 DEF StartFails
  <1>5. ASSUME NEW r \in Requests, Send(r) PROVE TypeOK'
    <2>1. row[about[r]] \in Row
        OBVIOUS
    <2>2. ASSUME NEW k \in DOMAIN row[about[r]].log
          PROVE  row[about[r]].log[k].turn \in Nat
      <3>1. row[about[r]].log \in Seq(Entry)
          BY <2>1 DEF Row
      <3>2. row[about[r]].log[k] \in Entry
          BY <3>1, ElementOfSeq, LenProperties
      <3>3. QED
          BY <3>2 DEF Entry
    <2>3. Shown(about[r]) \subseteq Nat
        BY <2>1, <2>2 DEF Shown, Turns, Row
    <2>4. turn' \in [Requests -> Nat]
        BY <1>5, <2>3 DEF Send
    <2>5. QED
        BY <1>5, <2>4 DEF Send, Goto
  <1>6. ASSUME NEW r \in Requests, TakeLock(r) \/ TakePermit(r) PROVE TypeOK'
    <2>1. CASE TakeLock(r)
        BY <2>1 DEF TakeLock, Goto
    <2>2. CASE TakePermit(r)
        BY <2>2 DEF TakePermit, Goto
    <2>3. QED
        BY <1>6, <2>1, <2>2
  <1>7. ASSUME NEW r \in Requests, LockRow(r) \/ Reject(r) PROVE TypeOK'
    <2>1. CASE LockRow(r)
        BY <2>1 DEF LockRow, Goto
    <2>2. CASE Reject(r)
        BY <2>2 DEF Reject, Release, Goto
    <2>3. QED
        BY <1>7, <2>1, <2>2
  <1>8. ASSUME NEW r \in Requests, Restore(r) PROVE TypeOK'
      BY <1>8 DEF Restore, Goto, Row
  <1>9. ASSUME NEW r \in Requests, Advance(r) PROVE TypeOK'
    <2>1. thread' \in [Processes -> [Interviews -> SUBSET Seq(Entry)]]
        BY <1>9 DEF Advance, DeleteThreads
    <2>2. session' \in [Requests -> Row]
        BY <1>9, AppendEntry DEF Advance, NextTurns, Row
    <2>3. turns' = turns + 1 /\ row' = row
        BY <1>9 DEF Advance
    <2>4. ASSUME NEW i \in Interviews PROVE row'[i].open <= turns'
      <3>1. row[i].open \in Nat /\ row[i].open <= turns
          BY DEF Row
      <3>2. QED
          BY <2>3, <3>1, StillDrawn
    <2>5. ASSUME NEW h \in Requests PROVE session'[h].open <= turns'
      <3>1. session[h].open <= turns
          OBVIOUS
      <3>2. session'[h] = session[h] \/ session'[h].open \in {NoTurn, turns + 1}
          BY <1>9 DEF Advance, NextTurns
      <3>3. session'[h].open \in Nat
          BY <2>2 DEF Row
      <3>4. QED
          BY <2>3, <3>1, <3>2, <3>3, StillDrawn
    <2>6. QED
        BY <1>9, <2>1, <2>2, <2>4, <2>5 DEF Advance, Goto
  <1>10. ASSUME NEW r \in Requests, Commit(r) \/ CommitUnacknowledged(r) PROVE TypeOK'
    <2>1. /\ row' = [row EXCEPT ![about[r]] = session[r]]
          /\ UNCHANGED <<candidates, turns, thread, routes, starting, turn, session>>
          /\ Release({r})
        BY <1>10 DEF Commit, CommitUnacknowledged
    <2>2. /\ row' \in [Interviews -> Row]
          /\ \A i \in Interviews : row'[i].open <= turns'
        BY <2>1
    <2>3. pc' \in [Requests -> {"new"} \cup Live \cup Outcomes]
        BY <1>10 DEF Commit, CommitUnacknowledged, Goto
    <2>4. QED
        BY <2>1, <2>2, <2>3 DEF Release
  <1>11. ASSUME NEW r \in Requests,
                CommitFails(r) \/ Respond(r) \/ RespondFails(r)
         PROVE  TypeOK'
      BY <1>11 DEF CommitFails, Respond, RespondFails, Release, Goto
  <1>12. ASSUME NEW r \in Requests, Fail(r) \/ DeadlineExpires(r) PROVE TypeOK'
    <2>1. thread' \in [Processes -> [Interviews -> SUBSET Seq(Entry)]]
        BY <1>12 DEF Fail, DeadlineExpires, DeleteThreads
    <2>2. QED
        BY <1>12, <2>1 DEF Fail, DeadlineExpires, Release, Goto
  <1>13. ASSUME NEW p \in Processes, Crash(p) PROVE TypeOK'
      BY <1>13 DEF Crash, Release
  <1>14. CASE UNCHANGED vars
      BY <1>14 DEF vars
  <1>15. QED
      BY <1>1, <1>2, <1>3, <1>4, <1>5, <1>6, <1>7, <1>8, <1>9, <1>10, <1>11, <1>12,
         <1>13, <1>14 DEF Next, Start, Step, Fault

-----------------------------------------------------------------------------
(***************************************************************************)
(* Locks.  A request holds exactly what the point it has reached implies,  *)
(* one request at a time holds an interview's row, one in each process its *)
(* lock.                                                                   *)
(***************************************************************************)
RowLocked == {"restore", "advance", "commit"}
Permitted == RowLocked \cup {"row"}
Locked == Permitted \cup {"permit"}

LockInv ==
    /\ \A r \in Requests :
          /\ r \in row_locks <=> pc[r] \in RowLocked
          /\ r \in permits <=> pc[r] \in Permitted
          /\ r \in locks <=> pc[r] \in Locked
    /\ \A r, h \in row_locks : about[r] = about[h] => r = h
    /\ \A r, h \in locks : at[r] = at[h] /\ about[r] = about[h] => r = h

LEMMA InitLock == Init => LockInv
  BY DEF Init, LockInv, RowLocked, Permitted, Locked

LEMMA StepLock == TypeOK /\ LockInv /\ [Next]_vars => LockInv'
  <1> SUFFICES ASSUME TypeOK, LockInv, [Next]_vars PROVE LockInv'
      OBVIOUS
  <1> USE DEF LockInv, RowLocked, Permitted, Locked
  <1>0. /\ DOMAIN pc = Requests
        /\ row_locks \subseteq Requests
        /\ permits \subseteq Requests
        /\ locks \subseteq Requests
      BY DEF TypeOK
  <1>1. ASSUME NEW i \in Interviews, Start(i) \/ StartFails(i) PROVE LockInv'
    <2>1. UNCHANGED <<row_locks, permits, locks, pc, at, about>>
        BY <1>1 DEF Start, StartFails, BeginStart, FirstQuestionReady, StoreCandidate,
                    StoreSession
    <2>2. QED
        BY <2>1
  <1>2. ASSUME NEW r \in Requests, Send(r) PROVE LockInv'
      BY <1>0, <1>2 DEF Send, Goto
  <1>3. ASSUME NEW r \in Requests, TakeLock(r) PROVE LockInv'
      BY <1>0, <1>3 DEF TakeLock, Goto, SameProcess, SameInterview
  <1>4. ASSUME NEW r \in Requests, TakePermit(r) PROVE LockInv'
      BY <1>0, <1>4 DEF TakePermit, Goto
  <1>5. ASSUME NEW r \in Requests, LockRow(r) PROVE LockInv'
      BY <1>0, <1>5 DEF LockRow, RowFree, Goto, SameInterview
  <1>6. ASSUME NEW r \in Requests, Restore(r) PROVE LockInv'
      BY <1>0, <1>6 DEF Restore, Goto
  <1>7. ASSUME NEW r \in Requests, Advance(r) PROVE LockInv'
      BY <1>0, <1>7 DEF Advance, Goto
  <1>8. ASSUME NEW r \in Requests, Respond(r) \/ RespondFails(r) PROVE LockInv'
      BY <1>0, <1>8 DEF Respond, RespondFails, Goto
  <1>9. ASSUME NEW r \in Requests, NEW step \in {"respond"} \cup Outcomes,
               Release({r}), Goto(r, step), UNCHANGED <<at, about>>
        PROVE  LockInv'
      BY <1>0, <1>9 DEF Release, Goto
  <1>10. ASSUME NEW r \in Requests,
                \/ Reject(r) \/ Fail(r) \/ DeadlineExpires(r)
                \/ Commit(r) \/ CommitUnacknowledged(r) \/ CommitFails(r)
         PROVE  LockInv'
    <2>1. /\ Release({r})
          /\ \E step \in {"respond"} \cup Outcomes : Goto(r, step)
          /\ UNCHANGED <<at, about>>
        BY <1>10 DEF Reject, Fail, DeadlineExpires, Commit, CommitUnacknowledged, CommitFails
    <2>2. QED
        BY <1>9, <2>1
  <1>11. ASSUME NEW p \in Processes, Crash(p) PROVE LockInv'
      BY <1>0, <1>11 DEF Crash, Release
  <1>12. CASE UNCHANGED vars
      BY <1>12 DEF vars
  <1>13. QED
      BY <1>1, <1>2, <1>3, <1>4, <1>5, <1>6, <1>7, <1>8, <1>10, <1>11, <1>12
      DEF Next, Step, Fault

-----------------------------------------------------------------------------
(***************************************************************************)
(* Records.  The turns on record are older than the open one and in order; *)
(* the request that holds a row works for the turn open there, on what is  *)
(* committed there, and will commit exactly one answer more.               *)
(***************************************************************************)
Ordered(i) ==
    /\ row[i].open # NoTurn => row[i].published
    /\ \A k \in DOMAIN row[i].log : row[i].open # NoTurn => row[i].log[k].turn < row[i].open
    /\ \A j, k \in DOMAIN row[i].log : j < k => row[i].log[j].turn < row[i].log[k].turn

Working(r) ==
    /\ pc[r] \in RowLocked => turn[r] # NoTurn /\ row[about[r]].open = turn[r]
    /\ pc[r] \in InGraph => session[r] = row[about[r]]
    /\ pc[r] = "advance" => thread[at[r]][about[r]] = {row[about[r]].log}
    /\ pc[r] = "commit" =>
          /\ session[r].published
          /\ session[r].log = Append(row[about[r]].log, [request |-> r, turn |-> turn[r]])
          /\ session[r].open = NoTurn \/ turn[r] < session[r].open

Unstarted(i) == starting[i] # "published" => row[i] = NoRow

ThreadUsed(p, i) ==
    thread[p][i] # {} =>
        \E r \in Requests : at[r] = p /\ about[r] = i /\ pc[r] = "advance"

RecordInv ==
    /\ \A i \in Interviews : Ordered(i) /\ Unstarted(i)
    /\ \A r \in Requests : Working(r)
    /\ \A p \in Processes, i \in Interviews : ThreadUsed(p, i)

LEMMA InitRecord == Init => RecordInv
  BY DEF Init, RecordInv, Ordered, Unstarted, Working, ThreadUsed, RowLocked, NoRow

(***************************************************************************)
(* Committing an answer to the open turn keeps the record in order.        *)
(***************************************************************************)
LEMMA CommitOrdered ==
    ASSUME NEW log \in Seq(Entry), NEW r \in Requests, NEW t \in Nat, NEW open \in Nat,
           \A k \in DOMAIN log : log[k].turn < t,
           \A j, k \in DOMAIN log : j < k => log[j].turn < log[k].turn,
           open = NoTurn \/ t < open,
           NEW longer, longer = Append(log, [request |-> r, turn |-> t])
    PROVE  /\ \A k \in DOMAIN longer : open # NoTurn => longer[k].turn < open
           /\ \A j, k \in DOMAIN longer : j < k => longer[j].turn < longer[k].turn
  <1>1. [request |-> r, turn |-> t] \in Entry
      BY DEF Entry
  <1>2. /\ longer \in Seq(Entry)
        /\ Len(longer) = Len(log) + 1
        /\ \A k \in 1..Len(log) : longer[k] = log[k]
        /\ longer[Len(log) + 1] = [request |-> r, turn |-> t]
      BY <1>1, AppendProperties
  <1>3. /\ Len(log) \in Nat
        /\ DOMAIN log = 1..Len(log)
        /\ DOMAIN longer = 1..(Len(log) + 1)
      BY <1>2, LenProperties
  <1>4. ASSUME NEW k \in DOMAIN log PROVE log[k].turn \in Nat
    <2>1. log[k] \in Entry
        BY <1>3, ElementOfSeq
    <2>2. QED
        BY <2>1 DEF Entry
  <1>5. QED
      BY <1>2, <1>3, <1>4

(***************************************************************************)
(* A step that leaves the records alone and moves nobody into the part of  *)
(* submit_answer that works on one keeps the invariant.                    *)
(***************************************************************************)
LEMMA QuietStep ==
    ASSUME TypeOK, RecordInv,
           UNCHANGED <<row, thread, session, at, about>>,
           \A i \in Interviews : starting'[i] # "published" => starting[i] # "published",
           \A r \in Requests :
              \/ pc'[r] = pc[r] /\ turn'[r] = turn[r]
              \/ pc'[r] \notin RowLocked /\ pc[r] # "advance"
    PROVE  RecordInv'
  <1>1. \A i \in Interviews : Ordered(i)' /\ Unstarted(i)'
      BY DEF RecordInv, Ordered, Unstarted
  <1>2. \A r \in Requests : Working(r)'
      BY DEF RecordInv, Working, RowLocked
  <1>3. \A p \in Processes, i \in Interviews : ThreadUsed(p, i)'
      BY DEF RecordInv, ThreadUsed, RowLocked
  <1>4. QED
      BY <1>1, <1>2, <1>3 DEF RecordInv

LEMMA StepRecord == TypeOK /\ LockInv /\ RecordInv /\ [Next]_vars => RecordInv'
  <1> SUFFICES ASSUME TypeOK, LockInv, RecordInv, [Next]_vars PROVE RecordInv'
      OBVIOUS
  <1>0. /\ DOMAIN pc = Requests
        /\ DOMAIN turn = Requests
        /\ DOMAIN starting = Interviews
      BY DEF TypeOK
  <1>1. ASSUME NEW i \in Interviews,
               \/ BeginStart(i) \/ FirstQuestionReady(i) \/ StoreCandidate(i) \/ StartFails(i)
        PROVE  RecordInv'
    <2>1. UNCHANGED <<row, thread, session, at, about, pc, turn>>
        BY <1>1 DEF BeginStart, FirstQuestionReady, StoreCandidate, StartFails
    <2>2. \A j \in Interviews : starting'[j] # "published" => starting[j] # "published"
        BY <1>0, <1>1 DEF BeginStart, FirstQuestionReady, StoreCandidate, StartFails
    <2>3. QED
        BY <2>1, <2>2, QuietStep
  <1>2. ASSUME NEW i \in Interviews, StoreSession(i) PROVE RecordInv'
    <2>1. /\ row[i] = NoRow
          /\ \A j \in Interviews \ {i} : row'[j] = row[j]
          /\ row'[i].log = <<>>
          /\ row'[i].published
          /\ starting'[i] = "published"
          /\ \A j \in Interviews \ {i} : starting'[j] = starting[j]
          /\ UNCHANGED <<thread, session, at, about, pc, turn>>
        BY <1>0, <1>2 DEF StoreSession, RecordInv, Unstarted, TypeOK
    <2>2. \A j \in Interviews : Ordered(j)' /\ Unstarted(j)'
        BY <2>1 DEF RecordInv, Ordered, Unstarted
    <2>3. \A r \in Requests : Working(r)'
      <3>1. ASSUME NEW r \in Requests, pc[r] \in RowLocked
            PROVE  about[r] \in Interviews \ {i}
        <4>1. row[about[r]].open # NoTurn
            BY <3>1 DEF RecordInv, Working
        <4>2. row[i].open = NoTurn
            BY <2>1 DEF NoRow
        <4>3. QED
            BY <4>1, <4>2 DEF TypeOK
      <3>2. QED
          BY <2>1, <3>1 DEF RecordInv, Working, RowLocked
    <2>4. \A p \in Processes, j \in Interviews : ThreadUsed(p, j)'
        BY <2>1 DEF RecordInv, ThreadUsed
    <2>5. QED
        BY <2>2, <2>3, <2>4 DEF RecordInv
  <1>3. ASSUME NEW r \in Requests,
               \/ Send(r) \/ TakeLock(r) \/ TakePermit(r) \/ Reject(r)
               \/ Respond(r) \/ RespondFails(r) \/ CommitFails(r)
        PROVE  RecordInv'
    <2>1. UNCHANGED <<row, thread, session, at, about, starting>>
        BY <1>3 DEF Send, TakeLock, TakePermit, Reject, Respond, RespondFails, CommitFails
    <2>2. /\ pc[r] # "advance"
          /\ pc'[r] \notin RowLocked
          /\ \A h \in Requests \ {r} : pc'[h] = pc[h] /\ turn'[h] = turn[h]
        BY <1>0, <1>3 DEF Send, TakeLock, TakePermit, Reject, Respond, RespondFails,
                          CommitFails, Goto, RowLocked
    <2>3. QED
        BY <2>1, <2>2, QuietStep
  <1>4. ASSUME NEW r \in Requests, LockRow(r) PROVE RecordInv'
    <2>1. /\ pc[r] = "row"
          /\ pc'[r] = "restore"
          /\ session'[r] = row[about[r]]
          /\ row[about[r]].open # NoTurn /\ row[about[r]].open = turn[r]
          /\ \A h \in Requests \ {r} : pc'[h] = pc[h] /\ session'[h] = session[h]
          /\ UNCHANGED <<row, thread, at, about, turn, starting>>
        BY <1>4 DEF LockRow, IsCurrent, Goto, TypeOK
    <2>2. \A i \in Interviews : Ordered(i)' /\ Unstarted(i)'
        BY <2>1 DEF RecordInv, Ordered, Unstarted
    <2>3. \A h \in Requests : Working(h)'
        BY <2>1 DEF RecordInv, Working, RowLocked
    <2>4. \A p \in Processes, i \in Interviews : ThreadUsed(p, i)'
        BY <2>1 DEF RecordInv, ThreadUsed
    <2>5. QED
        BY <2>2, <2>3, <2>4 DEF RecordInv
  <1>5. ASSUME NEW r \in Requests, Restore(r) PROVE RecordInv'
    <2>1. /\ pc[r] = "restore"
          /\ pc'[r] = "advance"
          /\ thread'[at[r]][about[r]] = {session[r].log}
          /\ \A p \in Processes, i \in Interviews :
                p # at[r] \/ i # about[r] => thread'[p][i] = thread[p][i]
          /\ \A h \in Requests \ {r} : pc'[h] = pc[h]
          /\ UNCHANGED <<row, session, at, about, turn, starting>>
        BY <1>5 DEF Restore, Goto, TypeOK
    <2>2. \A i \in Interviews : Ordered(i)' /\ Unstarted(i)'
        BY <2>1 DEF RecordInv, Ordered, Unstarted
    <2>3. \A h \in Requests \ {r} : pc[h] \in RowLocked => about[h] # about[r]
        BY <2>1 DEF LockInv, RowLocked
    <2>4. \A h \in Requests : Working(h)'
        BY <2>1, <2>3 DEF RecordInv, Working, RowLocked, TypeOK
    <2>5. \A p \in Processes, i \in Interviews : ThreadUsed(p, i)'
        BY <2>1 DEF RecordInv, ThreadUsed
    <2>6. QED
        BY <2>2, <2>4, <2>5 DEF RecordInv
  <1>6. ASSUME NEW r \in Requests, Advance(r) PROVE RecordInv'
    <2>1. /\ pc[r] = "advance"
          /\ pc'[r] = "commit"
          /\ \A h \in Requests \ {r} : pc'[h] = pc[h] /\ session'[h] = session[h]
          /\ UNCHANGED <<row, at, about, turn, starting>>
        BY <1>6 DEF Advance, Goto, TypeOK
    <2>2. /\ turn[r] # NoTurn /\ row[about[r]].open = turn[r]
          /\ thread[at[r]][about[r]] = {row[about[r]].log}
        BY <2>1 DEF RecordInv, Working, RowLocked
    <2>3. PICK open \in NextTurns(r) :
             session'[r] = [published |-> TRUE,
                            log |-> Append(row[about[r]].log, [request |-> r, turn |-> turn[r]]),
                            open |-> open]
        BY <1>6, <2>2 DEF Advance, TypeOK
    <2>4. open = NoTurn \/ turn[r] < open
        BY <2>2 DEF NextTurns, TypeOK, Row
    <2>5. \A i \in Interviews : Ordered(i)' /\ Unstarted(i)'
        BY <2>1 DEF RecordInv, Ordered, Unstarted
    <2>6. /\ \A p \in Processes, i \in Interviews :
                p # at[r] \/ i # about[r] => thread'[p][i] = thread[p][i]
          /\ thread'[at[r]][about[r]] = {}
        BY <1>6, <2>1 DEF Advance, DeleteThreads, TypeOK
    <2>7. \A h \in Requests \ {r} : pc[h] \in RowLocked => about[h] # about[r]
        BY <2>1 DEF LockInv, RowLocked
    <2>8. \A h \in Requests : Working(h)'
      <3>1. Working(r)'
          BY <2>1, <2>2, <2>3, <2>4 DEF Working
      <3>2. ASSUME NEW h \in Requests \ {r} PROVE Working(h)'
          BY <2>1, <2>6, <2>7 DEF RecordInv, Working, RowLocked, TypeOK
      <3>3. QED
          BY <3>1, <3>2
    <2>9. \A p \in Processes, i \in Interviews : ThreadUsed(p, i)'
        BY <2>1, <2>6 DEF RecordInv, ThreadUsed
    <2>10. QED
        BY <2>5, <2>8, <2>9 DEF RecordInv
  <1>7. ASSUME NEW r \in Requests, Commit(r) \/ CommitUnacknowledged(r) PROVE RecordInv'
    <2>1. /\ pc[r] = "commit"
          /\ pc'[r] \in {"respond", "unknown"}
          /\ row' = [row EXCEPT ![about[r]] = session[r]]
          /\ \A h \in Requests \ {r} : pc'[h] = pc[h]
          /\ UNCHANGED <<thread, session, at, about, turn, starting>>
        BY <1>7 DEF Commit, CommitUnacknowledged, Goto, TypeOK
    <2>2. /\ about[r] \in Interviews
          /\ row'[about[r]] = session[r]
          /\ \A i \in Interviews \ {about[r]} : row'[i] = row[i]
        BY <2>1 DEF TypeOK
    <2>3. /\ turn[r] # NoTurn /\ row[about[r]].open = turn[r]
          /\ session[r].log = Append(row[about[r]].log, [request |-> r, turn |-> turn[r]])
          /\ session[r].open = NoTurn \/ turn[r] < session[r].open
          /\ session[r].published
        BY <2>1 DEF RecordInv, Working, RowLocked
    <2>4. /\ row[about[r]].log \in Seq(Entry)
          /\ turn[r] \in Nat
          /\ session[r].open \in Nat
        BY <2>2 DEF TypeOK, Row
    <2>5. Ordered(about[r])'
      <3>1. Ordered(about[r])
          BY <2>2 DEF RecordInv
      <3>2. /\ \A k \in DOMAIN row[about[r]].log : row[about[r]].log[k].turn < turn[r]
            /\ \A j, k \in DOMAIN row[about[r]].log :
                  j < k => row[about[r]].log[j].turn < row[about[r]].log[k].turn
          BY <2>3, <3>1 DEF Ordered
      <3>3. /\ \A k \in DOMAIN session[r].log :
                  session[r].open # NoTurn => session[r].log[k].turn < session[r].open
            /\ \A j, k \in DOMAIN session[r].log :
                  j < k => session[r].log[j].turn < session[r].log[k].turn
          BY <2>3, <2>4, <3>2, CommitOrdered
      <3>4. QED
          BY <2>1, <2>2, <2>3, <3>3 DEF Ordered
    <2>6. starting[about[r]] = "published"
        BY <2>2, <2>3 DEF RecordInv, Unstarted, NoRow
    <2>7. \A i \in Interviews : Ordered(i)' /\ Unstarted(i)'
        BY <2>1, <2>2, <2>5, <2>6 DEF RecordInv, Ordered, Unstarted
    <2>8. \A h \in Requests \ {r} : pc[h] \in RowLocked => about[h] # about[r]
        BY <2>1 DEF LockInv, RowLocked
    <2>9. \A h \in Requests : Working(h)'
      <3>1. Working(r)'
          BY <2>1 DEF Working, RowLocked
      <3>2. ASSUME NEW h \in Requests \ {r} PROVE Working(h)'
          BY <2>1, <2>2, <2>8 DEF RecordInv, Working, RowLocked, TypeOK
      <3>3. QED
          BY <3>1, <3>2
    <2>10. \A p \in Processes, i \in Interviews : ThreadUsed(p, i)'
        BY <2>1 DEF RecordInv, ThreadUsed
    <2>11. QED
        BY <2>7, <2>9, <2>10 DEF RecordInv
  <1>8. ASSUME NEW r \in Requests, Fail(r) \/ DeadlineExpires(r) PROVE RecordInv'
    <2>1. /\ pc'[r] = "error"
          /\ \A h \in Requests \ {r} : pc'[h] = pc[h]
          /\ UNCHANGED <<row, session, at, about, turn, starting>>
          /\ DeleteThreads({r})
        BY <1>8 DEF Fail, DeadlineExpires, Goto, TypeOK
    <2>2. \A i \in Interviews : Ordered(i)' /\ Unstarted(i)'
        BY <2>1 DEF RecordInv, Ordered, Unstarted
    <2>3. \A p \in Processes, i \in Interviews :
             IF pc[r] \in InGraph /\ at[r] = p /\ about[r] = i
             THEN thread'[p][i] = {} ELSE thread'[p][i] = thread[p][i]
        BY <2>1 DEF DeleteThreads
    <2>4. \A h \in Requests \ {r} : pc[h] \in RowLocked /\ pc[r] \in RowLocked
                                    => about[h] # about[r]
        BY DEF LockInv
    <2>5. \A h \in Requests : Working(h)'
      <3>1. Working(r)'
          BY <2>1 DEF Working, RowLocked
      <3>2. ASSUME NEW h \in Requests \ {r} PROVE Working(h)'
        <4>1. pc[h] = "advance" => thread'[at[h]][about[h]] = thread[at[h]][about[h]]
            BY <2>3, <2>4 DEF RowLocked, TypeOK
        <4>2. Working(h)
            BY DEF RecordInv
        <4>3. QED
            BY <2>1, <4>1, <4>2 DEF Working, RowLocked
      <3>3. QED
          BY <3>1, <3>2
    <2>6. \A p \in Processes, i \in Interviews : ThreadUsed(p, i)'
        BY <2>1, <2>3 DEF RecordInv, ThreadUsed
    <2>7. QED
        BY <2>2, <2>5, <2>6 DEF RecordInv
  <1>9. ASSUME NEW p \in Processes, Crash(p) PROVE RecordInv'
    <2>1. /\ \A h \in Requests : \/ pc'[h] = pc[h] /\ ~(at[h] = p /\ pc[h] \in Live)
                                 \/ pc'[h] = "unknown"
          /\ \A i \in Interviews : starting'[i] \in {starting[i], "failed"}
          /\ \A i \in Interviews : starting'[i] = "failed" => starting[i] # "published"
          /\ UNCHANGED <<row, session, at, about, turn>>
        BY <1>9 DEF Crash, TypeOK
    <2>2. \A q \in Processes, i \in Interviews :
             thread'[q][i] = IF q = p THEN {} ELSE thread[q][i]
        BY <1>9 DEF Crash, TypeOK
    <2>3. \A i \in Interviews : Ordered(i)' /\ Unstarted(i)'
        BY <2>1 DEF RecordInv, Ordered, Unstarted
    <2>4. ASSUME NEW h \in Requests PROVE Working(h)'
        BY <2>1, <2>2 DEF RecordInv, Working, RowLocked, TypeOK
    <2>5. ASSUME NEW q \in Processes, NEW i \in Interviews PROVE ThreadUsed(q, i)'
      <3>1. CASE q = p
          BY <2>2, <3>1 DEF ThreadUsed
      <3>2. CASE q # p
        <4>1. ASSUME NEW h \in Requests, at[h] = q PROVE pc'[h] = pc[h]
            BY <1>9, <3>2, <4>1 DEF Crash, TypeOK
        <4>2. QED
            BY <2>1, <2>2, <3>2, <4>1 DEF RecordInv, ThreadUsed
      <3>3. QED
          BY <3>1, <3>2
    <2>6. QED
        BY <2>3, <2>4, <2>5 DEF RecordInv
  <1>10. CASE UNCHANGED vars
    <2>1. UNCHANGED <<row, thread, session, at, about, starting, pc, turn>>
        BY <1>10 DEF vars
    <2>2. QED
        BY <2>1, QuietStep
  <1>11. QED
      BY <1>1, <1>2, <1>3, <1>4, <1>5, <1>6, <1>7, <1>8, <1>9, <1>10
      DEF Next, Start, Step, Fault

-----------------------------------------------------------------------------
(***************************************************************************)
(* Outcomes.  Until its commit a request is on no record, and the answers  *)
(* acknowledged are on theirs.                                             *)
(***************************************************************************)
Undecided == {"new", "stale", "completed", "error", "commit"} \cup Uncommitted

OutcomeInv ==
    \A r \in Requests :
        /\ pc[r] \in Undecided => ~InSomeLog(r)
        /\ pc[r] \in {"respond", "accepted"} => OnRecord(r)

LEMMA InitOutcome == Init => OutcomeInv
  BY DEF Init, OutcomeInv, Undecided, InSomeLog, NoRow

LEMMA QuietOutcome ==
    ASSUME OutcomeInv,
           UNCHANGED <<row, about>>,
           \A r \in Requests :
              \/ pc'[r] = pc[r] /\ turn'[r] = turn[r]
              \/ pc[r] \in Undecided /\ pc'[r] \in Undecided
              \/ pc[r] = "respond" /\ pc'[r] = "accepted" /\ turn'[r] = turn[r]
              \/ pc'[r] = "unknown"
    PROVE  OutcomeInv'
  <1>1. \A r \in Requests : InSomeLog(r)' <=> InSomeLog(r)
      BY DEF InSomeLog
  <1>2. ASSUME NEW r \in Requests, turn'[r] = turn[r], OnRecord(r) PROVE OnRecord(r)'
      BY <1>2 DEF OnRecord
  <1>3. QED
      BY <1>1, <1>2 DEF OutcomeInv, Undecided

LEMMA StepOutcome ==
    TypeOK /\ LockInv /\ RecordInv /\ OutcomeInv /\ [Next]_vars => OutcomeInv'
  <1> SUFFICES ASSUME TypeOK, LockInv, RecordInv, OutcomeInv, [Next]_vars PROVE OutcomeInv'
      OBVIOUS
  <1>0. /\ DOMAIN pc = Requests
        /\ DOMAIN turn = Requests
      BY DEF TypeOK
  <1>1. ASSUME NEW i \in Interviews,
               \/ BeginStart(i) \/ FirstQuestionReady(i) \/ StoreCandidate(i) \/ StartFails(i)
        PROVE  OutcomeInv'
    <2>1. UNCHANGED <<row, about, pc, turn>>
        BY <1>1 DEF BeginStart, FirstQuestionReady, StoreCandidate, StartFails
    <2>2. QED
        BY <2>1, QuietOutcome
  <1>2. ASSUME NEW i \in Interviews, StoreSession(i) PROVE OutcomeInv'
    <2>1. /\ row[i].log = <<>>
          /\ row'[i].log = <<>>
          /\ \A j \in Interviews \ {i} : row'[j] = row[j]
          /\ UNCHANGED <<about, pc, turn>>
        BY <1>2 DEF StoreSession, RecordInv, Unstarted, NoRow, TypeOK
    <2>2. \A j \in Interviews : row'[j].log = row[j].log
        BY <2>1
    <2>3. \A r \in Requests : about[r] \in Interviews
        BY DEF TypeOK
    <2>4. QED
        BY <2>1, <2>2, <2>3 DEF OutcomeInv, InSomeLog, OnRecord
  <1>3. ASSUME NEW r \in Requests,
               \/ Send(r) \/ TakeLock(r) \/ TakePermit(r) \/ LockRow(r) \/ Reject(r)
               \/ Restore(r) \/ Advance(r) \/ Fail(r) \/ DeadlineExpires(r)
        PROVE  OutcomeInv'
    <2>1. UNCHANGED <<row, about>>
        BY <1>3 DEF Send, TakeLock, TakePermit, LockRow, Reject, Restore, Advance, Fail,
                    DeadlineExpires
    <2>2. /\ pc[r] \in Undecided /\ pc'[r] \in Undecided
          /\ \A h \in Requests \ {r} : pc'[h] = pc[h] /\ turn'[h] = turn[h]
        BY <1>0, <1>3 DEF Send, TakeLock, TakePermit, LockRow, Reject, Restore, Advance, Fail,
                          DeadlineExpires, Goto, Undecided
    <2>3. QED
        BY <2>1, <2>2, QuietOutcome
  <1>4. ASSUME NEW r \in Requests, Respond(r) \/ RespondFails(r) \/ CommitFails(r)
        PROVE  OutcomeInv'
    <2>1. UNCHANGED <<row, about, turn>>
        BY <1>4 DEF Respond, RespondFails, CommitFails
    <2>2. /\ \/ pc[r] = "respond" /\ pc'[r] = "accepted"
             \/ pc'[r] = "unknown"
          /\ \A h \in Requests \ {r} : pc'[h] = pc[h]
        BY <1>0, <1>4 DEF Respond, RespondFails, CommitFails, Goto
    <2>3. QED
        BY <2>1, <2>2, QuietOutcome
  <1>5. ASSUME NEW r \in Requests, Commit(r) \/ CommitUnacknowledged(r) PROVE OutcomeInv'
    <2>1. /\ pc[r] = "commit"
          /\ pc'[r] \in {"respond", "unknown"}
          /\ \A h \in Requests \ {r} : pc'[h] = pc[h]
          /\ about[r] \in Interviews
          /\ row'[about[r]] = session[r]
          /\ \A i \in Interviews \ {about[r]} : row'[i] = row[i]
          /\ UNCHANGED <<about, turn>>
        BY <1>5 DEF Commit, CommitUnacknowledged, Goto, TypeOK
    <2> DEFINE old == row[about[r]].log
               entry == [request |-> r, turn |-> turn[r]]
    <2>2. row'[about[r]].log = Append(old, entry)
        BY <2>1 DEF RecordInv, Working
    <2>3. /\ entry \in Entry
          /\ old \in Seq(Entry)
        BY <2>1 DEF TypeOK, Row, Entry
    <2>4. /\ Len(old) \in Nat
          /\ DOMAIN old = 1..Len(old)
          /\ DOMAIN Append(old, entry) = 1..(Len(old) + 1)
          /\ \A k \in 1..Len(old) : Append(old, entry)[k] = old[k]
          /\ Append(old, entry)[Len(old) + 1] = entry
        BY <2>3, AppendProperties, LenProperties
    <2> HIDE DEF old
    <2>5. OnRecord(r)'
        BY <2>1, <2>2, <2>4 DEF OnRecord
    <2>6. ASSUME NEW h \in Requests \ {r}, pc[h] \in Undecided PROVE ~InSomeLog(h)'
      <3>1. ~InSomeLog(h)
          BY <2>6 DEF OutcomeInv
      <3>2. \A k \in DOMAIN row'[about[r]].log : row'[about[r]].log[k].request # h
          BY <2>1, <2>2, <2>4, <3>1 DEF InSomeLog, old
      <3>3. \A i \in Interviews \ {about[r]} : \A k \in DOMAIN row'[i].log :
               row'[i].log[k].request # h
          BY <2>1, <3>1 DEF InSomeLog
      <3>4. QED
          BY <3>2, <3>3 DEF InSomeLog
    <2>7. ASSUME NEW h \in Requests \ {r}, pc[h] \in {"respond", "accepted"}
          PROVE  OnRecord(h)'
      <3>1. OnRecord(h)
          BY <2>7 DEF OutcomeInv
      <3>2. about[h] \in Interviews
          BY DEF TypeOK
      <3>3. CASE about[h] = about[r]
        <4>1. PICK k \in 1..Len(old) : old[k] = [request |-> h, turn |-> turn[h]]
            BY <2>4, <3>1, <3>3 DEF OnRecord, old
        <4>2. /\ k \in 1..(Len(old) + 1)
              /\ row'[about[r]].log[k] = [request |-> h, turn |-> turn[h]]
            BY <2>2, <2>4, <4>1
        <4>3. QED
            BY <2>1, <2>2, <2>4, <3>3, <4>2 DEF OnRecord
      <3>4. CASE about[h] # about[r]
          BY <2>1, <3>1, <3>2, <3>4 DEF OnRecord
      <3>5. QED
          BY <3>3, <3>4
    <2>8. QED
        BY <2>1, <2>5, <2>6, <2>7 DEF OutcomeInv, Undecided
  <1>6. ASSUME NEW p \in Processes, Crash(p) PROVE OutcomeInv'
    <2>1. /\ UNCHANGED <<row, about, turn>>
          /\ \A h \in Requests : pc'[h] \in {pc[h], "unknown"}
        BY <1>6 DEF Crash, TypeOK
    <2>2. QED
        BY <2>1, QuietOutcome
  <1>7. CASE UNCHANGED vars
    <2>1. UNCHANGED <<row, about, pc, turn>>
        BY <1>7 DEF vars
    <2>2. QED
        BY <2>1, QuietOutcome
  <1>8. QED
      BY <1>1, <1>2, <1>3, <1>4, <1>5, <1>6, <1>7 DEF Next, Start, Step, Fault

-----------------------------------------------------------------------------
(***************************************************************************)
(* Permits and candidates.                                                 *)
(***************************************************************************)
PermitsOf(p) == {h \in permits : at[h] = p}

PermitInv ==
    \A p \in Processes : IsFiniteSet(PermitsOf(p)) /\ Cardinality(PermitsOf(p)) <= Permits

CandidateInv ==
    \A i \in Interviews : starting[i] \in {"store_session", "published"} => i \in candidates

LEMMA InitPermit == Init => PermitInv
  <1> SUFFICES ASSUME Init PROVE PermitInv
      OBVIOUS
  <1>1. \A p \in Processes : PermitsOf(p) = {}
      BY DEF Init, PermitsOf
  <1>2. QED
      BY <1>1, FS_EmptySet, PermitsAssumption DEF PermitInv

(***************************************************************************)
(* Giving permits back never takes a process over its bound.               *)
(***************************************************************************)
LEMMA FewerPermits ==
    ASSUME PermitInv, permits' \subseteq permits, UNCHANGED at
    PROVE  PermitInv'
  <1> SUFFICES ASSUME NEW p \in Processes
               PROVE  IsFiniteSet(PermitsOf(p)') /\ Cardinality(PermitsOf(p)') <= Permits
      BY DEF PermitInv
  <1>1. PermitsOf(p)' \subseteq PermitsOf(p)
      BY DEF PermitsOf
  <1>2. IsFiniteSet(PermitsOf(p)) /\ Cardinality(PermitsOf(p)) <= Permits
      BY DEF PermitInv
  <1>3. /\ IsFiniteSet(PermitsOf(p)')
        /\ Cardinality(PermitsOf(p)') <= Cardinality(PermitsOf(p))
      BY <1>1, <1>2, FS_Subset
  <1>4. /\ Cardinality(PermitsOf(p)) \in Nat
        /\ Cardinality(PermitsOf(p)') \in Nat
      BY <1>2, <1>3, FS_CardinalityType
  <1>5. QED
      BY <1>2, <1>3, <1>4, PermitsAssumption

LEMMA StepPermit == TypeOK /\ PermitInv /\ [Next]_vars => PermitInv'
  <1> SUFFICES ASSUME TypeOK, PermitInv, [Next]_vars PROVE PermitInv'
      OBVIOUS
  <1>1. ASSUME NEW r \in Requests, TakePermit(r) PROVE PermitInv'
    <2> SUFFICES ASSUME NEW p \in Processes
                 PROVE  IsFiniteSet(PermitsOf(p)') /\ Cardinality(PermitsOf(p)') <= Permits
        BY DEF PermitInv
    <2>1. IsFiniteSet(PermitsOf(p)) /\ Cardinality(PermitsOf(p)) <= Permits
        BY DEF PermitInv
    <2>2. CASE at[r] # p
      <3>1. PermitsOf(p)' = PermitsOf(p)
          BY <1>1, <2>2 DEF TakePermit, PermitsOf
      <3>2. QED
          BY <2>1, <3>1
    <2>3. CASE at[r] = p
      <3>1. PermitsOf(p)' = PermitsOf(p) \cup {r}
          BY <1>1, <2>3 DEF TakePermit, PermitsOf
      <3>2. {h \in permits : SameProcess(r, h)} = PermitsOf(p)
          BY <2>3 DEF SameProcess, PermitsOf
      <3>3. Cardinality(PermitsOf(p)) < Permits
          BY <1>1, <3>2 DEF TakePermit
      <3>4. /\ IsFiniteSet(PermitsOf(p) \cup {r})
            /\ Cardinality(PermitsOf(p) \cup {r}) \in
                  {Cardinality(PermitsOf(p)), Cardinality(PermitsOf(p)) + 1}
          BY <2>1, FS_AddElement
      <3>5. Cardinality(PermitsOf(p)) \in Nat
          BY <2>1, FS_CardinalityType
      <3>6. QED
          BY <3>1, <3>3, <3>4, <3>5, PermitsAssumption
    <2>4. QED
        BY <2>2, <2>3
  <1>2. ASSUME NEW i \in Interviews, Start(i) \/ StartFails(i) PROVE PermitInv'
    <2>1. UNCHANGED <<permits, at>>
        BY <1>2 DEF Start, StartFails, BeginStart, FirstQuestionReady, StoreCandidate,
                    StoreSession
    <2>2. QED
        BY <2>1, FewerPermits
  <1>3. ASSUME NEW r \in Requests,
               \/ Send(r) \/ TakeLock(r) \/ LockRow(r) \/ Restore(r) \/ Advance(r)
               \/ Respond(r) \/ RespondFails(r)
        PROVE  PermitInv'
    <2>1. UNCHANGED <<permits, at>>
        BY <1>3 DEF Send, TakeLock, LockRow, Restore, Advance, Respond, RespondFails
    <2>2. QED
        BY <2>1, FewerPermits
  <1>4. ASSUME NEW r \in Requests,
               \/ Reject(r) \/ Fail(r) \/ DeadlineExpires(r)
               \/ Commit(r) \/ CommitUnacknowledged(r) \/ CommitFails(r)
        PROVE  PermitInv'
    <2>1. Release({r}) /\ UNCHANGED at
        BY <1>4 DEF Reject, Fail, DeadlineExpires, Commit, CommitUnacknowledged, CommitFails
    <2>2. QED
        BY <2>1, FewerPermits DEF Release
  <1>5. ASSUME NEW p \in Processes, Crash(p) PROVE PermitInv'
      BY <1>5, FewerPermits DEF Crash, Release
  <1>6. CASE UNCHANGED vars
      BY <1>6, FewerPermits DEF vars
  <1>7. QED
      BY <1>1, <1>2, <1>3, <1>4, <1>5, <1>6 DEF Next, Step, Fault

LEMMA StepCandidate == TypeOK /\ CandidateInv /\ [Next]_vars => CandidateInv'
  <1> SUFFICES ASSUME TypeOK, CandidateInv, [Next]_vars PROVE CandidateInv'
      OBVIOUS
  <1>0. DOMAIN starting = Interviews
      BY DEF TypeOK
  <1>1. ASSUME NEW i \in Interviews, Start(i) \/ StartFails(i) PROVE CandidateInv'
      BY <1>0, <1>1 DEF Start, StartFails, BeginStart, FirstQuestionReady, StoreCandidate,
                        StoreSession, CandidateInv
  <1>2. ASSUME NEW r \in Requests, Send(r) \/ Step(r) \/ Fault(r) PROVE CandidateInv'
    <2>1. UNCHANGED <<starting, candidates>>
        BY <1>2 DEF Send, Step, Fault, TakeLock, TakePermit, LockRow, Reject, Restore, Advance,
                    Fail, Commit, Respond, DeadlineExpires, CommitUnacknowledged, CommitFails,
                    RespondFails
    <2>2. QED
        BY <2>1 DEF CandidateInv
  <1>3. ASSUME NEW p \in Processes, Crash(p) PROVE CandidateInv'
      BY <1>0, <1>3 DEF Crash, CandidateInv
  <1>4. CASE UNCHANGED vars
      BY <1>4 DEF vars, CandidateInv
  <1>5. QED
      BY <1>1, <1>2, <1>3, <1>4 DEF Next

-----------------------------------------------------------------------------
(***************************************************************************)
(* Fresh turns.  A turn about to be opened by a commit is nowhere else:    *)
(* not on a record, not open, not about to be opened by another commit.    *)
(***************************************************************************)
Unused(t) ==
    \A i \in Interviews : row[i].open # t /\ \A k \in DOMAIN row[i].log : row[i].log[k].turn # t

FreshInv ==
    /\ \A i \in Interviews : \A k \in DOMAIN row[i].log : row[i].log[k].turn <= turns
    /\ \A r \in Requests : pc[r] = "commit" /\ session[r].open # NoTurn =>
          /\ Unused(session[r].open)
          /\ \A h \in Requests \ {r} :
                pc[h] = "commit" => session[h].open # session[r].open

LEMMA InitFresh == Init => FreshInv
  BY DEF Init, FreshInv, NoRow

LEMMA TurnsOnRecord ==
    ASSUME TypeOK, NEW i \in Interviews, NEW k \in DOMAIN row[i].log
    PROVE  row[i].log[k].turn \in Nat
  <1>1. row[i].log \in Seq(Entry)
      BY DEF TypeOK, Row
  <1>2. row[i].log[k] \in Entry
      BY <1>1, ElementOfSeq, LenProperties
  <1>3. QED
      BY <1>2 DEF Entry

LEMMA NextTurnUnused ==
    ASSUME TypeOK, FreshInv PROVE Unused(turns + 1)
  <1>1. ASSUME NEW i \in Interviews PROVE row[i].open # turns + 1
      BY DEF TypeOK, Row
  <1>2. ASSUME NEW i \in Interviews, NEW k \in DOMAIN row[i].log
        PROVE  row[i].log[k].turn # turns + 1
    <2>1. row[i].log[k].turn <= turns
        BY DEF FreshInv
    <2>2. QED
        BY <2>1, TurnsOnRecord DEF TypeOK
  <1>3. QED
      BY <1>1, <1>2 DEF Unused

LEMMA QuietFresh ==
    ASSUME FreshInv, UNCHANGED <<row, turns>>,
           \A r \in Requests : pc'[r] = "commit" => pc[r] = "commit" /\ session'[r] = session[r]
    PROVE  FreshInv'
  BY DEF FreshInv, Unused

LEMMA StepFresh ==
    TypeOK /\ LockInv /\ RecordInv /\ FreshInv /\ [Next]_vars => FreshInv'
  <1> SUFFICES ASSUME TypeOK, LockInv, RecordInv, FreshInv, [Next]_vars PROVE FreshInv'
      OBVIOUS
  <1>0. /\ DOMAIN pc = Requests
        /\ DOMAIN session = Requests
        /\ turns \in Nat
        /\ \A r \in Requests : session[r].open \in Nat /\ session[r].open <= turns
      BY DEF TypeOK, Row
  <1>1. ASSUME NEW i \in Interviews,
               \/ BeginStart(i) \/ FirstQuestionReady(i) \/ StoreCandidate(i) \/ StartFails(i)
        PROVE  FreshInv'
    <2>1. UNCHANGED <<row, turns, pc, session>>
        BY <1>1 DEF BeginStart, FirstQuestionReady, StoreCandidate, StartFails
    <2>2. QED
        BY <2>1, QuietFresh
  <1>2. ASSUME NEW i \in Interviews, StoreSession(i) PROVE FreshInv'
    <2>1. /\ row'[i].log = <<>>
          /\ row'[i].open \in {NoTurn, turns + 1}
          /\ \A j \in Interviews \ {i} : row'[j] = row[j]
          /\ turns' = turns + 1
          /\ UNCHANGED <<pc, session>>
        BY <1>2 DEF StoreSession, TypeOK
    <2>2. ASSUME NEW j \in Interviews, NEW k \in DOMAIN row'[j].log
          PROVE  row'[j].log[k].turn <= turns'
      <3>1. j # i
          BY <2>1
      <3>2. row[j].log[k].turn <= turns /\ row[j].log[k].turn \in Nat
          BY <2>1, <3>1, TurnsOnRecord DEF FreshInv
      <3>3. QED
          BY <1>0, <2>1, <3>1, <3>2
    <2>3. ASSUME NEW r \in Requests, pc[r] = "commit", session[r].open # NoTurn
          PROVE  Unused(session[r].open)'
      <3>1. Unused(session[r].open)
          BY <2>3 DEF FreshInv
      <3>2. row'[i].open # session[r].open
          BY <1>0, <2>1, <2>3
      <3>3. QED
          BY <2>1, <3>1, <3>2 DEF Unused
    <2>4. QED
        BY <2>1, <2>2, <2>3 DEF FreshInv
  <1>3. ASSUME NEW r \in Requests,
               \/ Send(r) \/ TakeLock(r) \/ TakePermit(r) \/ Reject(r) \/ Restore(r)
               \/ Fail(r) \/ DeadlineExpires(r) \/ Respond(r) \/ RespondFails(r)
               \/ CommitFails(r) \/ LockRow(r)
        PROVE  FreshInv'
    <2>1. UNCHANGED <<row, turns>>
        BY <1>3 DEF Send, TakeLock, TakePermit, Reject, Restore, Fail, DeadlineExpires,
                    Respond, RespondFails, CommitFails, LockRow
    <2>2. /\ pc'[r] # "commit"
          /\ \A h \in Requests \ {r} : pc'[h] = pc[h] /\ session'[h] = session[h]
        BY <1>0, <1>3 DEF Send, TakeLock, TakePermit, Reject, Restore, Fail, DeadlineExpires,
                          Respond, RespondFails, CommitFails, LockRow, Goto
    <2>3. QED
        BY <2>1, <2>2, QuietFresh
  <1>4. ASSUME NEW r \in Requests, Advance(r) PROVE FreshInv'
    <2>1. /\ session'[r].open \in {NoTurn, turns + 1}
          /\ turns' = turns + 1
          /\ \A h \in Requests \ {r} : pc'[h] = pc[h] /\ session'[h] = session[h]
          /\ UNCHANGED row
        BY <1>0, <1>4 DEF Advance, NextTurns, Goto
    <2>2. ASSUME NEW i \in Interviews, NEW k \in DOMAIN row'[i].log
          PROVE  row'[i].log[k].turn <= turns'
      <3>1. row[i].log[k].turn <= turns /\ row[i].log[k].turn \in Nat
          BY <2>1, TurnsOnRecord DEF FreshInv
      <3>2. QED
          BY <1>0, <2>1, <3>1
    <2>3. ASSUME NEW h \in Requests, pc'[h] = "commit", session'[h].open # NoTurn
          PROVE  /\ Unused(session[h].open)'
                 /\ \A g \in Requests \ {h} :
                       pc'[g] = "commit" => session'[g].open # session'[h].open
      <3>1. CASE h = r
        <4>1. session'[h].open = turns + 1
            BY <2>1, <2>3, <3>1
        <4>2. Unused(session[h].open)'
            BY <2>1, <4>1, NextTurnUnused DEF Unused
        <4>3. \A g \in Requests \ {h} : session'[g].open # turns + 1
            BY <1>0, <2>1, <3>1
        <4>4. QED
            BY <4>1, <4>2, <4>3
      <3>2. CASE h # r
        <4>1. pc[h] = "commit" /\ session'[h] = session[h]
            BY <2>1, <2>3, <3>2
        <4>2. Unused(session[h].open)'
            BY <2>1, <2>3, <4>1 DEF FreshInv, Unused
        <4>3. session'[r].open # session'[h].open
            BY <1>0, <2>1, <2>3, <4>1
        <4>4. QED
            BY <2>1, <2>3, <4>1, <4>2, <4>3 DEF FreshInv
      <3>3. QED
          BY <3>1, <3>2
    <2>4. QED
        BY <2>2, <2>3 DEF FreshInv
  <1>5. ASSUME NEW r \in Requests, Commit(r) \/ CommitUnacknowledged(r) PROVE FreshInv'
    <2>1. /\ pc[r] = "commit"
          /\ pc'[r] # "commit"
          /\ \A h \in Requests \ {r} : pc'[h] = pc[h]
          /\ about[r] \in Interviews
          /\ row'[about[r]] = session[r]
          /\ \A i \in Interviews \ {about[r]} : row'[i] = row[i]
          /\ UNCHANGED <<turns, session>>
        BY <1>5 DEF Commit, CommitUnacknowledged, Goto, TypeOK
    <2>2. /\ session[r].log = Append(row[about[r]].log, [request |-> r, turn |-> turn[r]])
          /\ row[about[r]].open = turn[r]
        BY <2>1 DEF RecordInv, Working, RowLocked
    <2>3. /\ turn[r] \in Nat
          /\ turn[r] <= turns
          /\ row[about[r]].log \in Seq(Entry)
        BY <2>1, <2>2 DEF TypeOK, Row
    <2>4. ASSUME NEW k \in DOMAIN session[r].log
          PROVE  \/ k \in DOMAIN row[about[r]].log /\ session[r].log[k] = row[about[r]].log[k]
                 \/ session[r].log[k].turn = turn[r]
      <3>1. [request |-> r, turn |-> turn[r]] \in Entry
          BY <2>3 DEF Entry
      <3>2. QED
          BY <2>2, <2>3, <3>1, AppendProperties, LenProperties
    <2>5. ASSUME NEW i \in Interviews, NEW k \in DOMAIN row'[i].log
          PROVE  row'[i].log[k].turn <= turns'
        BY <2>1, <2>3, <2>4 DEF FreshInv
    <2>6. ASSUME NEW h \in Requests \ {r}, pc[h] = "commit", session[h].open # NoTurn
          PROVE  Unused(session[h].open)'
      <3>1. /\ Unused(session[h].open)
            /\ session[r].open # session[h].open
          BY <2>1, <2>6 DEF FreshInv
      <3>2. \A k \in DOMAIN session[r].log : session[r].log[k].turn # session[h].open
          BY <2>1, <2>2, <2>4, <3>1 DEF Unused
      <3>3. QED
          BY <2>1, <3>1, <3>2 DEF Unused
    <2>7. QED
        BY <2>1, <2>5, <2>6 DEF FreshInv
  <1>6. ASSUME NEW p \in Processes, Crash(p) PROVE FreshInv'
    <2>1. /\ UNCHANGED <<row, turns, session>>
          /\ \A h \in Requests : pc'[h] \in {pc[h], "unknown"}
        BY <1>6 DEF Crash, TypeOK
    <2>2. QED
        BY <2>1, QuietFresh
  <1>7. CASE UNCHANGED vars
    <2>1. UNCHANGED <<row, turns, pc, session>>
        BY <1>7 DEF vars
    <2>2. QED
        BY <2>1, QuietFresh
  <1>8. QED
      BY <1>1, <1>2, <1>3, <1>4, <1>5, <1>6, <1>7 DEF Next, Start, Step, Fault

-----------------------------------------------------------------------------
(***************************************************************************)
(* The inductive invariant and what follows from it.                       *)
(***************************************************************************)
IInv ==
    /\ TypeOK
    /\ LockInv
    /\ RecordInv
    /\ OutcomeInv
    /\ PermitInv
    /\ CandidateInv
    /\ FreshInv

(***************************************************************************)
(* IInv holds in every reachable state of the service: submit_answer's     *)
(* locks, its record, its outcomes and the turn ids not yet published.     *)
(***************************************************************************)
THEOREM Inductive == Spec => []IInv
  <1>1. Init => IInv
    <2>1. Init => CandidateInv
        BY DEF Init, CandidateInv
    <2>2. QED
        BY <2>1, InitType, InitLock, InitRecord, InitOutcome, InitPermit, InitFresh DEF IInv
  <1>2. IInv /\ [Next]_vars => IInv'
      BY StepType, StepLock, StepRecord, StepOutcome, StepPermit, StepCandidate, StepFresh
      DEF IInv
  <1>3. QED
      BY <1>1, <1>2, PTL DEF Spec

(***************************************************************************)
(* Every reachable state has the types declared, and no row or record ever *)
(* names a turn that was not drawn.                                        *)
(***************************************************************************)
THEOREM TypeCorrect == Spec => []TypeOK
  BY Inductive, PTL DEF IInv

(***************************************************************************)
(* No turn is answered twice, by whatever mix of retries, duplicates and   *)
(* processes: submit_answer's compare and commit under the row lock.       *)
(***************************************************************************)
THEOREM TurnsConsumedOnce == Spec => []TurnConsumedOnce
  <1>1. IInv => TurnConsumedOnce
    <2> SUFFICES ASSUME IInv, NEW i \in Interviews,
                        NEW j \in DOMAIN row[i].log, NEW k \in DOMAIN row[i].log,
                        row[i].log[j].turn = row[i].log[k].turn
                 PROVE  j = k
        BY DEF TurnConsumedOnce
    <2>1. row[i].log[j].turn \in Nat /\ row[i].log[k].turn \in Nat
        BY TurnsOnRecord DEF IInv
    <2>2. /\ j < k => row[i].log[j].turn < row[i].log[k].turn
          /\ k < j => row[i].log[k].turn < row[i].log[j].turn
        BY DEF IInv, RecordInv, Ordered
    <2>3. j \in Nat /\ k \in Nat
      <3>1. row[i].log \in Seq(Entry)
          BY DEF IInv, TypeOK, Row
      <3>2. QED
          BY <3>1, LenProperties
    <2>4. QED
        BY <2>1, <2>2, <2>3
  <1>2. QED
      BY <1>1, Inductive, PTL

(***************************************************************************)
(* An acknowledged answer is on the record and a refused or failed one is  *)
(* not: submit_answer returns only after its transaction has committed.    *)
(***************************************************************************)
THEOREM OutcomesMatchRecord == Spec => []OutcomeMatchesRecord
  <1>1. IInv => OutcomeMatchesRecord
      BY DEF IInv, OutcomeInv, Undecided, OutcomeMatchesRecord
  <1>2. QED
      BY <1>1, Inductive, PTL

(***************************************************************************)
(* The graph threads in a process's memory never hold anything but the     *)
(* committed state of the interview some request is advancing there.       *)
(***************************************************************************)
THEOREM ThreadsAreCommitted == Spec => []ThreadsHoldCommitted
  <1>1. IInv => ThreadsHoldCommitted
    <2> SUFFICES ASSUME IInv, NEW p \in Processes, NEW i \in Interviews, thread[p][i] # {}
                 PROVE  /\ thread[p][i] = {row[i].log}
                        /\ \E r \in Requests : at[r] = p /\ about[r] = i /\ pc[r] = "advance"
        BY DEF ThreadsHoldCommitted
    <2>1. PICK r \in Requests : at[r] = p /\ about[r] = i /\ pc[r] = "advance"
        BY DEF IInv, RecordInv, ThreadUsed
    <2>2. thread[p][i] = {row[i].log}
        BY <2>1 DEF IInv, RecordInv, Working
    <2>3. QED
        BY <2>1, <2>2
  <1>2. QED
      BY <1>1, Inductive, PTL

(***************************************************************************)
(* A process has at most as many turn transactions under way as it has     *)
(* permits, and one per interview: InterviewLockRegistry.                  *)
(***************************************************************************)
THEOREM TransactionsAreBounded == Spec => []TransactionsBounded
  <1>1. IInv => TransactionsBounded
    <2> SUFFICES ASSUME IInv, NEW p \in Processes
                 PROVE  /\ Cardinality(InTransaction(p)) <= Permits
                        /\ \A r, h \in InTransaction(p) : r # h => about[r] # about[h]
        BY DEF TransactionsBounded
    <2>1. InTransaction(p) = PermitsOf(p)
        BY DEF IInv, LockInv, TypeOK, InTransaction, PermitsOf, Permitted, RowLocked
    <2>2. Cardinality(InTransaction(p)) <= Permits
        BY <2>1 DEF IInv, PermitInv
    <2>3. \A r \in InTransaction(p) : r \in locks /\ at[r] = p
        BY DEF IInv, LockInv, InTransaction, Locked, Permitted, RowLocked
    <2>4. QED
        BY <2>2, <2>3 DEF IInv, LockInv
  <1>2. QED
      BY <1>1, Inductive, PTL

(***************************************************************************)
(* An interview whose session row exists has its candidate row: start()    *)
(* inserts the candidate first.                                            *)
(***************************************************************************)
THEOREM PublishedHaveCandidates == Spec => []PublishedHasCandidate
  <1>1. IInv => PublishedHasCandidate
      BY DEF IInv, RecordInv, Unstarted, CandidateInv, NoRow, PublishedHasCandidate
  <1>2. QED
      BY <1>1, Inductive, PTL

-----------------------------------------------------------------------------
(***************************************************************************)
(* The refinement.  A step that touches no row is a stutter of the turn    *)
(* log, storing the session publishes the interview, a commit accepts.     *)
(***************************************************************************)
LEMMA UnusedTurn ==
    ASSUME NEW t, Unused(t) PROVE t \notin Log!Used
  BY DEF Unused, Log!Used, Log!Turns

LEMMA UnrecordedRequest ==
    ASSUME NEW r, ~InSomeLog(r) PROVE r \notin Log!Recorded
  BY DEF InSomeLog, Log!Recorded

LEMMA StepPublishes ==
    ASSUME IInv, NEW i \in Interviews, StoreSession(i) PROVE Log!Publish(i)
  <1>1. /\ row[i] = NoRow
        /\ row'[i].published /\ row'[i].log = <<>>
        /\ row'[i].open \in {NoTurn, turns + 1}
        /\ \A j \in Interviews \ {i} : row'[j] = row[j]
      BY DEF StoreSession, IInv, RecordInv, Unstarted, TypeOK
  <1>2. turns + 1 \notin Log!Used
      BY NextTurnUnused, UnusedTurn DEF IInv
  <1>3. [j \in Interviews |-> row'[j].log] = [j \in Interviews |-> row[j].log]
      BY <1>1 DEF NoRow
  <1>4. {j \in Interviews : row'[j].published} = {j \in Interviews : row[j].published} \cup {i}
      BY <1>1
  <1>5. i \notin {j \in Interviews : row[j].published}
      BY <1>1 DEF NoRow
  <1>6. Log!OpensFresh(i)
      BY <1>1, <1>2 DEF Log!OpensFresh
  <1>7. QED
      BY <1>3, <1>4, <1>5, <1>6 DEF Log!Publish

LEMMA StepAccepts ==
    ASSUME IInv, NEW r \in Requests, Commit(r) \/ CommitUnacknowledged(r),
           NEW i \in Interviews, i = about[r]
    PROVE  Log!Accept(i, r)
  <1>1. /\ pc[r] = "commit"
        /\ row'[i] = session[r]
        /\ \A j \in Interviews \ {i} : row'[j] = row[j]
      BY DEF Commit, CommitUnacknowledged, IInv, TypeOK
  <1>2. /\ row[i].open = turn[r] /\ row[i].open # NoTurn
        /\ row[i].published /\ session[r].published
        /\ session[r].log = Append(row[i].log, [request |-> r, turn |-> row[i].open])
      BY <1>1 DEF IInv, RecordInv, Working, Ordered, RowLocked
  <1>3. session[r].open = NoTurn \/ session[r].open \notin Log!Used
      BY <1>1, UnusedTurn DEF IInv, FreshInv
  <1>4. r \notin Log!Recorded
      BY <1>1, UnrecordedRequest DEF IInv, OutcomeInv, Undecided
  <1>5. [j \in Interviews |-> row'[j].log] =
          [[j \in Interviews |-> row[j].log] EXCEPT
              ![i] = Append(@, [request |-> r, turn |-> row[i].open])]
      BY <1>1, <1>2
  <1>6. {j \in Interviews : row'[j].published} = {j \in Interviews : row[j].published}
      BY <1>1, <1>2
  <1>7. Log!OpensFresh(i)
      BY <1>1, <1>3 DEF Log!OpensFresh
  <1>8. QED
      BY <1>1, <1>2, <1>4, <1>5, <1>6, <1>7 DEF Log!Accept

(***************************************************************************)
(* Several processes, their locks, retries, cancellations and crashes      *)
(* implement one log per interview in which each open turn is consumed     *)
(* once and followed by a turn never seen before.                          *)
(***************************************************************************)
THEOREM Implements == Spec => ImplementsTurnLog
  <1>1. Init => Log!LogInit
      BY DEF Init, Log!LogInit, NoRow
  <1>2. IInv /\ [Next]_vars => [Log!LogNext]_Log!turnLog
    <2> SUFFICES ASSUME IInv, [Next]_vars PROVE [Log!LogNext]_Log!turnLog
        OBVIOUS
    <2>1. CASE UNCHANGED row
        BY <2>1 DEF Log!turnLog
    <2>2. ASSUME NEW i \in Interviews, StoreSession(i) PROVE Log!LogNext
        BY <2>2, StepPublishes DEF Log!LogNext
    <2>3. ASSUME NEW r \in Requests, Commit(r) \/ CommitUnacknowledged(r) PROVE Log!LogNext
      <3>1. PICK i \in Interviews : i = about[r]
          BY DEF IInv, TypeOK
      <3>2. Log!Accept(i, r)
          BY <2>3, <3>1, StepAccepts
      <3>3. QED
          BY <3>2 DEF Log!LogNext
    <2>4. \/ UNCHANGED row
          \/ \E i \in Interviews : StoreSession(i)
          \/ \E r \in Requests : Commit(r) \/ CommitUnacknowledged(r)
        BY DEF Next, Start, Step, Fault, vars, BeginStart, FirstQuestionReady, StoreCandidate,
               StartFails, Send, TakeLock, TakePermit, LockRow, Reject, Restore, Advance, Fail,
               Respond, DeadlineExpires, CommitFails, RespondFails, Crash
    <2>5. QED
        BY <2>1, <2>2, <2>3, <2>4
  <1>3. QED
      BY <1>1, <1>2, Inductive, PTL DEF Spec, ImplementsTurnLog, Log!LogSpec
=============================================================================
