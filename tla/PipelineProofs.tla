--------------------------- MODULE PipelineProofs ---------------------------
(***************************************************************************)
(* Theorems about Pipeline, for every number of workers and messages, every*)
(* retry limit and every mix of faults.                                    *)
(***************************************************************************)
EXTENDS Pipeline, TLAPS

USE PipelineAssumption, LeaseAssumption DEF Messages

----------------------------------------------------------------------------
(* The rows of the dedupe store.                                           *)

\* Every operation of the store yields a row.
LEMMA RowOperations ==
  ASSUME NEW row \in Row
  PROVE  /\ Claimed(row) \in Row
         /\ Attempted(row) \in Row
         /\ Attempted(row).attempts \in Nat
         /\ MarkedDone(row) \in Row
         /\ Released(row) \in Row
         /\ Purged(row) \in Row
         /\ [row EXCEPT !.fresh = FALSE] \in Row
<1>1. Claimed(row) \in Row /\ MarkedDone(row) \in Row
  BY DEF Row, Claimed, MarkedDone
<1>2. Attempted(row) \in Row /\ Attempted(row).attempts \in Nat
  BY DEF Row, Attempted
<1>3. Released(row) \in Row
  BY DEF Row, Released
<1>4. Purged(row) \in Row
  BY DEF Row, NoRow, Purged
<1>5. [row EXCEPT !.fresh = FALSE] \in Row
  BY DEF Row
<1>6. QED
  BY <1>1, <1>2, <1>3, <1>4, <1>5

\* Only MarkedDone makes a row done.
LEMMA RowDone ==
  ASSUME NEW row \in Row
  PROVE  /\ Claimed(row).done = row.done
         /\ Attempted(row).done = row.done
         /\ Released(row).done = row.done
         /\ [row EXCEPT !.fresh = FALSE].done = row.done
         /\ ~Purged(row).done
  BY DEF Row, NoRow, Claimed, Attempted, Released, Purged

\* Counting one more disposition keeps a report a report.
LEMMA ReportOperations ==
  ASSUME NEW r \in Report
  PROVE  /\ [r EXCEPT !.fetched = @ + 1] \in Report
         /\ [r EXCEPT !.emitted = @ + 1] \in Report
         /\ [r EXCEPT !.dropped = @ + 1] \in Report
         /\ [r EXCEPT !.duplicates = @ + 1] \in Report
         /\ [r EXCEPT !.dead_lettered = @ + 1] \in Report
<1>1. [r EXCEPT !.fetched = @ + 1] \in Report
  BY DEF Report
<1>2. [r EXCEPT !.emitted = @ + 1] \in Report
  BY DEF Report
<1>3. [r EXCEPT !.dropped = @ + 1] \in Report
  BY DEF Report
<1>4. [r EXCEPT !.duplicates = @ + 1] \in Report
  BY DEF Report
<1>5. [r EXCEPT !.dead_lettered = @ + 1] \in Report
  BY DEF Report
<1>6. QED
  BY <1>1, <1>2, <1>3, <1>4, <1>5

\* A run starts with a report.
LEMMA EmptyReportType == EmptyReport \in Report
  BY DEF Report, EmptyReport

----------------------------------------------------------------------------
(* Types.                                                                  *)

\* The initial state is well typed.
LEMMA TypeInit == Init => TypeOK
  BY DEF Init, TypeOK, Row, NoRow, Report, EmptyReport, PCs, Holding

\* Every exception of _do_work leads to a failure path, with the claim still held.
LEMMA HandlerType ==
  ASSUME NEW w \in Workers, NEW e \in Errors
  PROVE  HandlerOf(w, e) \in Holding
  BY DEF HandlerOf, Holding, Errors

\* What a run loses when it ends.
LEMMA EndOfRunType ==
  ASSUME TypeOK, NEW w \in Workers, EndOfRun(w)
  PROVE  /\ pc' \in [Workers -> PCs]
         /\ pos' \in [Workers -> 0 .. NumMessages]
         /\ \A v \in Workers :
              pc'[v] \in Holding \cup {"claim", "commit"} => pos'[v] \in Messages
         /\ blocked' \in [Workers -> BOOLEAN]
         /\ tries' \in [Workers -> Nat]
         /\ retried' \in [Workers -> BOOLEAN]
         /\ rep' \in [Workers -> Report]
         /\ leaseLive' \in [Workers -> BOOLEAN]
<1> USE DEF TypeOK, EndOfRun, Settle, Goto
<1>1. pc' \in [Workers -> PCs] /\ pos' \in [Workers -> 0 .. NumMessages]
  BY DEF PCs
<1>2. \A v \in Workers :
        pc'[v] \in Holding \cup {"claim", "commit"} => pos'[v] \in Messages
  BY DEF Holding
<1>3. /\ blocked' \in [Workers -> BOOLEAN]
      /\ retried' \in [Workers -> BOOLEAN]
      /\ leaseLive' \in [Workers -> BOOLEAN]
  OBVIOUS
<1>4. tries' \in [Workers -> Nat]
  OBVIOUS
<1>5. rep' \in [Workers -> Report]
  BY EmptyReportType
<1>6. QED
  BY <1>1, <1>2, <1>3, <1>4, <1>5

\* A step of the run loop keeps the types.
LEMMA TypeRunLoop ==
  ASSUME TypeOK, NEW w \in Workers, RunLoop(w)
  PROVE  TypeOK'
<1> USE DEF TypeOK, stores, outputs, locals, history, Goto, PCs, Holding
<1>1. CASE StartRun(w)
  BY <1>1 DEF StartRun
<1>2. CASE FetchMessage(w)
  <2>1. pos[w] + 1 \in 1 .. NumMessages
    BY <1>2 DEF FetchMessage
  <2>2. rep' \in [Workers -> Report]
    BY <1>2, ReportOperations DEF FetchMessage
  <2>3. pc' \in [Workers -> PCs] /\ pos' \in [Workers -> 0 .. NumMessages]
    BY <1>2, <2>1 DEF FetchMessage
  <2>4. \A v \in Workers : pc'[v] \in Holding \cup {"claim", "commit"} => pos'[v] \in Messages
    BY <1>2, <2>1 DEF FetchMessage
  <2>5. QED
    BY <1>2, <2>2, <2>3, <2>4 DEF FetchMessage
<1>3. CASE FetchExhausted(w)
  BY <1>3 DEF FetchExhausted
<1>4. CASE ReturnReport(w)
  BY <1>4, EndOfRunType DEF ReturnReport
<1>5. CASE Commit(w)
  BY <1>5 DEF Commit
<1>6. QED
  BY <1>1, <1>2, <1>3, <1>4, <1>5 DEF RunLoop

\* A step of the processing of one message keeps the types.
LEMMA TypeProcess ==
  ASSUME TypeOK, NEW w \in Workers, Process(w)
  PROVE  TypeOK'
<1> USE DEF TypeOK, stores, outputs, locals, history, Goto, SetClaim, Settle,
            AfterTerminal, PCs, Holding
<1>1. CASE Claim(w)
  BY <1>1, RowOperations DEF Claim
<1>2. CASE Duplicate(w)
  BY <1>2, ReportOperations DEF Duplicate
<1>3. CASE RecordAttempt(w)
  <2>1. claims[pos[w]] \in Row /\ pos[w] \in Messages
    BY <1>3 DEF RecordAttempt
  <2>2. claims' \in [Messages -> Row] /\ tries' \in [Workers -> Nat]
    BY <1>3, <2>1, RowOperations DEF RecordAttempt
  <2>3. attempted' \in [Messages -> Nat]
    BY <1>3, <2>1 DEF RecordAttempt
  <2>4. QED
    BY <1>3, <2>2, <2>3 DEF RecordAttempt
<1>4. CASE Extract(w)
  BY <1>4 DEF Extract
<1>5. CASE FilterDrop(w)
  BY <1>5 DEF FilterDrop
<1>6. CASE Emit(w)
  <2>1. pos[w] \in Messages /\ emits[pos[w]] \in Nat
    BY <1>6 DEF Emit
  <2>2. emits' \in [Messages -> Nat]
    BY <1>6, <2>1 DEF Emit
  <2>3. QED
    BY <1>6, <2>2 DEF Emit
<1>7. CASE WorkRaises(w)
  BY <1>7, HandlerType DEF WorkRaises
<1>8. CASE MarkEmitted(w)
  BY <1>8, RowOperations, ReportOperations DEF MarkEmitted
<1>9. CASE MarkDropped(w)
  BY <1>9, RowOperations, ReportOperations DEF MarkDropped
<1>10. CASE Refresh(w)
  BY <1>10 DEF Refresh
<1>11. CASE Release(w)
  BY <1>11, RowOperations DEF Release
<1>12. CASE DlqEmit(w)
  BY <1>12 DEF DlqEmit
<1>13. CASE DlqPut(w)
  BY <1>13 DEF DlqPut
<1>14. CASE DlqMark(w)
  BY <1>14, RowOperations, ReportOperations DEF DlqMark
<1>15. QED
  BY <1>1, <1>2, <1>3, <1>4, <1>5, <1>6, <1>7, <1>8, <1>9, <1>10, <1>11, <1>12,
     <1>13, <1>14 DEF Process

\* A fault keeps the types.
LEMMA TypeFault ==
  ASSUME TypeOK, NEW w \in Workers, Fault(w)
  PROVE  TypeOK'
<1> USE DEF TypeOK, stores, outputs, locals, history, Goto, PCs, Holding
<1>1. CASE EmitUnacknowledged(w)
  <2>1. pos[w] \in Messages /\ emits[pos[w]] \in Nat
    BY <1>1 DEF EmitUnacknowledged
  <2>2. emits' \in [Messages -> Nat]
    BY <1>1, <2>1 DEF EmitUnacknowledged
  <2>3. PICK label \in Holding : pc' = [pc EXCEPT ![w] = label]
    BY <1>1, HandlerType DEF EmitUnacknowledged
  <2>4. pc' \in [Workers -> PCs]
    BY <2>3
  <2>5. \A v \in Workers : pc'[v] \in Holding \cup {"claim", "commit"} => pos[v] \in Messages
    BY <2>1, <2>3
  <2>6. faults' \in Nat
    BY <1>1 DEF EmitUnacknowledged
  <2>7. QED
    BY <1>1, <2>2, <2>4, <2>5, <2>6 DEF EmitUnacknowledged
<1>2. CASE MarkRaises(w)
  <2>1. PICK label \in Holding : pc' = [pc EXCEPT ![w] = label]
    BY <1>2, HandlerType DEF MarkRaises, Errors
  <2>2. pos[w] \in Messages
    BY <1>2 DEF MarkRaises
  <2>3. pc' \in [Workers -> PCs]
    BY <2>1
  <2>4. \A v \in Workers : pc'[v] \in Holding \cup {"claim", "commit"} => pos[v] \in Messages
    BY <2>1, <2>2
  <2>5. faults' \in Nat
    BY <1>2 DEF MarkRaises
  <2>6. QED
    BY <1>2, <2>3, <2>4, <2>5 DEF MarkRaises
<1>3. CASE Raise(w)
  <2>1. faults' \in Nat
    BY <1>3 DEF Raise
  <2>2. QED
    BY <1>3, <2>1, EndOfRunType DEF Raise
<1>4. CASE Crash(w)
  <2>1. faults' \in Nat
    BY <1>4 DEF Crash
  <2>2. QED
    BY <1>4, <2>1, EndOfRunType DEF Crash
<1>5. QED
  BY <1>1, <1>2, <1>3, <1>4 DEF Fault

\* The passing of time keeps the types.
LEMMA TypeTime ==
  ASSUME TypeOK, NEW m \in Messages, LeaseElapses(m) \/ Purge(m)
  PROVE  TypeOK'
<1> USE DEF TypeOK, stores, outputs, locals, history
<1>1. CASE LeaseElapses(m)
  BY <1>1, RowOperations DEF LeaseElapses
<1>2. CASE Purge(m)
  <2>1. claims' \in [Messages -> Row]
    BY <1>2, RowOperations DEF Purge
  <2>2. purges' \in Nat
    BY <1>2 DEF Purge
  <2>3. QED
    BY <1>2, <2>1, <2>2 DEF Purge
<1>3. QED
  BY <1>1, <1>2

\* Every step keeps the types.
LEMMA TypeNext == TypeOK /\ [Next]_vars => TypeOK'
<1> SUFFICES ASSUME TypeOK, [Next]_vars PROVE TypeOK'
  OBVIOUS
<1>1. CASE UNCHANGED vars
  BY <1>1 DEF TypeOK, vars, stores, outputs, locals, history
<1>2. CASE Next
  BY <1>2, TypeRunLoop, TypeProcess, TypeFault, TypeTime DEF Next, Step
<1>3. QED
  BY <1>1, <1>2

\* The type invariant, for every instance.
THEOREM TypeCorrect == Spec => []TypeOK
<1>1. Init => TypeOK
  BY TypeInit
<1>2. TypeOK /\ [Next]_vars => TypeOK'
  BY TypeNext
<1>3. QED
  BY <1>1, <1>2, PTL DEF Spec

----------------------------------------------------------------------------
(* What a step may only add to: the outcomes, the skipped messages and the *)
(* cursor.                                                                 *)

Grows ==
  /\ \A m \in Messages : emits[m] <= emits'[m]
  /\ dropped \subseteq dropped'
  /\ dlqEvents \subseteq dlqEvents'
  /\ dlq \subseteq dlq'
  /\ skipped \subseteq skipped'
  /\ cursor <= cursor'

\* No step takes an outcome back, and none moves the cursor backwards.
LEMMA NothingIsTakenBack == TypeOK /\ [Next]_vars => Grows
<1> SUFFICES ASSUME TypeOK, [Next]_vars PROVE Grows
  OBVIOUS
<1> USE DEF Grows, stores, outputs, locals, history
<1>1. ASSUME NEW w \in Workers, Emit(w) PROVE Grows
  BY <1>1 DEF Emit, TypeOK
<1>2. ASSUME NEW w \in Workers, EmitUnacknowledged(w) PROVE Grows
  BY <1>2 DEF EmitUnacknowledged, TypeOK
<1>3. ASSUME UNCHANGED emits PROVE \A m \in Messages : emits[m] <= emits'[m]
  BY <1>3 DEF TypeOK
<1>4. ASSUME UNCHANGED cursor PROVE cursor <= cursor'
  BY <1>4 DEF TypeOK
<1>5. ASSUME NEW w \in Workers, Commit(w) PROVE Grows
  BY <1>5, <1>3 DEF Commit, TypeOK
<1>6. ASSUME NEW w \in Workers,
             \/ StartRun(w) \/ FetchMessage(w) \/ FetchExhausted(w) \/ ReturnReport(w)
      PROVE  Grows
  BY <1>3, <1>4, <1>6 DEF StartRun, FetchMessage, FetchExhausted, ReturnReport
<1>7. ASSUME NEW w \in Workers,
             \/ Claim(w) \/ Duplicate(w) \/ RecordAttempt(w) \/ Extract(w) \/ FilterDrop(w)
      PROVE  Grows
  BY <1>3, <1>4, <1>7 DEF Claim, Duplicate, RecordAttempt, Extract, FilterDrop
<1>8. ASSUME NEW w \in Workers,
             \/ WorkRaises(w) \/ MarkEmitted(w) \/ MarkDropped(w) \/ Refresh(w)
             \/ Release(w)
      PROVE  Grows
  BY <1>3, <1>4, <1>8 DEF WorkRaises, MarkEmitted, MarkDropped, Refresh, Release
<1>9. ASSUME NEW w \in Workers, DlqEmit(w) \/ DlqPut(w) \/ DlqMark(w) PROVE Grows
  BY <1>3, <1>4, <1>9 DEF DlqEmit, DlqPut, DlqMark
<1>10. ASSUME NEW w \in Workers, MarkRaises(w) \/ Raise(w) \/ Crash(w) PROVE Grows
  BY <1>3, <1>4, <1>10 DEF MarkRaises, Raise, Crash
<1>11. ASSUME NEW m \in Messages, LeaseElapses(m) \/ Purge(m) PROVE Grows
  BY <1>3, <1>4, <1>11 DEF LeaseElapses, Purge
<1>12. CASE UNCHANGED vars
  BY <1>3, <1>4, <1>12 DEF vars
<1>13. CASE Next
  BY <1>1, <1>2, <1>5, <1>6, <1>7, <1>8, <1>9, <1>10, <1>11, <1>13
     DEF Next, Step, RunLoop, Process, Fault
<1>14. QED
  BY <1>12, <1>13

\* So what is disposed of, or finished with, stays so.
LEMMA OutcomesAreFinal ==
  ASSUME TypeOK, TypeOK', Grows, NEW m \in Messages
  PROVE  /\ DeadLettered(m) => DeadLettered(m)'
         /\ Disposed(m) => Disposed(m)'
         /\ Finished(m) => Finished(m)'
<1>1. DeadLettered(m) => DeadLettered(m)'
  BY DEF DeadLettered, Grows
<1>2. Disposed(m) => Disposed(m)'
  <2>1. emits[m] \in Nat /\ emits'[m] \in Nat /\ emits[m] <= emits'[m]
    BY DEF TypeOK, Grows
  <2>2. QED
    BY <1>1, <2>1 DEF Disposed, Grows
<1>3. QED
  BY <1>1, <1>2 DEF Finished, Grows

----------------------------------------------------------------------------
(* The two shared facts: a done row has an outcome, the cursor covers only *)
(* finished messages.                                                      *)

\* A row becomes done only at the end of the path that put out the outcome.
LEMMA DoneStep ==
  ASSUME InductiveInv, [Next]_vars, NEW m \in Messages, claims'[m].done
  PROVE  Disposed(m)'
<1> USE DEF stores, outputs, locals, history
<1>0. \A n \in Messages : Disposed(n) => Disposed(n)'
  BY TypeNext, NothingIsTakenBack, OutcomesAreFinal DEF InductiveInv
<1>1. TypeOK /\ (claims[m].done => Disposed(m)')
  BY <1>0 DEF InductiveInv, DoneImpliesDisposed
<1>2. ASSUME UNCHANGED claims PROVE Disposed(m)'
  BY <1>1, <1>2
<1>3. ASSUME NEW w \in Workers, pos[w] \in Messages, NEW row \in Row,
             SetClaim(w, row), \A n \in Messages : n = pos[w] /\ row.done => Disposed(n)'
      PROVE  Disposed(m)'
  BY <1>1, <1>3 DEF SetClaim, TypeOK
<1>4. ASSUME NEW w \in Workers, Claim(w) \/ RecordAttempt(w) \/ Release(w)
      PROVE  Disposed(m)'
  <2>1. pos[w] \in Messages /\ claims[pos[w]] \in Row
    BY <1>1, <1>4 DEF Claim, RecordAttempt, Release, TypeOK, Holding
  <2>2. \A n \in Messages : n = pos[w] /\ claims[n].done => Disposed(n)'
    BY <1>0, <2>1 DEF InductiveInv, DoneImpliesDisposed
  <2>3. CASE Claim(w)
    <3>1. Claimed(claims[pos[w]]) \in Row
      BY <2>1, RowOperations
    <3>2. \A n \in Messages : n = pos[w] /\ Claimed(claims[pos[w]]).done => Disposed(n)'
      BY <2>1, <2>2, RowDone
    <3>3. SetClaim(w, Claimed(claims[pos[w]]))
      BY <2>3 DEF Claim
    <3>4. QED
      BY <1>3, <2>1, <3>1, <3>2, <3>3
  <2>4. CASE RecordAttempt(w)
    <3>1. Attempted(claims[pos[w]]) \in Row
      BY <2>1, RowOperations
    <3>2. \A n \in Messages : n = pos[w] /\ Attempted(claims[pos[w]]).done => Disposed(n)'
      BY <2>1, <2>2, RowDone
    <3>3. SetClaim(w, Attempted(claims[pos[w]]))
      BY <2>4 DEF RecordAttempt
    <3>4. QED
      BY <1>3, <2>1, <3>1, <3>2, <3>3
  <2>5. CASE Release(w)
    <3>1. Released(claims[pos[w]]) \in Row
      BY <2>1, RowOperations
    <3>2. \A n \in Messages : n = pos[w] /\ Released(claims[pos[w]]).done => Disposed(n)'
      BY <2>1, <2>2, RowDone
    <3>3. SetClaim(w, Released(claims[pos[w]]))
      BY <2>5 DEF Release
    <3>4. QED
      BY <1>3, <2>1, <3>1, <3>2, <3>3
  <2>6. QED
    BY <1>4, <2>3, <2>4, <2>5
<1>5. ASSUME NEW w \in Workers, MarkEmitted(w) \/ MarkDropped(w) \/ DlqMark(w)
      PROVE  Disposed(m)'
  <2>1. pos[w] \in Messages /\ claims[pos[w]] \in Row
    BY <1>1, <1>5 DEF MarkEmitted, MarkDropped, DlqMark, TypeOK, Holding
  <2>2. \A n \in Messages : n = pos[w] => Disposed(n)'
    <3>1. CASE MarkEmitted(w) \/ DlqMark(w)
      BY <1>0, <3>1 DEF InductiveInv, InHand, MarkEmitted, DlqMark, Disposed
    <3>2. CASE MarkDropped(w)
      BY <3>2 DEF MarkDropped, Disposed
    <3>3. QED
      BY <1>5, <3>1, <3>2
  <2>3. SetClaim(w, MarkedDone(claims[pos[w]]))
    BY <1>5 DEF MarkEmitted, MarkDropped, DlqMark
  <2>4. QED
    BY <1>3, <2>1, <2>2, <2>3, RowOperations
<1>6. ASSUME NEW n \in Messages, LeaseElapses(n) \/ Purge(n) PROVE Disposed(m)'
  <2>1. claims[n] \in Row
    BY <1>1 DEF TypeOK
  <2>2. CASE LeaseElapses(n)
    BY <1>1, <2>1, <2>2 DEF LeaseElapses, TypeOK, Row
  <2>3. CASE Purge(n)
    BY <1>1, <2>1, <2>3, RowDone DEF Purge, TypeOK
  <2>4. QED
    BY <1>6, <2>2, <2>3
<1>7. ASSUME NEW w \in Workers,
             \/ RunLoop(w) \/ Duplicate(w) \/ Extract(w) \/ FilterDrop(w) \/ Emit(w)
             \/ WorkRaises(w) \/ Refresh(w) \/ DlqEmit(w) \/ DlqPut(w) \/ Fault(w)
      PROVE  UNCHANGED claims
  BY <1>7 DEF RunLoop, StartRun, FetchMessage, FetchExhausted, ReturnReport, Commit,
     Duplicate, Extract, FilterDrop, Emit, WorkRaises, Refresh, DlqEmit, DlqPut, Fault,
     EmitUnacknowledged, MarkRaises, Raise, Crash
<1>8. CASE UNCHANGED vars
  BY <1>2, <1>8 DEF vars
<1>9. CASE Next
  BY <1>2, <1>4, <1>5, <1>6, <1>7, <1>9 DEF Next, Step, Process
<1>10. QED
  BY <1>8, <1>9

\* Only a commit moves the cursor, and only to a message whose prefix is finished.
LEMMA CursorStep ==
  ASSUME InductiveInv, [Next]_vars, NEW m \in 1 .. cursor'
  PROVE  Finished(m)
<1> USE DEF stores, outputs, locals, history
<1>1. TypeOK /\ \A n \in 1 .. cursor : Finished(n)
  BY DEF InductiveInv, CursorCoversFinished, Finished
<1>2. ASSUME NEW w \in Workers, Commit(w) PROVE Finished(m)
  <2>1. pc[w] = "commit" /\ ~blocked[w] /\ cursor' \in {cursor, pos[w]}
    BY <1>2 DEF Commit, InductiveInv, PrefixFinished
  <2>2. \A n \in 1 .. pos[w] : Finished(n)
    BY <2>1 DEF InductiveInv, PrefixFinished, Holding
  <2>3. QED
    BY <1>1, <2>1, <2>2
<1>3. ASSUME UNCHANGED cursor PROVE Finished(m)
  BY <1>1, <1>3
<1>4. ASSUME NEW w \in Workers,
             \/ StartRun(w) \/ FetchMessage(w) \/ FetchExhausted(w) \/ ReturnReport(w)
             \/ Process(w) \/ Fault(w)
      PROVE  UNCHANGED cursor
  BY <1>4 DEF StartRun, FetchMessage, FetchExhausted, ReturnReport, Process, Claim,
     Duplicate, RecordAttempt, Extract, FilterDrop, Emit, WorkRaises, MarkEmitted,
     MarkDropped, Refresh, Release, DlqEmit, DlqPut, DlqMark, Fault,
     EmitUnacknowledged, MarkRaises, Raise, Crash
<1>5. ASSUME NEW n \in Messages, LeaseElapses(n) \/ Purge(n) PROVE UNCHANGED cursor
  BY <1>5 DEF LeaseElapses, Purge
<1>6. QED
  BY <1>2, <1>3, <1>4, <1>5 DEF Next, Step, RunLoop, vars

----------------------------------------------------------------------------
(* The facts about one worker's run.                                       *)

WorkerInv(w) == InHand(w) /\ PrefixFinished(w) /\ ReportOwes(w)

\* In particular what is finished before a worker's position stays finished.
LEMMA PrefixStaysFinished ==
  ASSUME TypeOK, TypeOK', Grows, NEW w \in Workers
  PROVE  \A m \in 1 .. pos[w] : Finished(m) => Finished(m)'
<1>1. TAKE m \in 1 .. pos[w]
<1>2. m \in Messages
  <2>1. pos[w] \in 0 .. NumMessages
    BY DEF TypeOK
  <2>2. QED
    BY <2>1
<1>3. QED
  BY <1>2, OutcomesAreFinal

\* A worker that does not move keeps its facts whatever the others do.
LEMMA OtherWorkers ==
  ASSUME TypeOK, TypeOK', Grows, NEW v \in Workers, WorkerInv(v),
         pc'[v] = pc[v], pos'[v] = pos[v], blocked'[v] = blocked[v], rep'[v] = rep[v]
  PROVE  WorkerInv(v)'
<1>1. InHand(v)'
  <2>1. pc[v] = "markEmitted" => emits'[pos[v]] > 0
    <3>1. SUFFICES ASSUME pc[v] = "markEmitted" PROVE emits'[pos[v]] > 0
      OBVIOUS
    <3>2. pos[v] \in Messages
      BY <3>1 DEF TypeOK, Holding
    <3>3. emits[pos[v]] \in Nat /\ emits'[pos[v]] \in Nat
      BY <3>2 DEF TypeOK
    <3>4. emits[pos[v]] > 0 /\ emits[pos[v]] <= emits'[pos[v]]
      BY <3>1, <3>2 DEF WorkerInv, InHand, Grows
    <3>5. QED
      BY <3>3, <3>4
  <2>2. pc[v] = "dlqPut" => pos[v] \in dlqEvents'
    BY DEF WorkerInv, InHand, Grows
  <2>3. pc[v] = "dlqMark" => DeadLettered(pos[v])'
    BY DEF WorkerInv, InHand, Grows, DeadLettered
  <2>4. QED
    BY <2>1, <2>2, <2>3 DEF InHand, DeadLettered
<1>2. PrefixFinished(v)'
  <2>1. \A m \in 1 .. pos[v] : Finished(m) => Finished(m)'
    BY PrefixStaysFinished
  <2>2. QED
    BY <2>1 DEF WorkerInv, PrefixFinished
<1>3. ReportOwes(v)'
  BY DEF WorkerInv, ReportOwes, Grows, TypeOK
<1>4. QED
  BY <1>1, <1>2, <1>3 DEF WorkerInv

\* A worker that keeps its message in hand owes what it owed before.
LEMMA StillHolding ==
  ASSUME TypeOK, TypeOK', Grows, NEW w \in Workers, WorkerInv(w),
         pc[w] \in Holding \cup {"claim"}, NEW label \in Holding,
         pc' = [pc EXCEPT ![w] = label],
         UNCHANGED <<pos, blocked, rep>>
  PROVE  PrefixFinished(w)' /\ ReportOwes(w)'
<1>1. pc'[w] = label /\ label \notin {"commit", "fetch", "report"}
  BY DEF TypeOK, Holding
<1>2. \A m \in 1 .. pos[w] : Finished(m) => Finished(m)'
  BY PrefixStaysFinished
<1>3. PrefixFinished(w)'
  BY <1>1, <1>2 DEF WorkerInv, PrefixFinished
<1>4. ReportOwes(w)'
  BY <1>1 DEF WorkerInv, ReportOwes
<1>5. QED
  BY <1>3, <1>4

\* A message that gets a terminal disposition is finished and counted.
LEMMA Settled ==
  ASSUME TypeOK, TypeOK', Grows, NEW w \in Workers, WorkerInv(w),
         pc[w] \in Holding \cup {"claim"}, Settle(w, AfterTerminal(w)),
         UNCHANGED <<pos, blocked>>,
         Finished(pos[w])',
         Terminals(rep'[w]) = Terminals(rep[w]) + 1,
         rep'[w].fetched = rep[w].fetched
  PROVE  WorkerInv(w)'
<1>1. pc'[w] = IF blocked[w] THEN "fetch" ELSE "commit"
  BY DEF Settle, Goto, AfterTerminal, TypeOK
<1>2. \A m \in 1 .. pos[w] : Finished(m) => Finished(m)'
  BY PrefixStaysFinished
<1>3. InHand(w)'
  BY <1>1 DEF InHand
<1>4. PrefixFinished(w)'
  BY <1>1, <1>2 DEF WorkerInv, PrefixFinished
<1>5. ReportOwes(w)'
  <2>1. /\ Terminals(rep[w]) \in Nat
        /\ rep[w].fetched \in Nat
    <3>1. rep[w] \in Report
      BY DEF TypeOK
    <3>2. QED
      BY <3>1 DEF Report, Terminals
  <2>2. Terminals(rep[w]) + 1 + (IF blocked[w] THEN 1 ELSE 0) <= rep[w].fetched
    BY <2>1 DEF WorkerInv, ReportOwes
  <2>3. QED
    BY <1>1, <2>1, <2>2 DEF ReportOwes, Holding, TypeOK
<1>6. QED
  BY <1>3, <1>4, <1>5 DEF WorkerInv

\* A run that has ended has nothing to answer for.
LEMMA Ended ==
  ASSUME TypeOK, NEW w \in Workers, EndOfRun(w)
  PROVE  WorkerInv(w)'
<1>1. /\ pc'[w] = "idle" /\ pos'[w] = 0 /\ blocked'[w] = FALSE
      /\ rep'[w] = EmptyReport
  BY DEF EndOfRun, Settle, Goto, TypeOK
<1>2. InHand(w)' /\ PrefixFinished(w)'
  BY <1>1 DEF InHand, PrefixFinished
<1>3. ReportOwes(w)'
  BY <1>1 DEF ReportOwes, EmptyReport, Terminals, Holding
<1>4. QED
  BY <1>2, <1>3 DEF WorkerInv

\* Counting a disposition adds one to the terminal ones and none to the fetched.
LEMMA OneMoreTerminal ==
  ASSUME NEW r \in Report
  PROVE  /\ Terminals(r) \in Nat
         /\ Terminals([r EXCEPT !.emitted = @ + 1]) = Terminals(r) + 1
         /\ Terminals([r EXCEPT !.dropped = @ + 1]) = Terminals(r) + 1
         /\ Terminals([r EXCEPT !.duplicates = @ + 1]) = Terminals(r) + 1
         /\ Terminals([r EXCEPT !.dead_lettered = @ + 1]) = Terminals(r) + 1
         /\ Terminals([r EXCEPT !.fetched = @ + 1]) = Terminals(r)
<1>1. Terminals(r) \in Nat
  BY DEF Report, Terminals
<1>2. Terminals([r EXCEPT !.emitted = @ + 1]) = Terminals(r) + 1
  BY DEF Report, Terminals
<1>3. Terminals([r EXCEPT !.dropped = @ + 1]) = Terminals(r) + 1
  BY DEF Report, Terminals
<1>4. Terminals([r EXCEPT !.duplicates = @ + 1]) = Terminals(r) + 1
  BY DEF Report, Terminals
<1>5. Terminals([r EXCEPT !.dead_lettered = @ + 1]) = Terminals(r) + 1
  BY DEF Report, Terminals
<1>6. Terminals([r EXCEPT !.fetched = @ + 1]) = Terminals(r)
  BY DEF Report, Terminals
<1>7. QED
  BY <1>1, <1>2, <1>3, <1>4, <1>5, <1>6

\* Before try_claim has answered, and while a claim is held, the worker has a message.
LEMMA HasMessage ==
  ASSUME TypeOK, NEW w \in Workers, pc[w] \in Holding \cup {"claim", "commit"}
  PROVE  /\ pos[w] \in Messages
         /\ claims[pos[w]] \in Row
         /\ emits[pos[w]] \in Nat
         /\ rep[w] \in Report
  BY DEF TypeOK

\* The loop of _run_stream keeps the facts about its run.
LEMMA RunLoopKeeps ==
  ASSUME InductiveInv, TypeOK', Grows, NEW w \in Workers, RunLoop(w)
  PROVE  WorkerInv(w)'
<1> USE DEF stores, outputs, locals, history
<1>0. TypeOK /\ WorkerInv(w) /\ rep[w] \in Report
  BY DEF InductiveInv, WorkerInv, TypeOK
<1>1. CASE StartRun(w)
  <2>1. /\ pc'[w] = "fetch" /\ pos'[w] = cursor /\ cursor' = cursor
        /\ blocked' = blocked /\ rep' = rep
    BY <1>0, <1>1 DEF StartRun, Goto, TypeOK
  <2>2. \A m \in 1 .. cursor : Finished(m)'
    <3>1. TAKE m \in 1 .. cursor
    <3>2. m \in Messages /\ Finished(m)
      BY <1>0 DEF InductiveInv, CursorCoversFinished, Finished, TypeOK
    <3>3. QED
      BY <1>0, <3>2, OutcomesAreFinal
  <2>3. InHand(w)' /\ PrefixFinished(w)'
    BY <2>1, <2>2 DEF InHand, PrefixFinished
  <2>4. ReportOwes(w)'
    BY <1>0, <1>1, <2>1 DEF WorkerInv, ReportOwes, StartRun, Holding, TypeOK
  <2>5. QED
    BY <2>3, <2>4 DEF WorkerInv
<1>2. CASE FetchMessage(w)
  <2>1. /\ pc[w] = "fetch" /\ pc'[w] = "claim" /\ pos'[w] = pos[w] + 1 /\ pos[w] \in Nat
        /\ blocked' = blocked /\ rep'[w] = [rep[w] EXCEPT !.fetched = @ + 1]
    BY <1>0, <1>2 DEF FetchMessage, Goto, TypeOK
  <2>2. \A m \in 1 .. pos[w] : Finished(m) => Finished(m)'
    BY <1>0, PrefixStaysFinished
  <2>3. InHand(w)'
    BY <2>1 DEF InHand
  <2>4. PrefixFinished(w)'
    BY <1>0, <2>1, <2>2 DEF WorkerInv, PrefixFinished, Holding
  <2>5. Terminals(rep'[w]) = Terminals(rep[w]) /\ rep'[w].fetched = rep[w].fetched + 1
    BY <1>0, <2>1, OneMoreTerminal DEF Report
  <2>6. ReportOwes(w)'
    <3>1. Terminals(rep[w]) \in Nat /\ rep[w].fetched \in Nat
      BY <1>0, OneMoreTerminal DEF Report
    <3>2. Terminals(rep[w]) + (IF blocked[w] THEN 1 ELSE 0) <= rep[w].fetched
      BY <1>0, <2>1, <3>1 DEF WorkerInv, ReportOwes, Holding
    <3>3. QED
      BY <2>1, <2>5, <3>1, <3>2 DEF ReportOwes
  <2>7. QED
    BY <2>3, <2>4, <2>6 DEF WorkerInv
<1>3. CASE FetchExhausted(w)
  <2>1. /\ pc[w] = "fetch" /\ pc'[w] = "report"
        /\ UNCHANGED <<pos, blocked, rep, cursor>>
    BY <1>0, <1>3 DEF FetchExhausted, Goto, TypeOK
  <2>2. \A m \in 1 .. pos[w] : Finished(m) => Finished(m)'
    BY <1>0, PrefixStaysFinished
  <2>3. InHand(w)' /\ PrefixFinished(w)'
    BY <1>0, <2>1, <2>2 DEF WorkerInv, InHand, PrefixFinished, Holding
  <2>4. ReportOwes(w)'
    BY <1>0, <2>1 DEF WorkerInv, ReportOwes, Holding
  <2>5. QED
    BY <2>3, <2>4 DEF WorkerInv
<1>4. CASE ReturnReport(w)
  BY <1>0, <1>4, Ended DEF ReturnReport
<1>5. CASE Commit(w)
  <2>1. /\ pc[w] = "commit" /\ pc'[w] = "fetch" /\ pos[w] <= cursor'
        /\ UNCHANGED <<pos, blocked, rep>>
    BY <1>0, <1>5 DEF Commit, Goto, TypeOK
  <2>2. \A m \in 1 .. pos[w] : Finished(m) => Finished(m)'
    BY <1>0, PrefixStaysFinished
  <2>3. InHand(w)' /\ PrefixFinished(w)'
    BY <1>0, <2>1, <2>2 DEF WorkerInv, InHand, PrefixFinished, Holding
  <2>4. ReportOwes(w)'
    BY <1>0, <2>1 DEF WorkerInv, ReportOwes, Holding
  <2>5. QED
    BY <2>3, <2>4 DEF WorkerInv
<1>6. QED
  BY <1>1, <1>2, <1>3, <1>4, <1>5 DEF RunLoop

\* The steps that end with a terminal disposition.
LEMMA SettlingKeeps ==
  ASSUME InductiveInv, TypeOK', Grows, NEW w \in Workers,
         Duplicate(w) \/ MarkEmitted(w) \/ MarkDropped(w) \/ DlqMark(w)
  PROVE  WorkerInv(w)'
<1> USE DEF stores, outputs, locals, history
<1>1. TypeOK /\ WorkerInv(w) /\ pc[w] \in Holding \cup {"claim"}
  BY DEF InductiveInv, WorkerInv, Duplicate, MarkEmitted, MarkDropped, DlqMark, Holding
<1>2. pos[w] \in Messages /\ rep[w] \in Report /\ rep \in [Workers -> Report]
  BY <1>1, HasMessage DEF TypeOK
<1>3. /\ Settle(w, AfterTerminal(w))
      /\ UNCHANGED <<pos, blocked>>
  BY DEF Duplicate, MarkEmitted, MarkDropped, DlqMark
<1>4. Disposed(pos[w]) => Finished(pos[w])'
  BY <1>1, <1>2, <1>3, OutcomesAreFinal DEF Finished
<1>5. CASE Duplicate(w)
  <2>1. rep'[w] = [rep[w] EXCEPT !.duplicates = @ + 1]
    BY <1>2, <1>5 DEF Duplicate
  <2>2. Finished(pos[w])'
    <3>1. CASE claims[pos[w]].done
      BY <1>2, <1>4, <3>1 DEF InductiveInv, DoneImpliesDisposed
    <3>2. CASE ~claims[pos[w]].done
      BY <1>3, <1>5, <3>2 DEF Duplicate, Finished
    <3>3. QED
      BY <3>1, <3>2
  <2>3. Terminals(rep'[w]) = Terminals(rep[w]) + 1 /\ rep'[w].fetched = rep[w].fetched
    BY <1>2, <2>1, OneMoreTerminal DEF Report
  <2>4. QED
    BY <1>1, <1>3, <2>2, <2>3, Settled
<1>6. CASE MarkEmitted(w)
  <2>1. rep'[w] = [rep[w] EXCEPT !.emitted = @ + 1]
    BY <1>2, <1>6 DEF MarkEmitted
  <2>2. Finished(pos[w])'
    BY <1>1, <1>4, <1>6 DEF WorkerInv, InHand, MarkEmitted, Disposed
  <2>3. Terminals(rep'[w]) = Terminals(rep[w]) + 1 /\ rep'[w].fetched = rep[w].fetched
    BY <1>2, <2>1, OneMoreTerminal DEF Report
  <2>4. QED
    BY <1>1, <1>3, <2>2, <2>3, Settled
<1>7. CASE MarkDropped(w)
  <2>1. rep'[w] = [rep[w] EXCEPT !.dropped = @ + 1]
    BY <1>2, <1>7 DEF MarkDropped
  <2>2. Finished(pos[w])'
    BY <1>7 DEF MarkDropped, Finished, Disposed
  <2>3. Terminals(rep'[w]) = Terminals(rep[w]) + 1 /\ rep'[w].fetched = rep[w].fetched
    BY <1>2, <2>1, OneMoreTerminal DEF Report
  <2>4. QED
    BY <1>1, <1>3, <2>2, <2>3, Settled
<1>8. CASE DlqMark(w)
  <2>1. rep'[w] = [rep[w] EXCEPT !.dead_lettered = @ + 1]
    BY <1>2, <1>8 DEF DlqMark
  <2>2. Finished(pos[w])'
    BY <1>1, <1>4, <1>8 DEF WorkerInv, InHand, DlqMark, Disposed
  <2>3. Terminals(rep'[w]) = Terminals(rep[w]) + 1 /\ rep'[w].fetched = rep[w].fetched
    BY <1>2, <2>1, OneMoreTerminal DEF Report
  <2>4. QED
    BY <1>1, <1>3, <2>2, <2>3, Settled
<1>9. QED
  BY <1>5, <1>6, <1>7, <1>8

\* The steps that keep the message in hand: what the next call answers for is put out.
LEMMA HoldingKeeps ==
  ASSUME InductiveInv, TypeOK', Grows, NEW w \in Workers,
         \/ Claim(w) \/ RecordAttempt(w) \/ Extract(w) \/ FilterDrop(w) \/ Emit(w)
         \/ WorkRaises(w) \/ Refresh(w) \/ DlqEmit(w) \/ DlqPut(w)
         \/ EmitUnacknowledged(w) \/ MarkRaises(w)
  PROVE  WorkerInv(w)'
<1> USE DEF stores, outputs, locals, history
<1>1. TypeOK /\ WorkerInv(w)
  BY DEF InductiveInv, WorkerInv
<1>2. pc[w] \in Holding \cup {"claim"}
  BY DEF Claim, RecordAttempt, Extract, FilterDrop, Emit, WorkRaises, Refresh, DlqEmit,
     DlqPut, EmitUnacknowledged, MarkRaises, Holding
<1>3. UNCHANGED <<pos, blocked, rep>>
  BY DEF Claim, RecordAttempt, Extract, FilterDrop, Emit, WorkRaises, Refresh, DlqEmit,
     DlqPut, EmitUnacknowledged, MarkRaises
<1>4. pos[w] \in Messages /\ emits[pos[w]] \in Nat /\ pc \in [Workers -> PCs]
  BY <1>1, <1>2, HasMessage DEF TypeOK
\* It is enough to name where the worker goes.
<1>5. ASSUME NEW label \in Holding, pc' = [pc EXCEPT ![w] = label],
             label = "markEmitted" => emits'[pos[w]] > 0,
             label = "dlqPut" => pos[w] \in dlqEvents',
             label = "dlqMark" => DeadLettered(pos[w])'
      PROVE  WorkerInv(w)'
  <2>1. PrefixFinished(w)' /\ ReportOwes(w)'
    BY <1>1, <1>2, <1>3, <1>5, StillHolding
  <2>2. pc'[w] = label
    BY <1>4, <1>5
  <2>3. InHand(w)'
    BY <1>3, <1>5, <2>2 DEF InHand, DeadLettered
  <2>4. QED
    BY <2>1, <2>3 DEF WorkerInv
<1>6. CASE Claim(w)
  BY <1>5, <1>6 DEF Claim, Goto, Holding
<1>7. CASE RecordAttempt(w)
  <2>1. CASE SizeOK(pos[w])
    BY <1>5, <1>7, <2>1 DEF RecordAttempt, Goto, Holding
  <2>2. CASE ~SizeOK(pos[w])
    BY <1>5, <1>7, <2>2 DEF RecordAttempt, Goto, Holding
  <2>3. QED
    BY <2>1, <2>2
<1>8. CASE Extract(w) \/ Refresh(w)
  BY <1>5, <1>8 DEF Extract, Refresh, Goto, Holding
<1>9. CASE FilterDrop(w)
  BY <1>5, <1>9 DEF FilterDrop, Goto, Holding
<1>10. CASE Emit(w)
  <2>1. emits'[pos[w]] > 0
    BY <1>4, <1>10 DEF Emit, TypeOK
  <2>2. QED
    BY <1>5, <1>10, <2>1 DEF Emit, Goto, Holding
<1>11. CASE DlqEmit(w)
  <2>1. pos[w] \in dlqEvents'
    BY <1>11 DEF DlqEmit
  <2>2. CASE HasDlqStore
    BY <1>5, <1>11, <2>1, <2>2 DEF DlqEmit, Goto, Holding
  <2>3. CASE ~HasDlqStore
    BY <1>3, <1>5, <1>11, <2>1, <2>3 DEF DlqEmit, Goto, Holding, DeadLettered
  <2>4. QED
    BY <2>2, <2>3
<1>12. CASE DlqPut(w)
  <2>1. DeadLettered(pos[w])'
    BY <1>1, <1>3, <1>12 DEF DlqPut, WorkerInv, InHand, DeadLettered
  <2>2. QED
    BY <1>5, <1>12, <2>1 DEF DlqPut, Goto, Holding
<1>13. ASSUME NEW e \in Errors, Goto(w, HandlerOf(w, e)) PROVE WorkerInv(w)'
  <2>1. HandlerOf(w, e) \in {"dlqEmit", "refresh", "release"}
    BY DEF HandlerOf, Errors
  <2>2. QED
    BY <1>5, <1>13, <2>1 DEF Goto, Holding
<1>14. CASE WorkRaises(w) \/ EmitUnacknowledged(w) \/ MarkRaises(w)
  BY <1>13, <1>14 DEF WorkRaises, EmitUnacknowledged, MarkRaises, Errors
<1>15. QED
  BY <1>6, <1>7, <1>8, <1>9, <1>10, <1>11, <1>12, <1>14

\* A transient failure blocks the run: from here on the report owes one more.
LEMMA ReleaseKeeps ==
  ASSUME InductiveInv, NEW w \in Workers, Release(w)
  PROVE  WorkerInv(w)'
<1>1. /\ TypeOK /\ WorkerInv(w) /\ pc[w] = "release"
      /\ pc'[w] = "fetch" /\ blocked'[w] = TRUE
      /\ UNCHANGED <<pos, rep>>
  BY DEF InductiveInv, WorkerInv, TypeOK, Release, Settle, Goto, outputs
<1>2. InHand(w)' /\ PrefixFinished(w)'
  BY <1>1 DEF InHand, PrefixFinished
<1>3. Terminals(rep[w]) \in Nat /\ rep[w].fetched \in Nat
  <2>1. rep[w] \in Report
    BY <1>1 DEF TypeOK
  <2>2. QED
    BY <2>1, OneMoreTerminal DEF Report
<1>4. ReportOwes(w)'
  BY <1>1, <1>3 DEF WorkerInv, ReportOwes, Holding
<1>5. QED
  BY <1>2, <1>4 DEF WorkerInv

\* A worker's step moves no other worker.
LEMMA OthersStandStill ==
  ASSUME TypeOK, NEW w \in Workers, NEW v \in Workers, v # w, Step(w) \/ Fault(w)
  PROVE  /\ pc'[v] = pc[v] /\ pos'[v] = pos[v]
         /\ blocked'[v] = blocked[v] /\ rep'[v] = rep[v]
<1> USE DEF TypeOK, stores, outputs, locals, history, Goto, Settle, EndOfRun
<1>1. CASE RunLoop(w)
  BY <1>1 DEF RunLoop, StartRun, FetchMessage, FetchExhausted, ReturnReport, Commit
<1>2. CASE Claim(w) \/ Duplicate(w) \/ RecordAttempt(w) \/ Extract(w) \/ FilterDrop(w)
  BY <1>2 DEF Claim, Duplicate, RecordAttempt, Extract, FilterDrop
<1>3. CASE Emit(w) \/ WorkRaises(w) \/ MarkEmitted(w) \/ MarkDropped(w) \/ Refresh(w)
  BY <1>3 DEF Emit, WorkRaises, MarkEmitted, MarkDropped, Refresh
<1>4. CASE Release(w) \/ DlqEmit(w) \/ DlqPut(w) \/ DlqMark(w)
  BY <1>4 DEF Release, DlqEmit, DlqPut, DlqMark
<1>5. CASE Fault(w)
  BY <1>5 DEF Fault, EmitUnacknowledged, MarkRaises, Raise, Crash
<1>6. QED
  BY <1>1, <1>2, <1>3, <1>4, <1>5 DEF Step, Process

\* Every step, whoever takes it, keeps the facts about a run.
LEMMA WorkersKeep ==
  ASSUME InductiveInv, TypeOK', Grows, [Next]_vars, NEW v \in Workers
  PROVE  WorkerInv(v)'
<1>1. TypeOK /\ WorkerInv(v)
  BY DEF InductiveInv, WorkerInv
<1>2. ASSUME UNCHANGED locals PROVE WorkerInv(v)'
  BY <1>1, <1>2, OtherWorkers DEF locals
<1>3. ASSUME NEW w \in Workers, w # v, Step(w) \/ Fault(w) PROVE WorkerInv(v)'
  BY <1>1, <1>3, OthersStandStill, OtherWorkers
<1>4. ASSUME Step(v) PROVE WorkerInv(v)'
  BY <1>4, RunLoopKeeps, SettlingKeeps, HoldingKeeps, ReleaseKeeps DEF Step, Process
<1>5. ASSUME Fault(v) PROVE WorkerInv(v)'
  <2>1. CASE Raise(v) \/ Crash(v)
    BY <1>1, <2>1, Ended DEF Raise, Crash
  <2>2. QED
    BY <1>5, <2>1, HoldingKeeps DEF Fault
<1>6. ASSUME NEW m \in Messages, LeaseElapses(m) \/ Purge(m) PROVE UNCHANGED locals
  BY <1>6 DEF LeaseElapses, Purge
<1>7. QED
  BY <1>2, <1>3, <1>4, <1>5, <1>6 DEF Next, vars

----------------------------------------------------------------------------
(* The inductive invariant and what follows from it.                       *)

\* The inductive invariant holds at the start.
LEMMA InductiveInit == Init => InductiveInv
<1> SUFFICES ASSUME Init PROVE InductiveInv
  OBVIOUS
<1>1. TypeOK
  BY TypeInit
<1>2. DoneImpliesDisposed /\ CursorCoversFinished
  BY DEF Init, DoneImpliesDisposed, CursorCoversFinished, NoRow
<1>3. ASSUME NEW w \in Workers PROVE InHand(w) /\ PrefixFinished(w) /\ ReportOwes(w)
  BY DEF Init, InHand, PrefixFinished, ReportOwes, EmptyReport, Terminals, Holding
<1>4. QED
  BY <1>1, <1>2, <1>3 DEF InductiveInv

\* Every step keeps the inductive invariant.
LEMMA InductiveNext == InductiveInv /\ [Next]_vars => InductiveInv'
<1> SUFFICES ASSUME InductiveInv, [Next]_vars PROVE InductiveInv'
  OBVIOUS
<1>1. TypeOK /\ TypeOK' /\ Grows
  BY TypeNext, NothingIsTakenBack DEF InductiveInv
<1>2. DoneImpliesDisposed'
  <2>1. ASSUME NEW m \in Messages, claims'[m].done PROVE Disposed(m)'
    BY <1>1, <2>1, DoneStep, OutcomesAreFinal
  <2>2. QED
    BY <2>1 DEF DoneImpliesDisposed
<1>3. CursorCoversFinished'
  <2>1. ASSUME NEW m \in 1 .. cursor' PROVE Finished(m)'
    <3>1. m \in Messages
      BY <1>1 DEF TypeOK
    <3>2. QED
      BY <1>1, <3>1, CursorStep, OutcomesAreFinal
  <2>2. QED
    BY <2>1 DEF CursorCoversFinished, Finished
<1>4. ASSUME NEW w \in Workers PROVE (InHand(w) /\ PrefixFinished(w) /\ ReportOwes(w))'
  BY <1>1, WorkersKeep DEF WorkerInv
<1>5. QED
  BY <1>1, <1>2, <1>3, <1>4 DEF InductiveInv

\* The inductive invariant holds throughout.
LEMMA Inductive == Spec => []InductiveInv
  BY InductiveInit, InductiveNext, PTL DEF Spec

\* mark_done never runs ahead of the outcome it records, whatever crashes, exceptions,
\* lease expiries and other workers come between.
THEOREM DoneIsDisposed == Spec => []DoneImpliesDisposed
<1>1. InductiveInv => DoneImpliesDisposed
  BY DEF InductiveInv
<1>2. QED
  BY <1>1, Inductive, PTL

\* The cursor passes an unfinished message only through a `duplicate` verdict.
THEOREM CursorIsCovered == Spec => []CursorCoversFinished
<1>1. InductiveInv => CursorCoversFinished
  BY DEF InductiveInv
<1>2. QED
  BY <1>1, Inductive, PTL

\* A report that says all_terminal comes from a run whose fetches the cursor covers.
THEOREM AllTerminalIsSound == Spec => []AllTerminalSound
<1>1. InductiveInv => AllTerminalSound
  <2> SUFFICES ASSUME InductiveInv, NEW w \in Workers, pc[w] = "report",
                      AllTerminal(rep[w])
               PROVE  pos[w] <= cursor
    BY DEF AllTerminalSound
  <2>1. Terminals(rep[w]) \in Nat /\ rep[w].fetched \in Nat
    <3>1. rep[w] \in Report
      BY DEF InductiveInv, TypeOK
    <3>2. QED
      BY <3>1, OneMoreTerminal DEF Report
  <2>2. ~blocked[w]
    BY <2>1 DEF InductiveInv, ReportOwes, AllTerminal, Holding
  <2>3. QED
    BY <2>2 DEF InductiveInv, ReportOwes
<1>2. QED
  BY <1>1, Inductive, PTL

HIDE PipelineAssumption DEF Messages

----------------------------------------------------------------------------
(* A claim is held by one worker at a time.                                *)

\* m's row says what it said about being claimed.
SameClaim(m) ==
  /\ claims'[m].claimed = claims[m].claimed
  /\ claims'[m].done = claims[m].done
  /\ claims'[m].fresh = claims[m].fresh

\* Only w moves, and if it lets go of its message, the row may be anything.
OnlyHolds(w) ==
  /\ \A v \in Workers \ {w} :
       pc'[v] = pc[v] /\ pos'[v] = pos[v] /\ leaseLive'[v] = leaseLive[v]
  /\ pc'[w] \in Holding => pc[w] \in Holding /\ pos'[w] = pos[w]
  /\ leaseLive'[w] => pc'[w] \in Holding
  /\ \A m \in Messages :
       SameClaim(m) \/ (m = pos[w] /\ pc[w] \in Holding /\ pc'[w] \notin Holding)

LEMMA OnlyHoldsKeeps ==
  ASSUME TypeOK, ClaimsInv, NEW w \in Workers, OnlyHolds(w)
  PROVE  ClaimsInv'
<1> SUFFICES ASSUME NEW v \in Workers PROVE HoldsAlone(v)'
  BY DEF ClaimsInv
<1>1. HoldsAlone(v) /\ HoldsAlone(w)
  BY DEF ClaimsInv
<1>2. leaseLive'[v] => pc'[v] \in Holding
  BY <1>1 DEF HoldsAlone, OnlyHolds
<1>3. ASSUME pc'[v] \in Holding
      PROVE  /\ claims'[pos'[v]].claimed /\ ~claims'[pos'[v]].done
             /\ HasLease => claims'[pos'[v]].fresh
  <2>1. pc[v] \in Holding /\ pos'[v] = pos[v]
    BY <1>3 DEF OnlyHolds
  <2>2. pos[v] \in Messages
    BY <2>1 DEF TypeOK
  <2>3. SameClaim(pos[v])
    BY <1>1, <1>3, <2>1, <2>2 DEF OnlyHolds, HoldsAlone
  <2>4. QED
    BY <1>1, <2>1, <2>3 DEF HoldsAlone, SameClaim
<1>4. ASSUME pc'[v] \in Holding, NEW u \in Workers \ {v}, pc'[u] \in Holding
      PROVE  pos'[u] # pos'[v]
  <2>1. pc[v] \in Holding /\ pos'[v] = pos[v] /\ pc[u] \in Holding /\ pos'[u] = pos[u]
    BY <1>4 DEF OnlyHolds
  <2>2. QED
    BY <1>1, <2>1 DEF HoldsAlone
<1>5. QED
  BY <1>2, <1>3, <1>4 DEF HoldsAlone

\* The steps of a worker that holds its message, or takes none.
LEMMA HoldersStep ==
  ASSUME TypeOK, ClaimsInv, NEW w \in Workers, Step(w) \/ Fault(w), ~Claim(w)
  PROVE  OnlyHolds(w)
<1> USE DEF TypeOK, stores, outputs, locals, history, Goto, Settle, EndOfRun, OnlyHolds,
            SameClaim
<1>0. leaseLive[w] => pc[w] \in Holding
  BY DEF ClaimsInv, HoldsAlone
<1>1. CASE RunLoop(w)
  BY <1>0, <1>1 DEF RunLoop, StartRun, FetchMessage, FetchExhausted, ReturnReport, Commit,
     Holding
<1>2. CASE Duplicate(w) 
  BY <1>2 DEF Duplicate, AfterTerminal, Holding
<1>3. CASE RecordAttempt(w)
  <2>1. pos[w] \in Messages /\ claims[pos[w]] \in Row
    BY <1>3, HasMessage DEF RecordAttempt, Holding
  <2>2. claims' = [claims EXCEPT ![pos[w]] = [claims[pos[w]] EXCEPT !.attempts = @ + 1]]
    BY <1>3 DEF RecordAttempt, SetClaim, Attempted
  <2>3. \A m \in Messages : SameClaim(m)
    BY <2>1, <2>2 DEF Row
  <2>4. QED
    BY <1>3, <2>3 DEF RecordAttempt, Holding
<1>4. CASE Extract(w) \/ FilterDrop(w) \/ Emit(w) \/ Refresh(w) \/ DlqEmit(w) \/ DlqPut(w)
  BY <1>4 DEF Extract, FilterDrop, Emit, Refresh, DlqEmit, DlqPut, Holding
<1>5. CASE MarkEmitted(w) \/ MarkDropped(w) \/ Release(w) \/ DlqMark(w)
  <2>1. pos[w] \in Messages /\ pc[w] \in Holding
    BY <1>5, HasMessage DEF MarkEmitted, MarkDropped, Release, DlqMark, Holding
  <2>2. PICK row : claims' = [claims EXCEPT ![pos[w]] = row]
    BY <1>5 DEF MarkEmitted, MarkDropped, Release, DlqMark, SetClaim
  <2>3. \A m \in Messages : m # pos[w] => claims'[m] = claims[m]
    BY <2>2
  <2>4. pc'[w] \notin Holding /\ pc' = [pc EXCEPT ![w] = pc'[w]]
    BY <1>5 DEF MarkEmitted, MarkDropped, Release, DlqMark, AfterTerminal, Holding
  <2>5. leaseLive' = [leaseLive EXCEPT ![w] = FALSE] /\ pos' = pos
    BY <1>5 DEF MarkEmitted, MarkDropped, Release, DlqMark
  <2>6. QED
    BY <2>1, <2>3, <2>4, <2>5
<1>6. CASE WorkRaises(w) \/ EmitUnacknowledged(w) \/ MarkRaises(w)
  <2>1. PICK label \in Holding : pc' = [pc EXCEPT ![w] = label]
    BY <1>6, HandlerType DEF WorkRaises, EmitUnacknowledged, MarkRaises, Errors
  <2>2. pc[w] \in Holding /\ UNCHANGED <<claims, pos, leaseLive>>
    BY <1>6 DEF WorkRaises, EmitUnacknowledged, MarkRaises, Holding
  <2>3. QED
    BY <2>1, <2>2
<1>7. CASE Raise(w) \/ Crash(w)
  BY <1>7 DEF Raise, Crash, Holding
<1>8. QED
  BY <1>1, <1>2, <1>3, <1>4, <1>5, <1>6, <1>7 DEF Step, Process, Fault

\* try_claim succeeds only on a row that nobody holds.
LEMMA ClaimStep ==
  ASSUME TypeOK, ClaimsInv, NEW w \in Workers, Claim(w)
  PROVE  ClaimsInv'
<1> DEFINE m == pos[w]
<1>1. m \in Messages /\ claims[m] \in Row
  BY HasMessage DEF Claim
<1>2. claims' = [claims EXCEPT ![m] = [claims[m] EXCEPT !.claimed = TRUE, !.fresh = TRUE]]
  BY DEF Claim, SetClaim, Claimed
<1>3. /\ ~claims[m].done
      /\ ~claims[m].claimed \/ (HasLease /\ ~claims[m].fresh)
  BY DEF Claim, Claimable, ClaimableLeased, ClaimableUntimed
<1>4. \A v \in Workers : pc[v] \in Holding => pos[v] # m
  BY <1>3 DEF ClaimsInv, HoldsAlone
<1>5. /\ pc' = [pc EXCEPT ![w] = "attempt"] /\ pos' = pos
      /\ leaseLive' = [leaseLive EXCEPT ![w] = TRUE]
  BY DEF Claim, Goto
<1>6. /\ claims'[m].claimed /\ ~claims'[m].done /\ claims'[m].fresh
      /\ \A n \in Messages \ {m} : claims'[n] = claims[n]
  BY <1>1, <1>2, <1>3 DEF TypeOK, Row
<1>7. ASSUME NEW v \in Workers PROVE HoldsAlone(v)'
  <2>1. CASE v = w
    BY <1>4, <1>5, <1>6, <2>1 DEF HoldsAlone, TypeOK, Holding
  <2>2. CASE v # w
    <3>1. /\ HoldsAlone(v) /\ pc'[v] = pc[v] /\ leaseLive'[v] = leaseLive[v]
      BY <1>5, <2>2 DEF ClaimsInv, TypeOK
    <3>2. ASSUME pc[v] \in Holding PROVE pos[v] \in Messages \ {m}
      BY <1>4, <3>2 DEF TypeOK
    <3>3. \A u \in Workers \ {w} : pc'[u] = pc[u]
      BY <1>5 DEF TypeOK
    <3>4. QED
      BY <1>5, <1>6, <3>1, <3>2, <3>3 DEF HoldsAlone
  <2>3. QED
    BY <2>1, <2>2
<1>8. QED
  BY <1>7 DEF ClaimsInv

\* A lease ends only for a message that nobody holds; a done row has no holder.
LEMMA ClaimsOverTime ==
  ASSUME TypeOK, ClaimsInv, HasLease => LeaseOutlastsWork,
         NEW m \in Messages, LeaseElapses(m) \/ Purge(m)
  PROVE  ClaimsInv'
<1>1. /\ \A w \in Workers : pc[w] \in Holding => pos[w] # m
      /\ \A n \in Messages \ {m} : claims'[n] = claims[n]
      /\ pc' = pc /\ pos' = pos
      /\ \A w \in Workers : leaseLive'[w] => leaseLive[w]
  <2>1. CASE LeaseElapses(m)
    BY <2>1 DEF LeaseElapses, locals, TypeOK
  <2>2. CASE Purge(m)
    BY <2>2 DEF Purge, Purgeable, ClaimsInv, HoldsAlone, locals, TypeOK
  <2>3. QED
    BY <2>1, <2>2
<1>2. \A w \in Workers : pc[w] \in Holding => pos[w] \in Messages \ {m}
  BY <1>1 DEF TypeOK
<1>3. QED
  BY <1>1, <1>2 DEF ClaimsInv, HoldsAlone

\* No step lets two workers hold a message, if no lease ends under its holder.
LEMMA ClaimsNext ==
  ASSUME HasLease => LeaseOutlastsWork
  PROVE  TypeOK /\ ClaimsInv /\ [Next]_vars => ClaimsInv'
<1> SUFFICES ASSUME TypeOK, ClaimsInv, [Next]_vars PROVE ClaimsInv'
  OBVIOUS
<1>1. CASE UNCHANGED vars
  BY <1>1 DEF vars, stores, locals, history, ClaimsInv, HoldsAlone
<1>2. CASE Next
  BY <1>2, OnlyHoldsKeeps, HoldersStep, ClaimStep, ClaimsOverTime DEF Next
<1>3. QED
  BY <1>1, <1>2

LEMMA ClaimsInit == Init => ClaimsInv
  BY DEF Init, ClaimsInv, HoldsAlone, Holding

LEMMA ClaimsHeldAlone ==
  ASSUME HasLease => LeaseOutlastsWork
  PROVE  Spec => []ClaimsInv
  BY TypeCorrect, ClaimsInit, ClaimsNext, PTL DEF Spec

\* Within its lease a worker is the only one at its message, if no worker outlives its
\* lease, or the store has none.  (The store without leases is the in-memory one, whose
\* try_claim is one step for one thread only; see Look and Set of Facade for several.)
THEOREM ClaimIsExclusive ==
  ASSUME HasLease => LeaseOutlastsWork
  PROVE  Spec => []ClaimExclusive
<1>1. ClaimsInv => ClaimExclusive
  BY DEF ClaimsInv, HoldsAlone, ClaimExclusive
<1>2. QED
  BY <1>1, ClaimsHeldAlone, PTL

----------------------------------------------------------------------------
(* Attempts are bounded.                                                   *)

Counted == Holding \ {"attempt"}

\* No attempt is counted, nobody but w moves, and w goes on with its message, settles it,
\* or leaves it below the limit.
CountStands(w) ==
  /\ attempted' = attempted
  /\ faults <= faults'
  /\ \A m \in Messages : /\ claims'[m].attempts = claims[m].attempts
                         /\ claims[m].done => claims'[m].done
  /\ \A v \in Workers \ {w} : pc'[v] = pc[v] /\ pos'[v] = pos[v] /\ tries'[v] = tries[v]
  /\ pc[w] \in Counted =>
       \/ pc'[w] \in Counted /\ pos'[w] = pos[w]
       \/ claims'[pos[w]].done
       \/ attempted[pos[w]] < MaxAttempts + faults'

LEMMA CountStandsKeeps ==
  ASSUME TypeOK, TypeOK', RetriesInv, NEW w \in Workers, CountStands(w), KnowsCount(w)'
  PROVE  RetriesInv'
<1>1. ASSUME NEW v \in Workers \ {w} PROVE KnowsCount(v)'
  <2>1. KnowsCount(v) /\ pc'[v] = pc[v] /\ pos'[v] = pos[v] /\ tries'[v] = tries[v]
    BY DEF RetriesInv, CountStands
  <2>2. pc[v] \in Holding => pos[v] \in Messages
    BY DEF TypeOK
  <2>3. pc[v] \in Holding => claims'[pos[v]].attempts = claims[pos[v]].attempts
    BY <2>2 DEF CountStands
  <2>4. QED
    BY <2>1, <2>3 DEF KnowsCount, Holding
<1>2. ASSUME NEW m \in Messages PROVE Budgeted(m)'
  <2>1. /\ Budgeted(m) /\ attempted'[m] = attempted[m] /\ attempted[m] \in Nat
        /\ faults \in Nat /\ faults' \in Nat /\ faults <= faults'
    BY DEF RetriesInv, CountStands, TypeOK
  <2>2. ASSUME UnderWay(m)
        PROVE  claims'[m].done \/ UnderWay(m)' \/ attempted[m] < MaxAttempts + faults'
    <3>1. PICK v \in Workers : pos[v] = m /\ pc[v] \in Counted
      BY <2>2 DEF UnderWay, Counted
    <3>2. CASE v = w
      BY <3>1, <3>2 DEF CountStands, UnderWay, Counted
    <3>3. CASE v # w
      BY <3>1, <3>3 DEF CountStands, UnderWay, Counted
    <3>4. QED
      BY <3>2, <3>3
  <2>3. attempted[m] < MaxAttempts + faults => attempted[m] < MaxAttempts + faults'
    BY PipelineAssumption, <2>1
  <2>4. claims'[m].done \/ UnderWay(m)' \/ attempted[m] < MaxAttempts + faults'
    BY <2>1, <2>2, <2>3 DEF Budgeted, CountStands
  <2>5. attempted[m] <= MaxAttempts + faults'
    BY PipelineAssumption, <2>1 DEF Budgeted
  <2>6. claims'[m].attempts = attempted'[m]
    BY <2>1 DEF Budgeted, CountStands
  <2>7. QED
    BY <2>1, <2>4, <2>5, <2>6 DEF Budgeted
<1>3. QED
  BY <1>1, <1>2 DEF RetriesInv

\* The run loop and a refused claim count nothing and hold nothing.
LEMMA LoopCounts ==
  ASSUME TypeOK, RetriesInv, NEW w \in Workers, RunLoop(w) \/ Duplicate(w)
  PROVE  CountStands(w) /\ KnowsCount(w)'
<1> USE DEF TypeOK, stores, outputs, locals, history, Goto, Settle, EndOfRun, CountStands,
            KnowsCount, Counted, Holding
<1>1. CASE StartRun(w) \/ FetchMessage(w) \/ FetchExhausted(w)
  BY <1>1 DEF StartRun, FetchMessage, FetchExhausted
<1>2. CASE ReturnReport(w) \/ Commit(w)
  BY <1>2 DEF ReturnReport, Commit
<1>3. CASE Duplicate(w)
  BY <1>3 DEF Duplicate, AfterTerminal
<1>4. QED
  BY <1>1, <1>2, <1>3 DEF RunLoop

\* Claiming, and the steps from one call to the next, change no count.
LEMMA WorkCounts ==
  ASSUME TypeOK, RetriesInv, NEW w \in Workers,
         \/ Claim(w) \/ Extract(w) \/ FilterDrop(w) \/ Emit(w) \/ Refresh(w)
         \/ DlqEmit(w) \/ DlqPut(w)
  PROVE  CountStands(w) /\ KnowsCount(w)'
<1> USE DEF TypeOK, stores, outputs, locals, history, Goto, CountStands, KnowsCount,
            Counted, Holding
<1>0. KnowsCount(w)
  BY DEF RetriesInv
<1>1. CASE Claim(w)
  <2>1. pos[w] \in Messages /\ claims[pos[w]] \in Row
    BY <1>1, HasMessage DEF Claim
  <2>2. claims' = [claims EXCEPT ![pos[w]] = Claimed(claims[pos[w]])]
    BY <1>1 DEF Claim, SetClaim
  <2>3. \A m \in Messages : /\ claims'[m].attempts = claims[m].attempts
                            /\ claims[m].done => claims'[m].done
    BY <2>1, <2>2 DEF Claimed, Row
  <2>4. QED
    BY <1>1, <2>3 DEF Claim
<1>2. CASE Extract(w) \/ FilterDrop(w) \/ Emit(w)
  BY <1>0, <1>2 DEF Extract, FilterDrop, Emit
<1>3. CASE Refresh(w) \/ DlqEmit(w) \/ DlqPut(w)
  BY <1>0, <1>3 DEF Refresh, DlqEmit, DlqPut
<1>4. QED
  BY <1>1, <1>2, <1>3

\* A failure is released only below the limit.
LEMMA FailureCounts ==
  ASSUME TypeOK, RetriesInv, NEW w \in Workers,
         WorkRaises(w) \/ EmitUnacknowledged(w) \/ MarkRaises(w)
  PROVE  CountStands(w) /\ KnowsCount(w)'
<1> USE DEF stores, outputs, locals, history
<1>1. PICK e \in Errors : pc' = [pc EXCEPT ![w] = HandlerOf(w, e)]
  BY DEF WorkRaises, EmitUnacknowledged, MarkRaises, Goto, Errors
<1>2. HandlerOf(w, e) \in {"dlqEmit", "refresh", "release"}
  BY DEF HandlerOf, Errors
<1>3. HandlerOf(w, e) = "release" => tries[w] < MaxAttempts
  BY PipelineAssumption DEF HandlerOf, Errors, TypeOK
<1>4. /\ UNCHANGED <<claims, pos, tries, attempted>>
      /\ faults <= faults'
      /\ pc[w] \in Counted
  BY DEF WorkRaises, EmitUnacknowledged, MarkRaises, Counted, Holding, TypeOK
<1>5. KnowsCount(w)
  BY DEF RetriesInv
<1>6. pc'[w] = HandlerOf(w, e) /\ \A v \in Workers \ {w} : pc'[v] = pc[v]
  BY <1>1 DEF TypeOK
<1>7. CountStands(w)
  BY <1>2, <1>4, <1>6 DEF CountStands, Counted, Holding
<1>8. KnowsCount(w)'
  BY <1>2, <1>3, <1>4, <1>5, <1>6 DEF KnowsCount, Counted, Holding
<1>9. QED
  BY <1>7, <1>8

\* A settled message is done; a released one is below the limit; a fault is paid for.
LEMMA EndingCounts ==
  ASSUME TypeOK, RetriesInv, NEW w \in Workers,
         \/ MarkEmitted(w) \/ MarkDropped(w) \/ DlqMark(w) \/ Release(w)
         \/ Raise(w) \/ Crash(w)
  PROVE  CountStands(w) /\ KnowsCount(w)'
<1> USE DEF stores, outputs, locals, history
<1>0. KnowsCount(w)
  BY DEF RetriesInv
<1>1. CASE MarkEmitted(w) \/ MarkDropped(w) \/ DlqMark(w) \/ Release(w)
  <2>1. pos[w] \in Messages /\ claims[pos[w]] \in Row /\ pc[w] \in Counted
    BY <1>1, HasMessage
       DEF MarkEmitted, MarkDropped, DlqMark, Release, Holding, Counted
  <2>2. /\ attempted' = attempted /\ faults' = faults /\ pos' = pos
        /\ tries' = [tries EXCEPT ![w] = 0]
        /\ pc' = [pc EXCEPT ![w] = pc'[w]] /\ pc'[w] \in {"fetch", "commit"}
    BY <1>1
       DEF MarkEmitted, MarkDropped, DlqMark, Release, Settle, Goto, AfterTerminal, TypeOK
  <2>3. CASE Release(w)
    <3>1. claims' = [claims EXCEPT ![pos[w]] = Released(claims[pos[w]])]
      BY <2>3 DEF Release, SetClaim
    <3>2. \A m \in Messages : /\ claims'[m].attempts = claims[m].attempts
                              /\ claims[m].done => claims'[m].done
      BY <2>1, <3>1 DEF Released, Row, TypeOK
    <3>3. attempted[pos[w]] < MaxAttempts + faults'
      <4>1. tries[w] < MaxAttempts /\ tries[w] = claims[pos[w]].attempts
        BY <1>0, <2>3 DEF KnowsCount, Release, Holding
      <4>2. attempted[pos[w]] = tries[w]
        BY <2>1, <4>1 DEF RetriesInv, Budgeted
      <4>3. QED
        BY PipelineAssumption, <2>2, <4>1, <4>2 DEF TypeOK
    <3>4. QED
      BY <2>2, <3>2, <3>3 DEF CountStands, KnowsCount, Holding, TypeOK
  <2>4. CASE MarkEmitted(w) \/ MarkDropped(w) \/ DlqMark(w)
    <3>1. claims' = [claims EXCEPT ![pos[w]] = MarkedDone(claims[pos[w]])]
      BY <2>4 DEF MarkEmitted, MarkDropped, DlqMark, SetClaim
    <3>2. /\ claims'[pos[w]].done
          /\ \A m \in Messages : /\ claims'[m].attempts = claims[m].attempts
                                 /\ claims[m].done => claims'[m].done
      BY <2>1, <3>1 DEF MarkedDone, Row, TypeOK
    <3>3. QED
      BY <2>2, <3>2 DEF CountStands, KnowsCount, Holding, TypeOK
  <2>5. QED
    BY <1>1, <2>3, <2>4
<1>2. CASE Raise(w) \/ Crash(w)
  <2>1. /\ attempted' = attempted /\ faults' = faults + 1 /\ claims' = claims
        /\ \A v \in Workers \ {w} : pc'[v] = pc[v] /\ pos'[v] = pos[v] /\ tries'[v] = tries[v]
        /\ pc'[w] = "idle"
    BY <1>2 DEF Raise, Crash, EndOfRun, Settle, Goto, TypeOK
  <2>2. pc[w] \in Counted => attempted[pos[w]] < MaxAttempts + faults'
    <3>1. SUFFICES ASSUME pc[w] \in Counted
                   PROVE  attempted[pos[w]] < MaxAttempts + faults'
      OBVIOUS
    <3>2. pos[w] \in Messages
      BY <3>1, HasMessage DEF Counted
    <3>3. attempted[pos[w]] \in Nat /\ attempted[pos[w]] <= MaxAttempts + faults
      BY <3>2 DEF RetriesInv, Budgeted, TypeOK
    <3>4. QED
      BY PipelineAssumption, <2>1, <3>3 DEF TypeOK
  <2>3. QED
    BY <2>1, <2>2 DEF CountStands, KnowsCount, Holding, TypeOK
<1>3. QED
  BY <1>1, <1>2

\* An attempt is counted only at a message that nobody else works on, below the limit.
LEMMA AttemptKeeps ==
  ASSUME TypeOK, TypeOK', ClaimsInv, RetriesInv, NEW w \in Workers, RecordAttempt(w)
  PROVE  RetriesInv'
<1> DEFINE m == pos[w]
<1> USE DEF outputs
<1>1. m \in Messages /\ claims[m] \in Row /\ pc[w] \in Holding /\ pc[w] = "attempt"
  BY HasMessage DEF RecordAttempt, Holding
<1>2. /\ claims' = [claims EXCEPT ![m] = [claims[m] EXCEPT !.attempts = @ + 1]]
      /\ tries' = [tries EXCEPT ![w] = claims[m].attempts + 1]
  BY <1>1 DEF RecordAttempt, SetClaim, Attempted, Row
<1>3. /\ claims'[m].attempts = claims[m].attempts + 1
      /\ claims'[m].done = claims[m].done
      /\ \A n \in Messages \ {m} : claims'[n] = claims[n]
  BY <1>1, <1>2 DEF TypeOK, Row
<1>4. /\ attempted'[m] = attempted[m] + 1
      /\ \A n \in Messages \ {m} : attempted'[n] = attempted[n]
      /\ faults' = faults /\ pos' = pos
      /\ pc'[w] \in {"work", "dlqEmit"} /\ \A v \in Workers \ {w} : pc'[v] = pc[v]
  BY <1>1 DEF RecordAttempt, Goto, TypeOK, history
<1>5. ~claims[m].done /\ \A v \in Workers \ {w} : pc[v] \in Holding => pos[v] # m
  BY <1>1 DEF ClaimsInv, HoldsAlone
<1>6. ~UnderWay(m)
  BY <1>1, <1>5 DEF UnderWay
<1>7. KnowsCount(w)'
  BY <1>2, <1>3, <1>4 DEF KnowsCount, TypeOK
<1>8. ASSUME NEW v \in Workers \ {w} PROVE KnowsCount(v)'
  <2>1. KnowsCount(v) /\ pc'[v] = pc[v] /\ pos'[v] = pos[v] /\ tries'[v] = tries[v]
    BY <1>2, <1>4 DEF RetriesInv, TypeOK
  <2>2. pc[v] \in Holding => pos[v] \in Messages \ {m}
    BY <1>5 DEF TypeOK
  <2>3. QED
    BY <1>3, <2>1, <2>2 DEF KnowsCount, Holding
<1>9. ASSUME NEW n \in Messages, n = m PROVE Budgeted(n)'
  <2>1. attempted[n] < MaxAttempts + faults /\ claims[n].attempts = attempted[n]
    BY <1>1, <1>5, <1>6, <1>9 DEF RetriesInv, Budgeted
  <2>2. attempted[n] \in Nat /\ faults \in Nat
    BY DEF TypeOK
  <2>3. UnderWay(n)'
    BY <1>4, <1>9 DEF UnderWay, Holding
  <2>4. QED
    BY PipelineAssumption, <1>3, <1>4, <1>9, <2>1, <2>2, <2>3 DEF Budgeted
<1>10. ASSUME NEW n \in Messages \ {m} PROVE Budgeted(n)'
  <2>1. UnderWay(n) => UnderWay(n)'
    BY <1>4 DEF UnderWay
  <2>2. QED
    BY <1>3, <1>4, <2>1 DEF RetriesInv, Budgeted
<1>11. \A v \in Workers : KnowsCount(v)'
  BY <1>7, <1>8
<1>12. \A n \in Messages : Budgeted(n)'
  BY <1>9, <1>10
<1>13. QED
  BY <1>11, <1>12 DEF RetriesInv

\* Time that passes counts no attempt.
LEMMA TimeCounts ==
  ASSUME TypeOK, RetriesInv, NEW m \in Messages, LeaseElapses(m)
  PROVE  RetriesInv'
<1> USE DEF locals
<1>1. claims[m] \in Row /\ claims' = [claims EXCEPT ![m] = [claims[m] EXCEPT !.fresh = FALSE]]
  BY DEF LeaseElapses, TypeOK
<1>2. \A n \in Messages : claims'[n].attempts = claims[n].attempts
                          /\ claims'[n].done = claims[n].done
  BY <1>1 DEF TypeOK, Row
<1>3. UNCHANGED <<pc, pos, tries, attempted, faults>>
  BY DEF LeaseElapses
<1>4. ASSUME NEW w \in Workers PROVE KnowsCount(w)'
  <2>1. pc[w] \in Holding => pos[w] \in Messages
    BY DEF TypeOK
  <2>2. QED
    BY <1>2, <1>3, <2>1 DEF RetriesInv, KnowsCount
<1>5. ASSUME NEW n \in Messages PROVE Budgeted(n)'
  BY <1>2, <1>3 DEF RetriesInv, Budgeted, UnderWay
<1>6. QED
  BY <1>4, <1>5 DEF RetriesInv

\* Every step keeps the retries bounded, if no row is ever purged.
LEMMA RetriesNext ==
  ASSUME MaxPurges = 0
  PROVE  TypeOK /\ TypeOK' /\ ClaimsInv /\ RetriesInv /\ [Next]_vars => RetriesInv'
<1> SUFFICES ASSUME TypeOK, TypeOK', ClaimsInv, RetriesInv, [Next]_vars PROVE RetriesInv'
  OBVIOUS
<1>1. CASE UNCHANGED vars
  BY <1>1 DEF vars, stores, locals, history, RetriesInv, KnowsCount, Budgeted, UnderWay
<1>2. ASSUME NEW w \in Workers, Step(w) \/ Fault(w) PROVE RetriesInv'
  <2>1. CASE RecordAttempt(w)
    BY <2>1, AttemptKeeps
  <2>2. CASE ~RecordAttempt(w)
    <3>1. CountStands(w) /\ KnowsCount(w)'
      BY <1>2, <2>2, LoopCounts, WorkCounts, FailureCounts, EndingCounts
         DEF Step, Process, Fault
    <3>2. QED
      BY <3>1, CountStandsKeeps
  <2>3. QED
    BY <2>1, <2>2
<1>3. ASSUME NEW m \in Messages PROVE ~Purge(m)
  BY DEF Purge, TypeOK
<1>4. QED
  BY <1>1, <1>2, <1>3, TimeCounts DEF Next

LEMMA RetriesInit == MaxAttempts > 0 /\ Init => RetriesInv
<1> SUFFICES ASSUME MaxAttempts > 0, Init PROVE RetriesInv
  OBVIOUS
<1>1. ASSUME NEW w \in Workers PROVE KnowsCount(w)
  BY DEF Init, KnowsCount, Holding
<1>2. ASSUME NEW m \in Messages PROVE Budgeted(m)
  BY PipelineAssumption DEF Init, Budgeted, NoRow
<1>3. QED
  BY <1>1, <1>2 DEF RetriesInv

\* A message is attempted at most max_attempts times, and once more for each crash or
\* exception that interrupted an attempt: for at least one attempt, rows that are kept,
\* and workers that do not outlive their lease.
THEOREM RetriesAreBounded ==
  ASSUME HasLease => LeaseOutlastsWork, MaxPurges = 0, MaxAttempts > 0
  PROVE  Spec => []RetriesBounded
<1>1. RetriesInv => RetriesBounded
  BY DEF RetriesInv, Budgeted, RetriesBounded
<1>2. Init => RetriesInv
  BY RetriesInit
<1>3. TypeOK /\ TypeOK' /\ ClaimsInv /\ RetriesInv /\ [Next]_vars => RetriesInv'
  BY RetriesNext
<1>4. QED
  BY <1>1, <1>2, <1>3, TypeCorrect, ClaimsHeldAlone, PTL DEF Spec

----------------------------------------------------------------------------
(* Outcomes are paid for.                                                  *)

\* The calls between an outcome and its mark_done.
Recording == {"markEmitted", "dlqPut", "dlqMark"}

SameOutcomes(m) ==
  /\ emits'[m] = emits[m]
  /\ m \in dropped' <=> m \in dropped
  /\ m \in dlqEvents' <=> m \in dlqEvents

\* Only w moves, and only w's message may get an outcome.
OutcomesStand(w) ==
  /\ faults <= faults'
  /\ \A v \in Workers \ {w} : pc'[v] = pc[v] /\ pos'[v] = pos[v]
  /\ \A m \in Messages : claims[m].done => claims'[m].done
  /\ \A m \in Messages \ {pos[w]} : SameOutcomes(m)

LEMMA CountType ==
  ASSUME TypeOK, NEW m \in Messages
  PROVE  OutcomeCount(m) \in Nat
<1>1. emits[m] \in Nat
  BY DEF TypeOK
<1>2. QED
  BY <1>1 DEF OutcomeCount

\* The account of a message whose outcomes stay as they are, and of which w, if it is
\* there, is not about to record one, or goes on to record it, or has, or has failed.
LEMMA AccountStands ==
  ASSUME TypeOK, TypeOK', OutcomesInv, NEW w \in Workers, OutcomesStand(w),
         NEW m \in Messages, SameOutcomes(m),
         \/ m # pos[w]
         \/ pc[w] \notin Recording
         \/ pc'[w] \in Recording /\ pos'[w] = pos[w]
         \/ claims'[m].done
         \/ faults < faults'
  PROVE  Accounted(m)'
<1>1. /\ OutcomeCount(m)' = OutcomeCount(m) /\ OutcomeCount(m) \in Nat
      /\ faults \in Nat /\ faults' \in Nat /\ faults <= faults'
  BY CountType DEF OutcomeCount, SameOutcomes, OutcomesStand, TypeOK
<1>2. Accounted(m)
  BY DEF OutcomesInv
<1>3. CASE ~claims[m].done /\ ~OutcomeOut(m)
  BY <1>1, <1>2, <1>3 DEF Accounted
<1>4. CASE claims[m].done
  BY <1>1, <1>2, <1>4 DEF Accounted, OutcomesStand
<1>5. CASE OutcomeOut(m)
  <2>1. PICK v \in Workers : pos[v] = m /\ pc[v] \in Recording
    BY <1>5 DEF OutcomeOut, Recording
  <2>2. CASE v # w
    <3>1. OutcomeOut(m)'
      BY <2>1, <2>2 DEF OutcomesStand, OutcomeOut, Recording
    <3>2. QED
      BY <1>1, <1>2, <3>1 DEF Accounted
  <2>3. CASE v = w
    <3>1. CASE faults < faults'
      <4>1. OutcomeCount(m) <= faults + 1
        BY <1>1, <1>2 DEF Accounted
      <4>2. OutcomeCount(m)' <= faults'
        BY <1>1, <3>1, <4>1
      <4>3. QED
        BY <1>1, <4>2 DEF Accounted
    <3>2. CASE pc'[w] \in Recording /\ pos'[w] = pos[w]
      <4>1. OutcomeOut(m)'
        BY <2>1, <2>3, <3>2 DEF OutcomeOut, Recording
      <4>2. QED
        BY <1>1, <1>2, <4>1 DEF Accounted
    <3>3. CASE claims'[m].done
      BY <1>1, <1>2, <3>3 DEF Accounted
    <3>4. QED
      BY <2>1, <2>3, <3>1, <3>2, <3>3
  <2>4. QED
    BY <2>2, <2>3
<1>6. QED
  BY <1>3, <1>4, <1>5

\* A first outcome of a message that is held, not done and without one on the way.
LEMMA OutcomePaid ==
  ASSUME TypeOK, TypeOK', ClaimsInv, OutcomesInv, NEW w \in Workers, OutcomesStand(w),
         pc[w] \in Holding \ Recording, NEW m \in Messages, m = pos[w],
         OutcomeCount(m)' <= OutcomeCount(m) + 1,
         \/ pc'[w] \in Recording /\ pos'[w] = m
         \/ claims'[m].done
         \/ faults < faults'
  PROVE  Accounted(m)'
<1>1. OutcomeCount(m) \in Nat /\ OutcomeCount(m)' \in Nat
  BY CountType DEF OutcomeCount, TypeOK
<1>2. ~claims[m].done /\ \A v \in Workers \ {w} : pc[v] \in Holding => pos[v] # m
  BY DEF ClaimsInv, HoldsAlone
<1>3. ~OutcomeOut(m)
  BY <1>2 DEF OutcomeOut, Recording, Holding
<1>4. OutcomeCount(m) <= faults
  BY <1>1, <1>2, <1>3 DEF OutcomesInv, Accounted, TypeOK
<1>5. faults \in Nat /\ faults' \in Nat /\ faults <= faults'
  BY DEF TypeOK, OutcomesStand
<1>6. CASE faults < faults'
  <2>1. OutcomeCount(m)' <= faults'
    BY <1>1, <1>4, <1>5, <1>6
  <2>2. QED
    BY <1>1, <1>5, <2>1 DEF Accounted
<1>7. CASE (pc'[w] \in Recording /\ pos'[w] = m) \/ claims'[m].done
  <2>1. claims'[m].done \/ OutcomeOut(m)'
    BY <1>7 DEF OutcomeOut, Recording
  <2>2. OutcomeCount(m)' <= faults' + 1
    BY <1>1, <1>4, <1>5
  <2>3. QED
    BY <2>1, <2>2 DEF Accounted
<1>8. QED
  BY <1>6, <1>7

\* The steps that put nothing out.
LEMMA QuietSteps ==
  ASSUME TypeOK, TypeOK', OutcomesInv, NEW w \in Workers,
         \/ RunLoop(w) \/ Claim(w) \/ Duplicate(w) \/ RecordAttempt(w) \/ Extract(w)
         \/ FilterDrop(w) \/ WorkRaises(w) \/ Refresh(w) \/ DlqPut(w) \/ MarkEmitted(w)
         \/ DlqMark(w) \/ Release(w) \/ MarkRaises(w) \/ Raise(w) \/ Crash(w)
  PROVE  OutcomesInv'
<1> USE DEF stores, outputs, locals, history
<1>1. UNCHANGED <<emits, dropped, dlqEvents>>
  BY DEF RunLoop, StartRun, FetchMessage, FetchExhausted, ReturnReport, Commit, Claim,
     Duplicate, RecordAttempt, Extract, FilterDrop, WorkRaises, Refresh, DlqPut,
     MarkEmitted, DlqMark, Release, MarkRaises, Raise, Crash
<1>2. faults' = faults \/ faults' = faults + 1
  BY DEF RunLoop, StartRun, FetchMessage, FetchExhausted, ReturnReport, Commit, Claim,
     Duplicate, RecordAttempt, Extract, FilterDrop, WorkRaises, Refresh, DlqPut,
     MarkEmitted, DlqMark, Release, MarkRaises, Raise, Crash
<1>3. \A v \in Workers \ {w} : pc'[v] = pc[v] /\ pos'[v] = pos[v]
  BY OthersStandStill DEF Step, Process, Fault
<1>4. \A m \in Messages : claims[m].done => claims'[m].done
  <2>1. CASE UNCHANGED claims
    BY <2>1
  <2>2. ASSUME pos[w] \in Messages, NEW row \in Row, SetClaim(w, row),
               claims[pos[w]].done => row.done
        PROVE  \A m \in Messages : claims[m].done => claims'[m].done
    BY <2>2 DEF SetClaim, TypeOK
  <2>3. ASSUME \/ Claim(w) \/ RecordAttempt(w) \/ MarkEmitted(w) \/ DlqMark(w) \/ Release(w)
        PROVE  pos[w] \in Messages /\ claims[pos[w]] \in Row
    BY <2>3, HasMessage DEF Claim, RecordAttempt, MarkEmitted, DlqMark, Release, Holding
  <2>4. CASE Claim(w)
    BY <2>2, <2>3, <2>4, RowOperations, RowDone DEF Claim
  <2>5. CASE RecordAttempt(w)
    BY <2>2, <2>3, <2>5, RowOperations, RowDone DEF RecordAttempt
  <2>6. CASE Release(w)
    BY <2>2, <2>3, <2>6, RowOperations, RowDone DEF Release
  <2>7. CASE MarkEmitted(w) \/ DlqMark(w)
    <3>1. MarkedDone(claims[pos[w]]) \in Row /\ MarkedDone(claims[pos[w]]).done
      BY <2>3, <2>7, RowOperations DEF MarkedDone, Row
    <3>2. QED
      BY <2>2, <2>3, <2>7, <3>1 DEF MarkEmitted, DlqMark
  <2>8. QED
    BY <2>1, <2>4, <2>5, <2>6, <2>7
       DEF RunLoop, StartRun, FetchMessage, FetchExhausted, ReturnReport, Commit, Duplicate,
           Extract, FilterDrop, WorkRaises, Refresh, DlqPut, MarkRaises, Raise, Crash
<1>5. OutcomesStand(w) /\ \A m \in Messages : SameOutcomes(m)
  BY <1>1, <1>2, <1>3, <1>4 DEF OutcomesStand, SameOutcomes, TypeOK
<1>6. \/ pc[w] \notin Recording
      \/ pc'[w] \in Recording /\ pos'[w] = pos[w]
      \/ claims'[pos[w]].done
      \/ faults < faults'
  <2>1. CASE MarkEmitted(w) \/ DlqMark(w)
    <3>1. pos[w] \in Messages /\ claims[pos[w]] \in Row
      BY <2>1, HasMessage DEF MarkEmitted, DlqMark, Holding
    <3>2. claims' = [claims EXCEPT ![pos[w]] = MarkedDone(claims[pos[w]])]
      BY <2>1 DEF MarkEmitted, DlqMark, SetClaim
    <3>3. QED
      BY <3>1, <3>2 DEF MarkedDone, Row, TypeOK
  <2>2. CASE MarkRaises(w) \/ Raise(w) \/ Crash(w)
    BY <2>2 DEF MarkRaises, Raise, Crash, TypeOK
  <2>3. CASE DlqPut(w)
    BY <2>3 DEF DlqPut, Goto, Recording, TypeOK
  <2>4. QED
    BY <2>1, <2>2, <2>3
       DEF RunLoop, StartRun, FetchMessage, FetchExhausted, ReturnReport, Commit, Claim,
           Duplicate, RecordAttempt, Extract, FilterDrop, WorkRaises, Refresh, Release,
           Recording
<1>7. ASSUME NEW m \in Messages PROVE Accounted(m)'
  BY <1>5, <1>6, AccountStands
<1>8. QED
  BY <1>7 DEF OutcomesInv

\* The steps that put something out, each for a message that had nothing out.
LEMMA OutcomeSteps ==
  ASSUME TypeOK, TypeOK', ClaimsInv, OutcomesInv, NEW w \in Workers,
         Emit(w) \/ EmitUnacknowledged(w) \/ MarkDropped(w) \/ DlqEmit(w)
  PROVE  OutcomesInv'
<1> USE DEF stores, outputs, locals, history
<1>1. pos[w] \in Messages /\ claims[pos[w]] \in Row /\ pc[w] \in Holding \ Recording
  BY HasMessage
     DEF Emit, EmitUnacknowledged, MarkDropped, DlqEmit, Holding, Recording
<1>2. faults' = faults \/ faults' = faults + 1
  BY DEF Emit, EmitUnacknowledged, MarkDropped, DlqEmit
<1>3. \A v \in Workers \ {w} : pc'[v] = pc[v] /\ pos'[v] = pos[v]
  BY OthersStandStill DEF Step, Process, Fault
<1>0. PICK m \in Messages : m = pos[w]
  BY <1>1
<1>4. CASE Emit(w) \/ EmitUnacknowledged(w)
  <2>1. /\ emits' = [emits EXCEPT ![pos[w]] = @ + 1]
        /\ UNCHANGED <<claims, dropped, dlqEvents, pos>>
    BY <1>4 DEF Emit, EmitUnacknowledged
  <2>2. OutcomesStand(w)
    BY <1>2, <1>3, <2>1 DEF OutcomesStand, SameOutcomes, TypeOK
  <2>3. OutcomeCount(m)' <= OutcomeCount(m) + 1
    BY <1>0, <2>1, CountType DEF OutcomeCount, TypeOK
  <2>4. pc'[w] \in Recording \/ faults < faults'
    BY <1>4 DEF Emit, EmitUnacknowledged, Goto, Recording, TypeOK
  <2>5. Accounted(m)'
    BY <1>0, <1>1, <2>1, <2>2, <2>3, <2>4, OutcomePaid
  <2>6. \A n \in Messages \ {m} : Accounted(n)'
    BY <1>0, <2>2, AccountStands DEF OutcomesStand
  <2>7. QED
    BY <2>1, <2>5, <2>6 DEF OutcomesInv
<1>5. CASE MarkDropped(w)
  <2>1. /\ claims' = [claims EXCEPT ![pos[w]] = MarkedDone(claims[pos[w]])]
        /\ dropped' = dropped \cup {pos[w]}
        /\ UNCHANGED <<emits, dlqEvents, pos>>
    BY <1>5 DEF MarkDropped, SetClaim
  <2>2. claims'[pos[w]].done /\ \A n \in Messages : claims[n].done => claims'[n].done
    BY <1>1, <2>1 DEF MarkedDone, Row, TypeOK
  <2>3. OutcomesStand(w)
    BY <1>2, <1>3, <2>1, <2>2 DEF OutcomesStand, SameOutcomes, TypeOK
  <2>4. OutcomeCount(m)' <= OutcomeCount(m) + 1
    BY <1>0, <2>1, CountType DEF OutcomeCount, TypeOK
  <2>5. Accounted(m)'
    BY <1>0, <1>1, <2>2, <2>3, <2>4, OutcomePaid
  <2>6. \A n \in Messages \ {m} : Accounted(n)'
    BY <1>0, <2>3, AccountStands DEF OutcomesStand
  <2>7. QED
    BY <2>1, <2>5, <2>6 DEF OutcomesInv
<1>6. CASE DlqEmit(w)
  <2>1. /\ dlqEvents' = dlqEvents \cup {pos[w]}
        /\ UNCHANGED <<claims, emits, dropped, pos>>
    BY <1>6 DEF DlqEmit
  <2>2. OutcomesStand(w)
    BY <1>2, <1>3, <2>1 DEF OutcomesStand, SameOutcomes, TypeOK
  <2>3. OutcomeCount(m)' <= OutcomeCount(m) + 1
    BY <1>0, <2>1, CountType DEF OutcomeCount, TypeOK
  <2>4. pc'[w] \in Recording
    BY <1>6 DEF DlqEmit, Goto, Recording, TypeOK
  <2>5. Accounted(m)'
    BY <1>0, <1>1, <2>1, <2>2, <2>3, <2>4, OutcomePaid
  <2>6. \A n \in Messages \ {m} : Accounted(n)'
    BY <1>0, <2>2, AccountStands DEF OutcomesStand
  <2>7. QED
    BY <2>1, <2>5, <2>6 DEF OutcomesInv
<1>7. QED
  BY <1>4, <1>5, <1>6

\* The end of a lease puts nothing out.
LEMMA OutcomesOverTime ==
  ASSUME TypeOK, OutcomesInv, NEW m \in Messages, LeaseElapses(m)
  PROVE  OutcomesInv'
<1>1. \A n \in Messages : claims'[n].done = claims[n].done
  BY DEF LeaseElapses, TypeOK, Row
<1>2. UNCHANGED <<emits, dropped, dlqEvents, faults, pc, pos>>
  BY DEF LeaseElapses, outputs, locals
<1>3. ASSUME NEW n \in Messages PROVE Accounted(n)'
  BY <1>1, <1>2 DEF OutcomesInv, Accounted, OutcomeCount, OutcomeOut
<1>4. QED
  BY <1>3 DEF OutcomesInv

\* Every step keeps the accounts, if no row is ever purged.
LEMMA OutcomesNext ==
  ASSUME MaxPurges = 0
  PROVE  TypeOK /\ TypeOK' /\ ClaimsInv /\ OutcomesInv /\ [Next]_vars => OutcomesInv'
<1> SUFFICES ASSUME TypeOK, TypeOK', ClaimsInv, OutcomesInv, [Next]_vars
             PROVE  OutcomesInv'
  OBVIOUS
<1>1. CASE UNCHANGED vars
  BY <1>1 DEF vars, stores, outputs, locals, history, OutcomesInv, Accounted, OutcomeCount,
     OutcomeOut
<1>2. ASSUME NEW m \in Messages PROVE ~Purge(m)
  BY DEF Purge, TypeOK
<1>3. QED
  BY <1>1, <1>2, QuietSteps, OutcomeSteps, OutcomesOverTime
     DEF Next, Step, Process, Fault

LEMMA OutcomesInit == Init => OutcomesInv
<1> SUFFICES ASSUME Init, NEW m \in Messages PROVE Accounted(m)
  BY DEF OutcomesInv
<1>1. OutcomeCount(m) = 0 /\ faults = 0
  BY DEF Init, OutcomeCount
<1>2. QED
  BY <1>1 DEF Accounted

LEMMA OutcomesAccounted ==
  ASSUME HasLease => LeaseOutlastsWork, MaxPurges = 0
  PROVE  Spec => []OutcomesInv
<1>1. TypeOK /\ TypeOK' /\ ClaimsInv /\ OutcomesInv /\ [Next]_vars => OutcomesInv'
  BY OutcomesNext
<1>2. QED
  BY <1>1, OutcomesInit, TypeCorrect, ClaimsHeldAlone, PTL DEF Spec

\* A message gets one outcome, and one more at most for each fault: for rows that are
\* kept, and workers that do not outlive their lease.
THEOREM OutcomesArePaidFor ==
  ASSUME HasLease => LeaseOutlastsWork, MaxPurges = 0
  PROVE  Spec => []OutcomesPaidFor
<1>1. TypeOK /\ OutcomesInv => OutcomesPaidFor
  <2> SUFFICES ASSUME TypeOK, OutcomesInv, NEW m \in Messages
               PROVE  OutcomeCount(m) <= 1 + faults
    BY DEF OutcomesPaidFor
  <2>1. OutcomeCount(m) \in Nat /\ faults \in Nat
    BY CountType DEF TypeOK
  <2>2. QED
    BY <2>1 DEF OutcomesInv, Accounted
<1>2. QED
  BY <1>1, TypeCorrect, OutcomesAccounted, PTL

----------------------------------------------------------------------------
(* The low-water mark, for a sole worker that waits for leases to be over. *)

SoleWorker == \A v, w \in Workers : v = w

\* A step that changes no row but of the message in hand, and that one only to free it,
\* settle it, claim it anew or count an attempt.
LEMMA RowsKeepNoOrphans ==
  ASSUME TypeOK, NoOrphans, SoleWorker, NEW w \in Workers, skipped' = skipped,
         NEW row \in Row, pos[w] \in Messages, SetClaim(w, row),
         ~HasLease /\ row.claimed => row.fresh,
         pos'[w] = pos[w],
         pc'[w] \in Holding \/ ~row.claimed \/ row.done,
         pc[w] \in Holding \cup {"claim"}
  PROVE  NoOrphans'
<1>1. claims'[pos[w]] = row /\ \A m \in Messages \ {pos[w]} : claims'[m] = claims[m]
  BY DEF SetClaim, TypeOK
<1>2. \A m \in Messages \ {pos[w]} : ~Orphaned(m)
  BY DEF NoOrphans, Holding
<1>3. \A m \in Messages \ {pos[w]} : ~Orphaned(m)'
  BY <1>1, <1>2 DEF Orphaned
<1>4. Orphaned(pos[w])' => pc'[w] \in Holding
  BY <1>1 DEF Orphaned
<1>5. \A m \in Messages : ~HasLease /\ claims'[m].claimed => claims'[m].fresh
  BY <1>1 DEF NoOrphans
<1>6. \A v \in Workers : v = w
  BY DEF SoleWorker
<1>7. ASSUME NEW v \in Workers, NEW m \in Messages, Orphaned(m)'
      PROVE  pos'[v] = m /\ pc'[v] \in Holding
  <2>1. v = w /\ m = pos[w]
    BY <1>3, <1>6, <1>7
  <2>2. claims'[m] = row
    BY <1>1, <2>1
  <2>3. QED
    BY <1>7, <2>1, <2>2 DEF Orphaned
<1>8. QED
  BY <1>5, <1>7 DEF NoOrphans

\* A step that changes no row: the worker keeps what it holds, or ends its run, or begins
\* one when no lease is running.
LEMMA NoRowsKeepNoOrphans ==
  ASSUME TypeOK, NoOrphans, SoleWorker, NEW w \in Workers, skipped' = skipped,
         claims' = claims,
         \/ pc'[w] = "idle" /\ RestartAfterLease
         \/ pc[w] # "idle" /\ (pc[w] \in Holding => pc'[w] \in Holding /\ pos'[w] = pos[w])
         \/ \A m \in Messages : ~Orphaned(m)
  PROVE  NoOrphans'
<1>1. \A v \in Workers : v = w
  BY DEF SoleWorker
<1>2. \A m \in Messages : Orphaned(m)' <=> Orphaned(m)
  BY DEF Orphaned
<1>3. ASSUME NEW m \in Messages, Orphaned(m)', pc'[w] # "idle" \/ ~RestartAfterLease
      PROVE  pos'[w] = m /\ pc'[w] \in Holding
  BY <1>2, <1>3 DEF NoOrphans
<1>4. QED
  BY <1>1, <1>3 DEF NoOrphans

\* try_claim is refused for a done row only.
LEMMA RefusedIsDone ==
  ASSUME TypeOK, NoOrphans, NEW w \in Workers, pc[w] = "claim", ~Claimable(claims[pos[w]])
  PROVE  claims[pos[w]].done
<1>1. pos[w] \in Messages /\ claims[pos[w]] \in Row
  BY HasMessage
<1>2. ~Orphaned(pos[w])
  BY <1>1 DEF NoOrphans, Holding
<1>3. QED
  BY <1>1, <1>2 DEF Orphaned, NoOrphans, Claimable, ClaimableLeased, ClaimableUntimed, Row

\* No step of the sole worker, and no fault, leaves an orphan ahead of a run.
LEMMA SoleStepKeeps ==
  ASSUME TypeOK, NoOrphans, SoleWorker, RestartAfterLease \/ MaxFaults = 0,
         NEW w \in Workers, Step(w) \/ Fault(w)
  PROVE  NoOrphans'
<1> USE DEF stores, outputs, locals, history
<1>1. CASE StartRun(w)
  <2>1. \A m \in Messages : ~Orphaned(m)
    BY <1>1 DEF StartRun, NoOrphans, Holding
  <2>2. QED
    BY <1>1, <2>1, NoRowsKeepNoOrphans DEF StartRun
<1>2. CASE FetchMessage(w) \/ FetchExhausted(w) \/ ReturnReport(w) \/ Commit(w)
  <2>1. skipped' = skipped /\ claims' = claims /\ pc[w] # "idle" /\ pc[w] \notin Holding
    BY <1>2 DEF FetchMessage, FetchExhausted, ReturnReport, Commit, Holding
  <2>2. QED
    BY <2>1, NoRowsKeepNoOrphans
<1>3. CASE Duplicate(w)
  <2>1. claims[pos[w]].done
    BY <1>3, RefusedIsDone DEF Duplicate
  <2>2. skipped' = skipped /\ claims' = claims /\ pc[w] # "idle" /\ pc[w] \notin Holding
    BY <1>3, <2>1 DEF Duplicate, Holding
  <2>3. QED
    BY <2>2, NoRowsKeepNoOrphans
<1>4. CASE Extract(w) \/ FilterDrop(w) \/ Emit(w) \/ Refresh(w) \/ DlqEmit(w) \/ DlqPut(w)
  <2>1. /\ skipped' = skipped /\ claims' = claims /\ pos' = pos
        /\ pc[w] \in Holding /\ pc'[w] \in Holding
    BY <1>4 DEF Extract, FilterDrop, Emit, Refresh, DlqEmit, DlqPut, Goto, Holding, TypeOK
  <2>2. QED
    BY <2>1, NoRowsKeepNoOrphans DEF Holding
<1>5. CASE WorkRaises(w) \/ EmitUnacknowledged(w) \/ MarkRaises(w)
  <2>1. PICK label \in Holding : pc' = [pc EXCEPT ![w] = label]
    BY <1>5, HandlerType DEF WorkRaises, EmitUnacknowledged, MarkRaises, Errors, Goto
  <2>2. /\ skipped' = skipped /\ claims' = claims /\ pos' = pos
        /\ pc[w] \in Holding
    BY <1>5 DEF WorkRaises, EmitUnacknowledged, MarkRaises, Holding
  <2>3. QED
    BY <2>1, <2>2, NoRowsKeepNoOrphans DEF Holding, TypeOK
<1>6. CASE Raise(w) \/ Crash(w)
  <2>1. skipped' = skipped /\ claims' = claims /\ pc'[w] = "idle"
    BY <1>6 DEF Raise, Crash, EndOfRun, Settle, Goto, TypeOK
  <2>2. RestartAfterLease
    BY <1>6 DEF Raise, Crash, TypeOK
  <2>3. QED
    BY <2>1, <2>2, NoRowsKeepNoOrphans
<1>7. CASE Claim(w) \/ RecordAttempt(w) \/ MarkEmitted(w) \/ MarkDropped(w) \/ Release(w)
           \/ DlqMark(w)
  <2>1. /\ pos[w] \in Messages /\ claims[pos[w]] \in Row
        /\ pc[w] \in Holding \cup {"claim"}
        /\ skipped' = skipped /\ pos' = pos
    BY <1>7, HasMessage
       DEF Claim, RecordAttempt, MarkEmitted, MarkDropped, Release, DlqMark, Holding
  <2>2. ~HasLease /\ claims[pos[w]].claimed => claims[pos[w]].fresh
    BY <2>1 DEF NoOrphans
  <2>3. CASE Claim(w)
    <3>1. Claimed(claims[pos[w]]) \in Row /\ Claimed(claims[pos[w]]).fresh
      BY <2>1, RowOperations DEF Claimed, Row
    <3>2. SetClaim(w, Claimed(claims[pos[w]])) /\ pc'[w] \in Holding
      BY <2>3 DEF Claim, Goto, Holding, TypeOK
    <3>3. QED
      BY <2>1, <3>1, <3>2, RowsKeepNoOrphans
  <2>4. CASE RecordAttempt(w)
    <3>1. /\ Attempted(claims[pos[w]]) \in Row
          /\ Attempted(claims[pos[w]]).claimed = claims[pos[w]].claimed
          /\ Attempted(claims[pos[w]]).fresh = claims[pos[w]].fresh
      BY <2>1, RowOperations DEF Attempted, Row
    <3>2. SetClaim(w, Attempted(claims[pos[w]])) /\ pc'[w] \in Holding
      BY <2>4 DEF RecordAttempt, Goto, Holding, TypeOK
    <3>3. QED
      BY <2>1, <2>2, <3>1, <3>2, RowsKeepNoOrphans
  <2>5. CASE Release(w)
    <3>1. /\ Released(claims[pos[w]]) \in Row
          /\ ~Released(claims[pos[w]]).claimed \/ Released(claims[pos[w]]).done
          /\ Released(claims[pos[w]]).claimed => claims[pos[w]].claimed
          /\ Released(claims[pos[w]]).fresh = claims[pos[w]].fresh
      BY <2>1, RowOperations DEF Released, Row
    <3>2. SetClaim(w, Released(claims[pos[w]]))
      BY <2>5 DEF Release
    <3>3. QED
      BY <2>1, <2>2, <3>1, <3>2, RowsKeepNoOrphans
  <2>6. CASE MarkEmitted(w) \/ MarkDropped(w) \/ DlqMark(w)
    <3>1. /\ MarkedDone(claims[pos[w]]) \in Row
          /\ MarkedDone(claims[pos[w]]).done
          /\ MarkedDone(claims[pos[w]]).claimed = claims[pos[w]].claimed
          /\ MarkedDone(claims[pos[w]]).fresh = claims[pos[w]].fresh
      BY <2>1, RowOperations DEF MarkedDone, Row
    <3>2. SetClaim(w, MarkedDone(claims[pos[w]]))
      BY <2>6 DEF MarkEmitted, MarkDropped, DlqMark
    <3>3. QED
      BY <2>1, <2>2, <3>1, <3>2, RowsKeepNoOrphans
  <2>7. QED
    BY <1>7, <2>3, <2>4, <2>5, <2>6
<1>8. QED
  BY <1>1, <1>2, <1>3, <1>4, <1>5, <1>6, <1>7 DEF Step, RunLoop, Process, Fault

\* Neither does the passing of time.
LEMMA OrphansOverTime ==
  ASSUME TypeOK, NoOrphans, NEW m \in Messages, LeaseElapses(m) \/ Purge(m)
  PROVE  NoOrphans'
<1>1. \A n \in Messages \ {m} : claims'[n] = claims[n]
  BY DEF LeaseElapses, Purge, TypeOK
<1>2. ~Orphaned(m)' /\ (~HasLease /\ claims'[m].claimed => claims'[m].fresh)
  <2>1. CASE LeaseElapses(m)
    <3>1. HasLease /\ claims[m] \in Row
      BY <2>1 DEF LeaseElapses, TypeOK
    <3>2. claims'[m] = [claims[m] EXCEPT !.fresh = FALSE]
      BY <2>1 DEF LeaseElapses, TypeOK
    <3>3. QED
      BY <3>1, <3>2 DEF Orphaned, Row
  <2>2. CASE Purge(m)
    <3>1. claims'[m] = NoRow
      BY <2>2 DEF Purge, Purged, TypeOK
    <3>2. QED
      BY <3>1 DEF Orphaned, NoRow
  <2>3. QED
    BY <2>1, <2>2
<1>3. UNCHANGED <<pc, pos, skipped>>
  BY DEF LeaseElapses, Purge, locals
<1>4. \A n \in Messages : Orphaned(n)' => Orphaned(n)
  BY <1>1, <1>2 DEF Orphaned
<1>5. \A n \in Messages : ~HasLease /\ claims'[n].claimed => claims'[n].fresh
  BY <1>1, <1>2 DEF NoOrphans
<1>6. QED
  BY <1>3, <1>4, <1>5 DEF NoOrphans

LEMMA OrphansNext ==
  ASSUME SoleWorker, RestartAfterLease \/ MaxFaults = 0
  PROVE  TypeOK /\ NoOrphans /\ [Next]_vars => NoOrphans'
<1> SUFFICES ASSUME TypeOK, NoOrphans, [Next]_vars PROVE NoOrphans'
  OBVIOUS
<1>1. CASE UNCHANGED vars
  BY <1>1 DEF vars, stores, locals, history, NoOrphans, Orphaned
<1>2. QED
  BY <1>1, SoleStepKeeps, OrphansOverTime DEF Next

LEMMA OrphansInit == Init => NoOrphans
  BY DEF Init, NoOrphans, NoRow, Orphaned

LEMMA NoOrphansAhead ==
  ASSUME SoleWorker, RestartAfterLease \/ MaxFaults = 0
  PROVE  Spec => []NoOrphans
  BY OrphansInit, OrphansNext, TypeCorrect, PTL DEF Spec

\* One worker at a time, started only when an interrupted run's lease is over (or never
\* interrupted), never moves the cursor over a message without an outcome.
THEOREM LowWaterMarkHolds ==
  ASSUME SoleWorker, RestartAfterLease \/ MaxFaults = 0
  PROVE  Spec => []LowWaterMark
<1>1. InductiveInv /\ NoOrphans => LowWaterMark
  BY DEF InductiveInv, CursorCoversFinished, NoOrphans, LowWaterMark
<1>2. QED
  BY <1>1, Inductive, NoOrphansAhead, PTL

----------------------------------------------------------------------------
(* The refinement: every step is a step of the contract, or none.          *)


\* The outcome of m as the contract knows it.
OutcomeOf(m) ==
  IF emits[m] > 0 THEN "emitted"
  ELSE IF m \in dropped THEN "dropped"
  ELSE IF DeadLettered(m) THEN "dead_lettered"
  ELSE "pending"

\* A step that resolves m, if it changes anything, is a step of the contract.
LEMMA ResolvingStep ==
  ASSUME NEW m \in Messages, cursor' = cursor,
         \A n \in Messages \ {m} : OutcomeOf(n)' = OutcomeOf(n),
         OutcomeOf(m)' = OutcomeOf(m) \/ OutcomeOf(m) = "pending"
  PROVE  [Contract!Next]_Contract!vars
<1> DEFINE outcome == [n \in Messages |-> OutcomeOf(n)]
<1>1. CASE OutcomeOf(m)' = OutcomeOf(m)
  <2>1. outcome' = outcome
    BY <1>1
  <2>2. QED
    BY <2>1 DEF Contract!vars, OutcomeOf, Contract!Messages
<1>2. CASE OutcomeOf(m) = "pending" /\ OutcomeOf(m)' # "pending"
  <2>1. PICK o \in Contract!Outcomes : OutcomeOf(m)' = o
    BY <1>2 DEF OutcomeOf, Contract!Outcomes
  <2>2. outcome' = [outcome EXCEPT ![m] = o] /\ outcome[m] = "pending"
    <3>1. /\ outcome' = [n \in Messages |-> OutcomeOf(n)']
          /\ outcome[m] = "pending"
      BY <1>2
    <3>2. \A n \in Messages : OutcomeOf(n)' = IF n = m THEN o ELSE OutcomeOf(n)
      BY <2>1
    <3>3. [outcome EXCEPT ![m] = o] = [n \in Messages |-> IF n = m THEN o ELSE OutcomeOf(n)]
      OBVIOUS
    <3>4. QED
      BY <3>1, <3>2, <3>3
  <2>3. Contract!Resolve(m)
    BY <2>2 DEF Contract!Resolve, OutcomeOf, Contract!Messages
  <2>4. QED
    BY <2>3 DEF Contract!Next, Contract!Messages, Messages
<1>3. QED
  BY <1>1, <1>2

\* A step that moves the cursor forward over resolved messages only is one, too.
LEMMA AdvancingStep ==
  ASSUME TypeOK, TypeOK', cursor < cursor', LowWaterMark',
         UNCHANGED <<emits, dropped, dlqEvents, dlq>>
  PROVE  [Contract!Next]_Contract!vars
<1> DEFINE outcome == [n \in Messages |-> OutcomeOf(n)]
<1>1. \A n \in Messages : OutcomeOf(n)' = OutcomeOf(n)
  BY DEF OutcomeOf, DeadLettered
<1>2. outcome' = outcome
  BY <1>1
<1>3. cursor' \in cursor + 1 .. NumMessages
  BY DEF TypeOK
<1>4. ASSUME NEW n \in 1 .. cursor' PROVE n \in Messages /\ OutcomeOf(n)' # "pending"
  <2>1. Disposed(n)'
    BY DEF LowWaterMark
  <2>2. n \in Messages
    BY <1>3, PipelineAssumption DEF TypeOK, Messages
  <2>3. QED
    BY <2>1, <2>2 DEF Disposed, OutcomeOf
<1>5. \A n \in 1 .. cursor' : outcome[n] # "pending"
  BY <1>1, <1>4
<1>6. Contract!Advance
  BY <1>2, <1>3, <1>5 DEF Contract!Advance, OutcomeOf, Contract!Messages
<1>7. QED
  BY <1>6 DEF Contract!Next

\* A step resolves one message at most, and then moves no cursor.
LEMMA OneMessageAStep ==
  ASSUME TypeOK, [Next]_vars
  PROVE  \/ UNCHANGED <<emits, dropped, dlqEvents, dlq>>
         \/ /\ UNCHANGED cursor
            /\ \E m \in Messages : \A n \in Messages \ {m} :
                 SameOutcomes(n) /\ (n \in dlq' <=> n \in dlq)
<1> USE DEF stores, outputs, locals, history
<1>1. CASE UNCHANGED vars
  BY <1>1 DEF vars
<1>2. ASSUME NEW w \in Workers, RunLoop(w) \/ Claim(w) \/ Duplicate(w) \/ RecordAttempt(w)
      PROVE  UNCHANGED <<emits, dropped, dlqEvents, dlq>>
  BY <1>2 DEF RunLoop, StartRun, FetchMessage, FetchExhausted, ReturnReport, Commit, Claim,
     Duplicate, RecordAttempt
<1>3. ASSUME NEW w \in Workers,
             \/ Extract(w) \/ FilterDrop(w) \/ WorkRaises(w) \/ Refresh(w) \/ MarkEmitted(w)
             \/ DlqMark(w) \/ Release(w) \/ MarkRaises(w) \/ Raise(w) \/ Crash(w)
      PROVE  UNCHANGED <<emits, dropped, dlqEvents, dlq>>
  BY <1>3 DEF Extract, FilterDrop, WorkRaises, Refresh, MarkEmitted, DlqMark, Release,
     MarkRaises, Raise, Crash
<1>4. ASSUME NEW w \in Workers,
             \/ Emit(w) \/ EmitUnacknowledged(w) \/ MarkDropped(w) \/ DlqEmit(w) \/ DlqPut(w)
      PROVE  /\ UNCHANGED cursor
             /\ pos[w] \in Messages
             /\ \A n \in Messages \ {pos[w]} :
                  SameOutcomes(n) /\ (n \in dlq' <=> n \in dlq)
  <2>1. pos[w] \in Messages
    BY <1>4, HasMessage DEF Emit, EmitUnacknowledged, MarkDropped, DlqEmit, DlqPut, Holding
  <2>2. QED
    BY <1>4, <2>1
       DEF Emit, EmitUnacknowledged, MarkDropped, DlqEmit, DlqPut, SameOutcomes, TypeOK
<1>5. ASSUME NEW m \in Messages, LeaseElapses(m) \/ Purge(m)
      PROVE  UNCHANGED <<emits, dropped, dlqEvents, dlq>>
  BY <1>5 DEF LeaseElapses, Purge
<1>6. QED
  BY <1>1, <1>2, <1>3, <1>4, <1>5 DEF Next, Step, Process, Fault

\* With one outcome per message the first is the last.
LEMMA FirstOutcomeStays ==
  ASSUME TypeOK, TypeOK', Grows, OutcomesPaidFor', faults' = 0, NEW m \in Messages,
         OutcomeOf(m) # "pending"
  PROVE  OutcomeOf(m)' = OutcomeOf(m)
<1>1. emits[m] \in Nat /\ emits'[m] \in Nat /\ emits[m] <= emits'[m]
  BY DEF TypeOK, Grows
<1>2. OutcomeCount(m)' <= 1
  BY DEF OutcomesPaidFor
<1>3. CASE emits[m] > 0
  BY <1>1, <1>3 DEF OutcomeOf
<1>4. CASE ~(emits[m] > 0) /\ m \in dropped
  <2>1. m \in dropped' /\ ~(emits'[m] > 0)
    BY <1>1, <1>2, <1>4 DEF Grows, OutcomeCount
  <2>2. QED
    BY <1>4, <2>1 DEF OutcomeOf
<1>5. CASE ~(emits[m] > 0) /\ m \notin dropped /\ DeadLettered(m)
  <2>1. m \in dlqEvents' /\ DeadLettered(m)'
    BY <1>5 DEF Grows, DeadLettered
  <2>2. ~(emits'[m] > 0) /\ m \notin dropped'
    BY <1>1, <1>2, <2>1 DEF OutcomeCount
  <2>3. QED
    BY <1>5, <2>1, <2>2 DEF OutcomeOf
<1>6. QED
  BY <1>3, <1>4, <1>5 DEF OutcomeOf

\* Every step of a pipeline in which nothing fails is a step of the contract, or none.
LEMMA ContractStep ==
  ASSUME TypeOK, TypeOK', LowWaterMark', OutcomesPaidFor', faults' = 0, [Next]_vars
  PROVE  [Contract!Next]_Contract!vars
<1>1. Grows
  BY NothingIsTakenBack
<1>2. \A m \in Messages : OutcomeOf(m)' = OutcomeOf(m) \/ OutcomeOf(m) = "pending"
  BY <1>1, FirstOutcomeStays
<1>3. CASE UNCHANGED <<emits, dropped, dlqEvents, dlq>>
  <2>1. CASE cursor' = cursor
    BY <1>3, <2>1 DEF Contract!vars, DeadLettered, Contract!Messages
  <2>2. CASE cursor < cursor'
    BY <1>3, <2>2, AdvancingStep
  <2>3. QED
    BY <1>1, <2>1, <2>2 DEF Grows, TypeOK
<1>4. CASE cursor' = cursor /\ \E m \in Messages : \A n \in Messages \ {m} :
             SameOutcomes(n) /\ (n \in dlq' <=> n \in dlq)
  <2>1. PICK m \in Messages : \A n \in Messages \ {m} :
             SameOutcomes(n) /\ (n \in dlq' <=> n \in dlq)
    BY <1>4
  <2>2. \A n \in Messages \ {m} : OutcomeOf(n)' = OutcomeOf(n)
    BY <2>1 DEF OutcomeOf, SameOutcomes, DeadLettered
  <2>3. QED
    BY <1>2, <1>4, <2>2, ResolvingStep
<1>5. QED
  BY <1>3, <1>4, OneMessageAStep

LEMMA NoFaultsNext == MaxFaults = 0 /\ TypeOK /\ faults = 0 /\ [Next]_vars => faults' = 0
<1> SUFFICES ASSUME MaxFaults = 0, TypeOK, faults = 0, [Next]_vars PROVE faults' = 0
  OBVIOUS
<1> USE DEF history
<1>1. ASSUME NEW w \in Workers PROVE ~Fault(w)
  BY DEF Fault, EmitUnacknowledged, MarkRaises, Raise, Crash
<1>2. ASSUME NEW w \in Workers, Step(w) PROVE faults' = faults
  BY <1>2 DEF Step, RunLoop, StartRun, FetchMessage, FetchExhausted, ReturnReport, Commit,
     Process, Claim, Duplicate, RecordAttempt, Extract, FilterDrop, Emit, WorkRaises,
     MarkEmitted, MarkDropped, Refresh, Release, DlqEmit, DlqPut, DlqMark
<1>3. ASSUME NEW m \in Messages, LeaseElapses(m) \/ Purge(m) PROVE faults' = faults
  BY <1>3 DEF LeaseElapses, Purge
<1>4. QED
  BY <1>1, <1>2, <1>3 DEF Next, vars

\* The pipeline starts as the contract does.
LEMMA ContractInit == Init => Contract!Init
  BY DEF Init, Contract!Init, Contract!Messages, Messages, DeadLettered

\* Without faults, for one worker at a time that does not outlive its lease, the pipeline
\* implements the contract: outcomes are final, one for each message, and the bookmark
\* moves forward only over messages that have theirs.
THEOREM ImplementsContractSafely ==
  ASSUME SoleWorker, HasLease => LeaseOutlastsWork, MaxPurges = 0, MaxFaults = 0
  PROVE  Spec => Contract!Init /\ [][Contract!Next]_Contract!vars
<1>1. Spec => [](faults = 0)
  <2>1. Init => faults = 0
    BY DEF Init
  <2>2. TypeOK /\ faults = 0 /\ [Next]_vars => (faults = 0)'
    BY NoFaultsNext
  <2>3. QED
    BY <2>1, <2>2, TypeCorrect, PTL DEF Spec
<1>2. /\ TypeOK /\ TypeOK' /\ LowWaterMark' /\ OutcomesPaidFor' /\ (faults = 0)'
      /\ [Next]_vars
      => [Contract!Next]_Contract!vars
  BY ContractStep
<1>3. QED
  BY <1>1, <1>2, ContractInit, TypeCorrect, LowWaterMarkHolds, OutcomesArePaidFor, PTL
     DEF Spec

============================================================================
