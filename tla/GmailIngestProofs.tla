-------------------------- MODULE GmailIngestProofs --------------------------
(***************************************************************************)
(* Theorems about GmailIngest, for any number of callback and sweep         *)
(* threads, any number of mails, and any mix of faults.                     *)
(***************************************************************************)
EXTENDS GmailIngest, WellFoundedInduction, TLAPS

----------------------------------------------------------------------------
(* The inductive invariants.                                               *)

\* A thread has a batch while it works through one, and a mail in hand while it deals with it.
BatchInv ==
  \A t \in Threads :
    /\ pc[t] \in {"idle", "streams", "list", "ack"} => batch[t] = {}
    /\ pc[t] \in {"work", "commit", "skip"} => batch[t] # {}

\* Mail that was listed, or is not due.
Seen == NotDue \cup listed

\* The mail before a historyId is seen.
Looked(id) == Before(id) \subseteq Seen

\* Not only the cursor: every historyId a run remembers, as its start or as the end of its
\* diff, stands past no unlisted mail.
SeenInv ==
  /\ cursor = 0 => before = {}
  /\ Looked(cursor)
  /\ \A t \in Threads : Looked(start[t]) /\ Looked(latest[t])

\* A thread is at work on the mail.
Worked(m) == \E t \in Threads : pc[t] = "work" /\ Current(t) = m

InHand == UNION {batch[t] : t \in Threads}

\* Mail that is settled, in some run's hands, or nobody's concern.
Cared == NotDue \cup poison \cup settled \cup InHand

Covered(id) == Before(id) \subseteq Cared

HistoryCovered ==
  /\ Covered(cursor)
  /\ \A t \in Threads : Covered(start[t]) /\ Covered(latest[t])

\* A run lets go of a mail when it is settled or in the hands of the run that claimed it.
LetGo ==
  \A t \in Threads :
    pc[t] \in {"commit", "skip"} => Current(t) \in settled \/ Worked(Current(t))

\* The rows of the dedupe store say the same.
RowsTrue ==
  \A m \in Mails :
    /\ claims[m].done => m \in settled
    /\ Claimable(claims[m]) \/ claims[m].done \/ Worked(m)

\* All that only holds while no call fails and the process lives.
Calm == transients = 0 /\ crashes = 0
CalmInv == Calm => HistoryCovered /\ LetGo /\ RowsTrue

----------------------------------------------------------------------------
(* Types.                                                                  *)

\* The mail in hand is one of the batch.
LEMMA CurrentInBatch ==
  ASSUME TypeOK, NEW t \in Threads, batch[t] # {}
  PROVE  Current(t) \in batch[t] /\ Current(t) \in Mails
<1>1. batch[t] \subseteq Mails /\ batch[t] \subseteq Nat
  BY DEF TypeOK, Mails
<1>2. \E m \in batch[t] : \A k \in batch[t] : ~ (<<k, m>> \in OpToRel(<, Nat))
  BY <1>1, WFMin, NatLessThanWellFounded
<1>3. \E m \in batch[t] : \A k \in batch[t] : m <= k
  <2>1. PICK m \in batch[t] : \A k \in batch[t] : ~ (<<k, m>> \in OpToRel(<, Nat))
    BY <1>2
  <2>2. ASSUME NEW k \in batch[t] PROVE m <= k
    <3>1. <<k, m>> \in Nat \X Nat
      BY <1>1
    <3>2. ~ (k < m)
      BY <2>1, <3>1 DEF OpToRel
    <3>3. QED
      BY <1>1, <3>2
  <2>3. QED
    BY <2>2
<1>4. Least(batch[t]) \in batch[t]
  BY <1>3 DEF Least
<1>5. QED
  BY <1>1, <1>4 DEF Current

\* Every operation of the store yields a row.
LEMMA RowOperations ==
  ASSUME NEW row \in Row
  PROVE  /\ Attempted(Claimed(row)) \in Row
         /\ MarkedDone(row) \in Row
         /\ Released(row) \in Row
         /\ [row EXCEPT !.fresh = FALSE] \in Row
<1>1. Claimed(row) \in Row /\ MarkedDone(row) \in Row
  BY DEF Row, Claimed, MarkedDone
<1>2. \A r \in Row : Attempted(r) \in Row
  BY DEF Row, Attempted
<1>3. Released(row) \in Row /\ [row EXCEPT !.fresh = FALSE] \in Row
  BY DEF Row, Released
<1>4. QED
  BY <1>1, <1>2, <1>3

\* The initial state has its types.
LEMMA TypeInit == Init => TypeOK /\ BatchInv
<1> SUFFICES ASSUME Init PROVE TypeOK /\ BatchInv
  OBVIOUS
<1>1. NoRow \in Row /\ 1 \in HistoryIds
  BY GmailAssumption DEF Row, NoRow, HistoryIds
<1>2. TypeOK
  BY <1>1 DEF Init, TypeOK
<1>3. BatchInv
  BY DEF Init, BatchInv
<1>4. QED
  BY <1>2, <1>3

\* What lies behind a historyId is mail.
LEMMA BeforeIsMail ==
  ASSUME NEW id
  PROVE  Before(id) \subseteq Mails
  BY DEF Before

\* A cursor only moves to a historyId.
LEMMA AheadType ==
  ASSUME TypeOK, NEW id \in {0} \cup HistoryIds
  PROVE  Ahead(id) \in {0} \cup HistoryIds
  BY DEF TypeOK, Ahead

\* The outside keeps the types.
LEMMA TypeOutside ==
  ASSUME TypeOK, BatchInv,
         Arrive \/ Boot \/ Crash \/ \E m \in Mails : LeaseElapses(m)
  PROVE  TypeOK' /\ BatchInv'
<1> USE DEF TypeOK, BatchInv, world, stores, locals, seen, counters
<1>1. CASE Arrive
  <2>1. head' \in HistoryIds
    BY <1>1, GmailAssumption DEF Arrive, HistoryIds
  <2>2. CASE notes' = notes \cup {head'} /\ UNCHANGED lost
    BY <1>1, <2>1, <2>2 DEF Arrive
  <2>3. CASE lost' = lost + 1 /\ UNCHANGED notes
    BY <1>1, <2>1, <2>3 DEF Arrive
  <2>4. QED
    BY <1>1, <2>2, <2>3 DEF Arrive
<1>2. CASE Boot
  BY <1>2, BeforeIsMail DEF Boot
<1>3. CASE Crash
  <2>1. crashes' \in Nat
    BY <1>3 DEF Crash
  <2>2. TypeOK'
    BY <1>3, <2>1 DEF Crash
  <2>3. BatchInv'
    BY <1>3 DEF Crash
  <2>4. QED
    BY <2>2, <2>3
<1>4. ASSUME NEW m \in Mails, LeaseElapses(m) PROVE TypeOK' /\ BatchInv'
  BY <1>4, RowOperations DEF LeaseElapses
<1>5. QED
  BY <1>1, <1>2, <1>3, <1>4

\* A run begins and ends.
LEMMA TypeRun ==
  ASSUME TypeOK, BatchInv, NEW t \in Threads,
         \/ Receive(t) \/ Sweep(t) \/ Streams(t) \/ ListHistory(t) \/ NothingToDiff(t)
         \/ Reseed(t) \/ Pop(t) \/ Ack(t) \/ RunRaises(t)
  PROVE  TypeOK' /\ BatchInv'
<1> USE DEF TypeOK, BatchInv, world, stores, locals, seen, counters, Goto, Idle
<1>1. CASE Receive(t)
  BY <1>1 DEF Receive
<1>2. CASE Sweep(t)
  BY <1>2 DEF Sweep
<1>3. CASE Streams(t)
  BY <1>3 DEF Streams
<1>4. CASE ListHistory(t)
  BY <1>4, BeforeIsMail DEF ListHistory
<1>5. CASE NothingToDiff(t)
  BY <1>5 DEF NothingToDiff
<1>6. CASE Reseed(t)
  <2>1. stales' \in Nat
    BY <1>6 DEF Reseed
  <2>2. cursor' \in {0} \cup HistoryIds
    BY <1>6, AheadType DEF Reseed
  <2>3. skipped' \subseteq Mails /\ fallback' \subseteq Mails
    BY <1>6, BeforeIsMail DEF Reseed
  <2>4. QED
    BY <1>6, <2>1, <2>2, <2>3 DEF Reseed
<1>7. CASE Pop(t)
  BY <1>7 DEF Pop
<1>8. CASE Ack(t)
  BY <1>8 DEF Ack
<1>9. CASE RunRaises(t)
  BY <1>9 DEF RunRaises
<1>10. QED
  BY <1>1, <1>2, <1>3, <1>4, <1>5, <1>6, <1>7, <1>8, <1>9

\* A mail is dealt with.
LEMMA TypeMail ==
  ASSUME TypeOK, BatchInv, NEW t \in Threads,
         \/ SkipPoison(t) \/ Claim(t) \/ Duplicate(t) \/ Settle(t) \/ Release(t)
         \/ Commit(t) \/ Advance(t)
  PROVE  TypeOK' /\ BatchInv'
<1> USE DEF TypeOK, BatchInv, world, stores, locals, seen, counters, Goto, Terminal
<1>1. CASE SkipPoison(t)
  BY <1>1 DEF SkipPoison
<1>2. CASE Claim(t)
  BY <1>2, CurrentInBatch, RowOperations DEF Claim
<1>3. CASE Duplicate(t)
  BY <1>3 DEF Duplicate
<1>4. CASE Settle(t)
  BY <1>4, CurrentInBatch, RowOperations DEF Settle
<1>5. CASE Release(t)
  <2>1. transients' \in Nat
    BY <1>5 DEF Release
  <2>2. claims' \in [Mails -> Row]
    <3>1. Current(t) \in Mails
      BY <1>5, CurrentInBatch DEF Release
    <3>2. claims' = [claims EXCEPT ![Current(t)] = Released(@)]
      BY <1>5 DEF Release
    <3>3. QED
      BY <3>1, <3>2, RowOperations
  <2>3. QED
    BY <1>5, <2>1, <2>2 DEF Release
<1>6. CASE Commit(t)
  BY <1>6, AheadType DEF Commit
<1>7. CASE Advance(t)
  BY <1>7 DEF Advance
<1>8. QED
  BY <1>1, <1>2, <1>3, <1>4, <1>5, <1>6, <1>7

\* Every step keeps the types.
LEMMA TypeNext == TypeOK /\ BatchInv /\ [Next]_vars => (TypeOK /\ BatchInv)'
<1>1. ASSUME TypeOK, BatchInv, UNCHANGED vars PROVE TypeOK' /\ BatchInv'
  BY <1>1 DEF TypeOK, BatchInv, vars, world, stores, locals, seen, counters
<1>2. ASSUME TypeOK, BatchInv, Next PROVE TypeOK' /\ BatchInv'
  BY <1>2, TypeOutside, TypeRun, TypeMail DEF Next, Step, Fault
<1>3. QED
  BY <1>1, <1>2

\* Every variable of the Gmail adapter has its type.
THEOREM TypeCorrect == Spec => [](TypeOK /\ BatchInv)
<1>1. Init => TypeOK /\ BatchInv
  BY TypeInit
<1>2. TypeOK /\ BatchInv /\ [Next]_vars => (TypeOK /\ BatchInv)'
  BY TypeNext
<1>3. QED
  BY <1>1, <1>2, PTL DEF Spec

----------------------------------------------------------------------------
(* The cursor passes no mail unseen.                                       *)

\* Steps that touch neither the cursor nor the diffs: a run's end clears its historyIds.
LEMMA SeenFrame ==
  ASSUME TypeOK, SeenInv, UNCHANGED <<cursor, seen>>,
         \/ UNCHANGED <<start, latest>>
         \/ \E t \in Threads : Idle(t)
         \/ Crash
  PROVE  SeenInv'
<1>1. Seen' = Seen /\ before' = before
  BY DEF Seen, NotDue, seen
<1>2. \A t \in Threads : start'[t] \in {start[t], 0} /\ latest'[t] \in {latest[t], 0}
  BY DEF Idle, Crash, TypeOK
<1>3. QED
  BY <1>1, <1>2 DEF SeenInv, Looked, Before, Mails

\* The diff of a run: from a start whose past is seen to the mailbox's head.
LEMMA DiffIsSeen ==
  ASSUME TypeOK, SeenInv, NEW t \in Threads, From(t) # 0,
         listed \cup skipped \cup (Before(head) \ Before(From(t))) \subseteq listed' \cup skipped',
         listed \subseteq listed', skipped \subseteq skipped', before' = before,
         fallback' = IF start[t] = 0 THEN fallback \cup Before(From(t)) ELSE fallback
  PROVE  Seen \subseteq Seen' /\ Before(head) \subseteq Seen'
<1>1. Seen \subseteq Seen'
  BY DEF Seen, NotDue
<1>2. Before(From(t)) \subseteq Seen'
  <2>1. CASE start[t] = 0
    BY <2>1 DEF Seen, NotDue
  <2>2. CASE start[t] # 0
    BY <1>1, <2>2 DEF From, SeenInv, Looked
  <2>3. QED
    BY <2>1, <2>2
<1>3. Before(head) \ Before(From(t)) \subseteq Seen'
  BY DEF Seen, NotDue
<1>4. QED
  BY <1>1, <1>2, <1>3

\* The steps that move a historyId.
LEMMA SeenMoves ==
  ASSUME TypeOK, SeenInv, NEW t \in Threads,
         Streams(t) \/ ListHistory(t) \/ Reseed(t) \/ Commit(t)
  PROVE  SeenInv'
<1>1. CASE Streams(t)
  <2>1. Seen' = Seen /\ before' = before
    BY <1>1 DEF Streams, Seen, NotDue, seen
  <2>2. QED
    BY <1>1, <2>1 DEF Streams, stores, TypeOK, SeenInv, Looked, Before
<1>2. CASE ListHistory(t)
  <2>1. Seen \subseteq Seen' /\ Before(head) \subseteq Seen'
    <3>1. batch'[t] = Before(head) \ Before(From(t))
      BY <1>2 DEF ListHistory, TypeOK
    <3>2. QED
      BY <1>2, <3>1, DiffIsSeen DEF ListHistory
  <2>2. QED
    BY <1>2, <2>1 DEF ListHistory, stores, TypeOK, SeenInv, Looked, Before
<1>3. CASE Reseed(t)
  <2>1. Seen \subseteq Seen' /\ Before(head) \subseteq Seen'
    BY <1>3, DiffIsSeen DEF Reseed
  <2>2. cursor' \in {cursor, head} /\ (cursor' = 0 => cursor = 0)
    BY <1>3 DEF Reseed, Ahead, TypeOK, HistoryIds
  <2>3. QED
    BY <1>3, <2>1, <2>2 DEF Reseed, TypeOK, SeenInv, Looked, Before
<1>4. CASE Commit(t)
  <2>1. Seen' = Seen /\ before' = before
    BY <1>4 DEF Commit, Seen, NotDue, seen
  <2>2. cursor' \in {cursor, latest[t]} /\ (cursor' = 0 => cursor = 0)
    BY <1>4 DEF Commit, Ahead, TypeOK, HistoryIds
  <2>3. QED
    BY <1>4, <2>1, <2>2 DEF Commit, TypeOK, SeenInv, Looked, Before
<1>5. QED
  BY <1>1, <1>2, <1>3, <1>4

\* The first start seeds the cursor with the watch's historyId; later ones do not.
LEMMA SeenBoot ==
  ASSUME TypeOK, SeenInv, Boot
  PROVE  SeenInv'
<1>1. CASE UNCHANGED <<cursor, before>>
  BY <1>1, SeenFrame DEF Boot, locals, seen
<1>2. CASE cursor = 0 /\ cursor' = head /\ before' = Before(head)
  <2>1. Seen \subseteq Seen' /\ Before(head) \subseteq Seen'
    BY <1>2 DEF SeenInv, Seen, NotDue, Boot
  <2>2. cursor' # 0
    BY <1>2 DEF TypeOK, HistoryIds
  <2>3. QED
    BY <1>2, <2>1, <2>2 DEF Boot, locals, SeenInv, Looked, Before
<1>3. QED
  BY <1>1, <1>2 DEF Boot

\* Every step keeps what the historyIds say.
LEMMA SeenNext == TypeOK /\ SeenInv /\ [Next]_vars => SeenInv'
<1> SUFFICES ASSUME TypeOK, SeenInv, [Next]_vars PROVE SeenInv'
  OBVIOUS
<1>1. CASE Arrive \/ Crash \/ (\E m \in Mails : LeaseElapses(m)) \/ UNCHANGED vars
  BY <1>1, SeenFrame DEF Arrive, Crash, LeaseElapses, vars, stores, locals
<1>2. ASSUME NEW t \in Threads,
             \/ Receive(t) \/ Sweep(t) \/ NothingToDiff(t) \/ SkipPoison(t) \/ Claim(t)
             \/ Duplicate(t) \/ Settle(t) \/ Release(t) \/ Advance(t) \/ Pop(t)
      PROVE  SeenInv'
  BY <1>2, SeenFrame DEF Receive, Sweep, NothingToDiff, SkipPoison, Claim, Duplicate, Settle,
     Release, Advance, Pop, stores
<1>3. ASSUME NEW t \in Threads, Ack(t) \/ RunRaises(t) PROVE SeenInv'
  BY <1>3, SeenFrame DEF Ack, RunRaises, stores
<1>4. QED
  BY <1>1, <1>2, <1>3, SeenMoves, SeenBoot DEF Next, Step, Fault

\* No historyId anybody remembers stands past unseen mail.
LEMMA HistoryIsSeen == Spec => []SeenInv
<1>1. Init => SeenInv
  BY DEF Init, SeenInv, Looked, Before, Mails
<1>2. TypeOK /\ SeenInv /\ [Next]_vars => SeenInv'
  BY SeenNext
<1>3. QED
  BY <1>1, <1>2, TypeCorrect, PTL DEF Spec

\* The cursor never passes mail that is due and that no history diff has returned, whatever
\* fails, dies, overlaps or restarts (bootstrap.py 24-27, provider.py 52-74).
THEOREM NothingIsPassedUnseen == Spec => []NothingPassedUnseen
<1>1. SeenInv => NothingPassedUnseen
  BY DEF SeenInv, Looked, Seen, NothingPassedUnseen
<1>2. QED
  BY <1>1, HistoryIsSeen, PTL

----------------------------------------------------------------------------
(* At rest nothing unsettled is behind the cursor.                         *)

\* A failure is not forgotten.
LEMMA CalmBefore ==
  ASSUME TypeOK, [Next]_vars, Calm'
  PROVE  /\ Calm
         /\ ~Crash
         /\ \A t \in Threads : ~RunRaises(t) /\ ~Release(t)
<1> USE DEF Calm, TypeOK, world, stores, locals, seen, counters
<1>1. ~Crash
  BY DEF Crash
<1>2. ASSUME NEW t \in Threads PROVE ~RunRaises(t) /\ ~Release(t)
  BY DEF RunRaises, Release
<1>3. CASE Arrive \/ Boot \/ (\E m \in Mails : LeaseElapses(m)) \/ UNCHANGED vars
  BY <1>1, <1>2, <1>3 DEF Arrive, Boot, LeaseElapses, vars
<1>4. ASSUME NEW t \in Threads, Step(t) PROVE Calm
  BY <1>4 DEF Step, Receive, Sweep, Streams, ListHistory, NothingToDiff, SkipPoison, Claim,
     Duplicate, Settle, Commit, Advance, Pop, Ack
<1>5. ASSUME NEW t \in Threads, Reseed(t) PROVE Calm
  BY <1>5 DEF Reseed
<1>6. QED
  BY <1>1, <1>2, <1>3, <1>4, <1>5 DEF Next, Fault

\* A mail is worked on until its worker moves.
LEMMA StaysWorked ==
  ASSUME NEW m, Worked(m),
         \A t \in Threads :
           pc[t] = "work" /\ Current(t) = m => pc'[t] = "work" /\ batch'[t] = batch[t]
  PROVE  Worked(m)'
<1>1. PICK t \in Threads : pc[t] = "work" /\ Current(t) = m
  BY DEF Worked
<1>2. pc'[t] = "work" /\ batch'[t] = batch[t]
  BY <1>1
<1>3. Current(t)' = m
  BY <1>1, <1>2 DEF Current
<1>4. QED
  BY <1>2, <1>3 DEF Worked

\* Nobody's mail in hand changes hands.
Quiet ==
  /\ UNCHANGED settled
  /\ \A t \in Threads :
       /\ pc[t] = "work" => pc'[t] = "work" /\ batch'[t] = batch[t]
       /\ pc'[t] \in {"commit", "skip"} => pc[t] \in {"commit", "skip"} /\ batch'[t] = batch[t]

LEMMA QuietStep ==
  ASSUME LetGo, RowsTrue, Quiet
  PROVE  /\ LetGo'
         /\ UNCHANGED claims => RowsTrue'
         /\ \A m : Worked(m) => Worked(m)'
<1>1. ASSUME NEW m, Worked(m) PROVE Worked(m)'
  BY <1>1, StaysWorked DEF Quiet
<1>2. ASSUME NEW t \in Threads, pc'[t] \in {"commit", "skip"}
      PROVE  (Current(t) \in settled \/ Worked(Current(t)))'
  <2>1. Current(t)' = Current(t) /\ pc[t] \in {"commit", "skip"}
    BY <1>2 DEF Quiet, Current
  <2>2. PICK m : m = Current(t)
    OBVIOUS
  <2>3. m \in settled' \/ Worked(m)'
    BY <1>1, <2>1, <2>2 DEF LetGo, Quiet
  <2>4. QED
    BY <2>1, <2>2, <2>3 DEF Worked
<1>3. ASSUME UNCHANGED claims PROVE RowsTrue'
  BY <1>1, <1>3 DEF RowsTrue, Quiet
<1>4. QED
  BY <1>1, <1>2, <1>3 DEF LetGo

\* What runs remember stays covered when no mail drops out of everybody's hands.
LEMMA CoveredFrame ==
  ASSUME TypeOK, HistoryCovered, Cared \subseteq Cared', UNCHANGED cursor,
         UNCHANGED <<start, latest>> \/ \E t \in Threads : Idle(t)
  PROVE  HistoryCovered'
<1>1. \A t \in Threads : start'[t] \in {start[t], 0} /\ latest'[t] \in {latest[t], 0}
  BY DEF Idle, TypeOK
<1>2. QED
  BY <1>1 DEF HistoryCovered, Covered, Before, Mails

\* Steps that leave every mail in hand where it is, and the history alone.
LEMMA CalmQuiet ==
  ASSUME TypeOK, BatchInv, HistoryCovered, LetGo, RowsTrue,
         NEW t \in Threads,
         Receive(t) \/ Sweep(t) \/ NothingToDiff(t) \/ SkipPoison(t) \/ Pop(t) \/ Ack(t)
  PROVE  HistoryCovered' /\ LetGo' /\ RowsTrue'
<1> USE DEF world, stores, locals, seen, counters
<1>1. CASE Receive(t) \/ Sweep(t) \/ NothingToDiff(t) \/ Pop(t)
  <2>1. Quiet /\ UNCHANGED <<claims, cursor, start, latest>>
    BY <1>1 DEF Quiet, TypeOK, Receive, Sweep, NothingToDiff, Pop, Goto
  <2>2. Cared' = Cared
    BY <1>1 DEF Cared, NotDue, InHand, Receive, Sweep, NothingToDiff, Pop
  <2>3. QED
    BY <2>1, <2>2, QuietStep, CoveredFrame
<1>2. CASE Ack(t)
  <2>1. Quiet /\ UNCHANGED <<claims, cursor>> /\ batch' = batch
    BY <1>2 DEF Quiet, TypeOK, BatchInv, Ack, Idle, Goto
  <2>2. Cared' = Cared
    BY <1>2, <2>1 DEF Cared, NotDue, InHand, Ack
  <2>3. QED
    BY <1>2, <2>1, <2>2, QuietStep, CoveredFrame DEF Ack
<1>3. CASE SkipPoison(t)
  <2>1. Quiet /\ UNCHANGED <<claims, cursor, start, latest>>
    BY <1>3 DEF Quiet, TypeOK, SkipPoison
  <2>2. Cared \subseteq Cared'
    <3>1. InHand \subseteq InHand' \cup poison
      BY <1>3 DEF InHand, SkipPoison, TypeOK
    <3>2. QED
      BY <1>3, <3>1 DEF Cared, NotDue, SkipPoison
  <2>3. QED
    BY <2>1, <2>2, QuietStep, CoveredFrame
<1>4. QED
  BY <1>1, <1>2, <1>3

\* Steps that move a historyId.
LEMMA CalmMoves ==
  ASSUME TypeOK, BatchInv, HistoryCovered, LetGo, RowsTrue,
         NEW t \in Threads,
         Streams(t) \/ ListHistory(t) \/ Reseed(t) \/ Commit(t)
  PROVE  HistoryCovered' /\ LetGo' /\ RowsTrue'
<1> USE DEF world, stores, locals, seen, counters
<1>1. CASE Streams(t)
  <2>1. Quiet /\ UNCHANGED claims
    BY <1>1 DEF Quiet, TypeOK, Streams, Goto
  <2>2. Cared' = Cared
    BY <1>1 DEF Cared, NotDue, InHand, Streams
  <2>3. HistoryCovered'
    BY <1>1, <2>2 DEF Streams, TypeOK, HistoryCovered, Covered, Before
  <2>4. QED
    BY <2>1, <2>3, QuietStep
<1>2. CASE ListHistory(t)
  <2>1. Quiet /\ UNCHANGED claims
    BY <1>2 DEF Quiet, TypeOK, ListHistory, Goto
  <2>2. InHand \subseteq InHand' /\ Before(head) \ Before(From(t)) \subseteq InHand'
    BY <1>2 DEF InHand, ListHistory, TypeOK, BatchInv
  <2>3. Cared \subseteq Cared'
    BY <1>2, <2>2 DEF Cared, NotDue, ListHistory
  <2>4. Before(From(t)) \subseteq Cared'
    BY <1>2, <2>3 DEF ListHistory, From, HistoryCovered, Covered, Cared, NotDue
  <2>5. Before(head) \subseteq Cared'
    BY <2>2, <2>4 DEF Cared
  <2>6. HistoryCovered'
    BY <1>2, <2>3, <2>5 DEF ListHistory, TypeOK, HistoryCovered, Covered, Before
  <2>7. QED
    BY <2>1, <2>6, QuietStep
<1>3. CASE Reseed(t)
  <2>1. Quiet /\ UNCHANGED claims
    BY <1>3 DEF Quiet, TypeOK, Reseed, Goto
  <2>2. Cared \subseteq Cared'
    BY <1>3 DEF Cared, NotDue, InHand, Reseed
  <2>3. Before(From(t)) \subseteq Cared'
    BY <1>3, <2>2 DEF Reseed, From, HistoryCovered, Covered, Cared, NotDue
  <2>4. Before(head) \subseteq Cared'
    BY <1>3, <2>3 DEF Cared, NotDue, Reseed
  <2>5. cursor' \in {cursor, head}
    BY <1>3 DEF Reseed, Ahead
  <2>6. HistoryCovered'
    BY <1>3, <2>2, <2>4, <2>5 DEF Reseed, TypeOK, HistoryCovered, Covered, Before
  <2>7. QED
    BY <2>1, <2>6, QuietStep
<1>4. CASE Commit(t)
  <2>1. Quiet /\ UNCHANGED claims
    BY <1>4 DEF Quiet, TypeOK, Commit, Goto
  <2>2. Cared' = Cared
    BY <1>4 DEF Cared, NotDue, InHand, Commit
  <2>3. cursor' \in {cursor, latest[t]}
    BY <1>4 DEF Commit, Ahead
  <2>4. HistoryCovered'
    BY <1>4, <2>2, <2>3 DEF Commit, TypeOK, HistoryCovered, Covered, Before
  <2>5. QED
    BY <2>1, <2>4, QuietStep
<1>5. QED
  BY <1>1, <1>2, <1>3, <1>4

\* The first start seeds the cursor; what is older was never due.
LEMMA CalmBoot ==
  ASSUME TypeOK, SeenInv, HistoryCovered, LetGo, RowsTrue, Boot
  PROVE  HistoryCovered' /\ LetGo' /\ RowsTrue'
<1> USE DEF world, locals, seen
<1>1. Quiet /\ UNCHANGED claims
  BY DEF Quiet, Boot
<1>2. CASE UNCHANGED <<cursor, before>>
  <2>1. Cared' = Cared
    BY <1>2 DEF Cared, NotDue, InHand, Boot
  <2>2. QED
    BY <1>1, <1>2, <2>1, QuietStep, CoveredFrame DEF Boot
<1>3. CASE cursor = 0 /\ cursor' = head /\ before' = Before(head)
  <2>1. Cared \subseteq Cared'
    BY <1>3 DEF SeenInv, Cared, NotDue, InHand, Boot
  <2>2. Before(head) \subseteq Cared'
    BY <1>3 DEF Cared, NotDue
  <2>3. HistoryCovered'
    BY <1>3, <2>1, <2>2 DEF Boot, HistoryCovered, Covered, Before
  <2>4. QED
    BY <1>1, <2>3, QuietStep
<1>4. QED
  BY <1>2, <1>3 DEF Boot

\* What the operations of the store make of a row.
LEMMA RowMeaning ==
  ASSUME NEW row \in Row
  PROVE  /\ Attempted(Claimed(row)).done = row.done
         /\ MarkedDone(row).done
         /\ ~row.done /\ Claimable(row) => Claimable([row EXCEPT !.fresh = FALSE])
         /\ [row EXCEPT !.fresh = FALSE].done = row.done
  BY DEF Row, Claimed, Attempted, MarkedDone, Claimable, ClaimableLeased, ClaimableUntimed

\* A mail is claimed, found claimed already, or settled.
LEMMA CalmMail ==
  ASSUME TypeOK, BatchInv, HistoryCovered, LetGo, RowsTrue,
         NEW t \in Threads, Claim(t) \/ Duplicate(t) \/ Settle(t)
  PROVE  HistoryCovered' /\ LetGo' /\ RowsTrue'
<1> USE DEF world, stores, locals, seen, counters
<1>1. batch[t] # {} /\ batch' = batch
  BY DEF Claim, Duplicate, Settle, BatchInv
<1>2. PICK m \in Mails : m = Current(t) /\ claims[m] \in Row
  BY <1>1, CurrentInBatch DEF TypeOK
<1>3. \A u \in Threads : Current(u)' = Current(u)
  BY <1>1 DEF Current
<1>4. CASE Claim(t)
  <2>1. Quiet /\ UNCHANGED <<cursor, start, latest, settled>>
    BY <1>4 DEF Quiet, TypeOK, Claim, Goto
  <2>2. Cared' = Cared
    BY <1>4 DEF Cared, NotDue, InHand, Claim
  <2>3. Worked(m)'
    BY <1>2, <1>3, <1>4 DEF Worked, Claim, Goto, TypeOK
  <2>4. ~claims'[m].done /\ \A n \in Mails : n # m => claims'[n] = claims[n]
    BY <1>2, <1>4, RowMeaning DEF Claim, TypeOK, Claimable, ClaimableLeased, ClaimableUntimed
  <2>5. ASSUME NEW n \in Mails
        PROVE  /\ claims'[n].done => n \in settled'
               /\ Claimable(claims[n])' \/ claims'[n].done \/ Worked(n)'
    <3>1. CASE n = m
      BY <2>3, <2>4, <3>1
    <3>2. CASE n # m
      BY <2>1, <2>4, <3>2, QuietStep DEF RowsTrue, Claimable, ClaimableLeased, ClaimableUntimed
    <3>3. QED
      BY <3>1, <3>2
  <2>6. QED
    BY <2>1, <2>2, <2>5, QuietStep, CoveredFrame DEF RowsTrue
<1>5. CASE Duplicate(t)
  <2>1. \A u \in Threads : pc[u] = "work" => pc'[u] = "work"
    BY <1>5 DEF Duplicate, Terminal, Goto, TypeOK
  <2>2. ASSUME NEW n, Worked(n) PROVE Worked(n)'
    BY <1>1, <2>1, <2>2, StaysWorked
  <2>3. Cared' = Cared /\ UNCHANGED <<cursor, start, latest, settled, claims>>
    BY <1>5 DEF Cared, NotDue, InHand, Duplicate
  <2>4. m \in settled \/ Worked(m)
    BY <1>2, <1>5 DEF Duplicate, RowsTrue
  <2>5. ASSUME NEW u \in Threads, pc'[u] \in {"commit", "skip"}
        PROVE  (Current(u) \in settled \/ Worked(Current(u)))'
    <3>1. PICK n : n = Current(u)
      OBVIOUS
    <3>2. n \in settled \/ Worked(n)
      <4>1. CASE u = t
        BY <1>2, <2>4, <3>1, <4>1
      <4>2. CASE u # t
        BY <1>5, <2>5, <3>1, <4>2 DEF LetGo, Duplicate, Terminal, Goto, TypeOK
      <4>3. QED
        BY <4>1, <4>2
    <3>3. n \in settled' \/ Worked(n)'
      BY <2>2, <2>3, <3>2
    <3>4. QED
      BY <1>3, <3>1, <3>3 DEF Worked
  <2>6. QED
    BY <2>2, <2>3, <2>5, CoveredFrame DEF LetGo, RowsTrue
<1>6. CASE Settle(t)
  <2>1. settled' = settled \cup {m} /\ UNCHANGED <<cursor, start, latest>>
    BY <1>2, <1>6 DEF Settle
  <2>2. ASSUME NEW n, n # m, Worked(n) PROVE Worked(n)'
    <3>1. \A u \in Threads : pc[u] = "work" /\ Current(u) = n => pc'[u] = "work"
      BY <1>2, <1>6, <2>2 DEF Settle, Terminal, Goto, TypeOK
    <3>2. QED
      BY <1>1, <2>2, <3>1, StaysWorked
  <2>3. Cared \subseteq Cared'
    BY <1>6 DEF Cared, NotDue, InHand, Settle
  <2>4. ASSUME NEW u \in Threads, pc'[u] \in {"commit", "skip"}
        PROVE  (Current(u) \in settled \/ Worked(Current(u)))'
    <3>1. PICK n : n = Current(u)
      OBVIOUS
    <3>2. n \in settled' \/ Worked(n)'
      <4>1. CASE u = t
        BY <1>2, <2>1, <3>1, <4>1
      <4>2. CASE u # t
        BY <1>6, <2>1, <2>2, <2>4, <3>1, <4>2 DEF LetGo, Settle, Terminal, Goto, TypeOK
      <4>3. QED
        BY <4>1, <4>2
    <3>3. QED
      BY <1>3, <3>1, <3>2 DEF Worked
  <2>5. claims'[m].done /\ \A n \in Mails : n # m => claims'[n] = claims[n]
    BY <1>2, <1>6, RowMeaning DEF Settle, TypeOK
  <2>6. ASSUME NEW n \in Mails
        PROVE  /\ claims'[n].done => n \in settled'
               /\ Claimable(claims[n])' \/ claims'[n].done \/ Worked(n)'
    <3>1. CASE n = m
      BY <2>1, <2>5, <3>1
    <3>2. CASE n # m
      <4>1. claims'[n] = claims[n]
        BY <2>5, <3>2
      <4>2. claims[n].done => n \in settled'
        BY <2>1 DEF RowsTrue
      <4>3. Claimable(claims[n]) \/ claims[n].done \/ Worked(n)'
        BY <2>2, <3>2 DEF RowsTrue
      <4>4. QED
        BY <4>1, <4>2, <4>3 DEF Claimable, ClaimableLeased, ClaimableUntimed
    <3>3. QED
      BY <3>1, <3>2
  <2>7. QED
    BY <2>1, <2>3, <2>4, <2>6, CoveredFrame DEF LetGo, RowsTrue
<1>7. QED
  BY <1>4, <1>5, <1>6

\* A run lets go of the mail it dealt with: whoever works on it has it in his own batch.
LEMMA CalmAdvance ==
  ASSUME TypeOK, BatchInv, HistoryCovered, LetGo, RowsTrue, NEW t \in Threads, Advance(t)
  PROVE  HistoryCovered' /\ LetGo' /\ RowsTrue'
<1> USE DEF stores, seen
<1>1. Quiet /\ UNCHANGED <<claims, cursor, start, latest>>
  BY DEF Quiet, TypeOK, Advance, Goto
<1>2. Current(t) \in settled \/ Current(t) \in InHand'
  <2>1. ASSUME NEW u \in Threads, pc[u] = "work", Current(u) = Current(t)
        PROVE  Current(t) \in InHand'
    <3>1. Current(u) \in batch[u]
      BY <2>1, CurrentInBatch DEF BatchInv
    <3>2. batch'[u] = batch[u]
      BY <2>1 DEF Advance, TypeOK
    <3>3. Current(u) \in InHand'
      BY <3>1, <3>2 DEF InHand
    <3>4. QED
      BY <2>1, <3>3
  <2>2. QED
    BY <2>1 DEF Advance, LetGo, Worked
<1>3. InHand \subseteq InHand' \cup {Current(t)}
  BY DEF InHand, Advance, TypeOK
<1>4. Cared \subseteq Cared'
  BY <1>2, <1>3 DEF Cared, NotDue, Advance, world
<1>5. QED
  BY <1>1, <1>4, QuietStep, CoveredFrame

\* A lease runs out only of a claim that nobody works under.
LEMMA CalmLease ==
  ASSUME TypeOK, BatchInv, HistoryCovered, LetGo, RowsTrue, NEW m \in Mails, LeaseElapses(m)
  PROVE  HistoryCovered' /\ LetGo' /\ RowsTrue'
<1> USE DEF world, locals, seen, LeaseElapses
<1>1. Quiet
  BY DEF Quiet
<1>2. UNCHANGED <<cursor, start, latest, settled>> /\ Cared' = Cared
  BY DEF Cared, NotDue, InHand
<1>3. ~Worked(m) /\ ~claims[m].done
  BY DEF Worked, BatchInv
<1>4. claims'[m] = [claims[m] EXCEPT !.fresh = FALSE] /\ claims[m] \in Row
  BY DEF TypeOK
<1>5. Claimable(claims'[m]) /\ ~claims'[m].done
  BY <1>3, <1>4, RowMeaning DEF RowsTrue
<1>6. \A n \in Mails : n # m => claims'[n] = claims[n]
  BY DEF TypeOK
<1>7. ASSUME NEW n \in Mails
      PROVE  /\ claims'[n].done => n \in settled'
             /\ Claimable(claims[n])' \/ claims'[n].done \/ Worked(n)'
  <2>1. CASE n = m
    BY <1>5, <2>1 DEF Claimable, ClaimableLeased, ClaimableUntimed
  <2>2. CASE n # m
    BY <1>1, <1>2, <1>6, <2>2, QuietStep DEF RowsTrue, Claimable, ClaimableLeased,
       ClaimableUntimed
  <2>3. QED
    BY <2>1, <2>2
<1>8. QED
  BY <1>1, <1>2, <1>7, QuietStep, CoveredFrame DEF RowsTrue

\* Every step keeps what holds while nothing fails.
LEMMA CalmNext ==
  TypeOK /\ BatchInv /\ SeenInv /\ CalmInv /\ [Next]_vars => CalmInv'
<1> SUFFICES ASSUME TypeOK, BatchInv, SeenInv, CalmInv, [Next]_vars, Calm'
             PROVE  HistoryCovered' /\ LetGo' /\ RowsTrue'
  BY DEF CalmInv
<1>1. HistoryCovered /\ LetGo /\ RowsTrue
  BY CalmBefore DEF CalmInv
<1>2. ASSUME NEW t \in Threads, Step(t) \/ Fault(t)
      PROVE  HistoryCovered' /\ LetGo' /\ RowsTrue'
  BY <1>1, <1>2, CalmBefore, CalmQuiet, CalmMoves, CalmMail, CalmAdvance DEF Step, Fault
<1>3. CASE UNCHANGED vars
  BY <1>1, <1>3 DEF HistoryCovered, LetGo, RowsTrue, Covered, Cared, NotDue, InHand, Before,
     Worked, Current, Claimable, ClaimableLeased, ClaimableUntimed, vars, world, stores,
     locals, seen
<1>4. CASE Arrive
  <2>1. Quiet /\ Cared' = Cared /\ UNCHANGED <<claims, cursor, start, latest>>
    BY <1>4 DEF Quiet, Cared, NotDue, InHand, Arrive, stores, locals, seen
  <2>2. QED
    BY <1>1, <2>1, QuietStep, CoveredFrame
<1>5. CASE Boot
  BY <1>1, <1>5, CalmBoot
<1>6. QED
  BY <1>1, <1>2, <1>3, <1>4, <1>5, CalmBefore, CalmLease DEF Next

\* At rest nothing behind the cursor is unsettled, unless a call failed or the process
\* died: overlapping runs, their duplicates of each other's claims, early pops of the
\* watermark, lost notifications and stale historyIds included (provider.py 75-77).
THEOREM NothingIsLeftBehind == Spec => []SettledAtRest
<1>1. Init => CalmInv
  BY DEF Init, CalmInv, HistoryCovered, LetGo, RowsTrue, Covered, Before, Mails, NoRow,
     Claimable, ClaimableLeased, ClaimableUntimed
<1>2. TypeOK /\ BatchInv /\ SeenInv /\ CalmInv /\ [Next]_vars => CalmInv'
  BY CalmNext
<1>3. TypeOK /\ BatchInv /\ CalmInv => SettledAtRest
  BY DEF BatchInv, CalmInv, Calm, SettledAtRest, UnreadStaysAhead, AtRest, HistoryCovered,
     Covered, Cared, InHand
<1>4. QED
  BY <1>1, <1>2, <1>3, TypeCorrect, HistoryIsSeen, PTL DEF Spec

============================================================================
