------------------------------ MODULE Pipeline ------------------------------
(***************************************************************************)
(* The orchestrator, core/pipeline.py: workers call run_once() over one    *)
(* stream of a mailbox and share a cursor store, a dedupe store, an        *)
(* emitter and a dead-letter queue.                                        *)
(*                                                                         *)
(* Every call to a shared store or to an emitter is a step of its own, so  *)
(* other workers, a crash, an exception or the end of a lease can fall     *)
(* between any two of them.  What a run keeps to itself (pos, blocked,     *)
(* tries, retried, rep) dies with the run.                                 *)
(*                                                                         *)
(* The message's data is abstracted: it has a reported size and a place in *)
(* the stream; parsing, filtering, classifying and extracting it is a      *)
(* choice among the results they can have.                                 *)
(***************************************************************************)
EXTENDS Integers, FiniteSets, DedupeStore

CONSTANTS
  Workers,          \* threads or processes that call run_once
  NumMessages,      \* the stream holds messages 1..NumMessages, in cursor order
  Size,             \* reported size of each message, 0 when unknown
  MaxMessageBytes,  \* PipelineConfig.max_message_bytes
  MaxAttempts,      \* PipelineConfig.max_attempts
  OnFiltered,       \* PipelineConfig.on_filtered
  HasDlqStore,      \* is a durable dead-letter store configured
  LeaseOutlastsWork,\* TRUE: no worker is slower than claim_lease_seconds
  RestartAfterLease,\* TRUE: a run starts only when interrupted runs' leases are over
  Faults,           \* the kinds of fault the environment may inject
  RaiseAt,          \* the calls that may raise out of run_once
  MaxFaults,        \* bound on the number of faults
  MaxPurges         \* bound on the number of purged rows

Messages == 1 .. NumMessages

\* What the body of _do_work can raise, by the handler that catches it: any other
\* exception is handled as a TransientError.
Errors == {"permanent", "auth", "transient"}

\* Calls outside _do_work's try: an exception there leaves run_once.
RaisePoints == {"fetch", "claim", "attempt", "refresh", "release",
                "dlqEmit", "dlqPut", "dlqMark", "commit"}

FaultKinds == {"crash", "raise", "emit", "mark"}

ASSUME PipelineAssumption ==
  /\ NumMessages \in Nat
  /\ Size \in [Messages -> Int]
  /\ MaxMessageBytes \in Nat
  /\ MaxAttempts \in Nat
  /\ OnFiltered \in {"tag", "drop"}
  /\ HasDlqStore \in BOOLEAN
  /\ LeaseOutlastsWork \in BOOLEAN
  /\ RestartAfterLease \in BOOLEAN
  /\ Faults \subseteq FaultKinds
  /\ RaiseAt \subseteq RaisePoints
  /\ MaxFaults \in Nat
  /\ MaxPurges \in Nat

VARIABLES
  \* shared, durable
  claims,     \* dedupe store: one row per message
  cursor,     \* cursor store: order of the committed cursor, 0 before the first
  dlq,        \* dead-letter store: messages with a record
  \* what the outside has seen
  emits,      \* number of events the emitter delivered for each message
  dropped,    \* messages settled as dropped by a filter (on_filtered = "drop")
  dlqEvents,  \* messages whose stub event reached the dlq emitter
  \* local to each worker's run
  pc, pos, blocked, tries, retried, rep,
  \* history: no step reads these
  leaseLive,  \* the worker's claim is younger than lease_seconds
  skipped,    \* messages counted `duplicate` while nobody had finished them
  attempted,  \* number of attempts really made at each message
  faults, purges

stores  == <<claims, cursor, dlq>>
outputs == <<emits, dropped, dlqEvents>>
locals  == <<pc, pos, blocked, tries, retried, rep>>
history == <<leaseLive, skipped, attempted, faults, purges>>
vars    == <<stores, outputs, locals, history>>

----------------------------------------------------------------------------
(* The run's report and the states of a worker.                            *)

Report == [fetched: Nat, emitted: Nat, dropped: Nat, duplicates: Nat,
           dead_lettered: Nat]

EmptyReport == [fetched |-> 0, emitted |-> 0, dropped |-> 0, duplicates |-> 0,
                dead_lettered |-> 0]

Terminals(r) == r.emitted + r.dropped + r.duplicates + r.dead_lettered

AllTerminal(r) == r.fetched <= Terminals(r)

\* Between try_claim and mark_done or release.
Holding == {"attempt", "work", "emit", "markEmitted", "markDropped", "refresh",
            "release", "dlqEmit", "dlqPut", "dlqMark"}

PCs == Holding \cup {"idle", "fetch", "claim", "commit", "report"}

SizeOK(m) == 0 < Size[m] /\ Size[m] <= MaxMessageBytes

DeadLettered(m) == m \in dlqEvents /\ (HasDlqStore => m \in dlq)

\* The message reached an outcome somebody outside can see.
Disposed(m) == emits[m] > 0 \/ m \in dropped \/ DeadLettered(m)

Init ==
  /\ claims = [m \in Messages |-> NoRow]
  /\ cursor = 0
  /\ dlq = {} /\ dlqEvents = {} /\ dropped = {} /\ skipped = {}
  /\ emits = [m \in Messages |-> 0]
  /\ attempted = [m \in Messages |-> 0]
  /\ pc = [w \in Workers |-> "idle"]
  /\ pos = [w \in Workers |-> 0]
  /\ blocked = [w \in Workers |-> FALSE]
  /\ tries = [w \in Workers |-> 0]
  /\ retried = [w \in Workers |-> FALSE]
  /\ rep = [w \in Workers |-> EmptyReport]
  /\ leaseLive = [w \in Workers |-> FALSE]
  /\ faults = 0 /\ purges = 0

----------------------------------------------------------------------------
(* Moves a handler ends with.                                              *)

Goto(w, label) == pc' = [pc EXCEPT ![w] = label]

SetClaim(w, row) == claims' = [claims EXCEPT ![pos[w]] = row]

\* The loop of _run_stream after a terminal disposition: commit unless blocked.
AfterTerminal(w) == IF blocked[w] THEN "fetch" ELSE "commit"

\* The message is finished with in this run.
Settle(w, label) ==
  /\ Goto(w, label)
  /\ tries' = [tries EXCEPT ![w] = 0]
  /\ retried' = [retried EXCEPT ![w] = FALSE]
  /\ leaseLive' = [leaseLive EXCEPT ![w] = FALSE]

\* The run ends and everything it knew is gone; the shared stores stay.
EndOfRun(w) ==
  /\ Settle(w, "idle")
  /\ pos' = [pos EXCEPT ![w] = 0]
  /\ blocked' = [blocked EXCEPT ![w] = FALSE]
  /\ rep' = [rep EXCEPT ![w] = EmptyReport]

\* Where an exception raised by _do_work leads.
HandlerOfRetryingForever(w, e) ==
  IF e = "auth" THEN "refresh" ELSE IF e = "permanent" THEN "dlqEmit" ELSE "release"

HandlerOf(w, e) ==
  IF retried[w] THEN "dlqEmit"                       \* _handle_auth_error: one shot
  ELSE CASE e = "permanent" -> "dlqEmit"
         [] e = "auth"      -> "refresh"
         [] e = "transient" -> IF tries[w] >= MaxAttempts THEN "dlqEmit" ELSE "release"

----------------------------------------------------------------------------
(* run_once and _run_stream.                                               *)

\* A claim left behind by an interrupted run, within its lease.
Orphaned(m) == claims[m].claimed /\ ~claims[m].done /\ claims[m].fresh

\* run_once: a fresh report; _run_stream reads the cursor before it fetches.
StartRun(w) ==
  /\ pc[w] = "idle"
  /\ RestartAfterLease => \A m \in Messages : ~Orphaned(m)
  /\ Goto(w, "fetch")
  /\ pos' = [pos EXCEPT ![w] = cursor]
  /\ UNCHANGED <<stores, outputs, blocked, tries, retried, rep, history>>

FetchPastTheEnd(w) ==
  /\ pc[w] = "fetch"
  /\ pos[w] <= NumMessages
  /\ pos' = [pos EXCEPT ![w] = @ + 1]
  /\ rep' = [rep EXCEPT ![w].fetched = @ + 1]
  /\ Goto(w, "claim")
  /\ UNCHANGED <<stores, outputs, blocked, tries, retried, history>>

\* The next message the provider yields.
FetchMessage(w) ==
  /\ pc[w] = "fetch"
  /\ pos[w] < NumMessages
  /\ pos' = [pos EXCEPT ![w] = @ + 1]
  /\ rep' = [rep EXCEPT ![w].fetched = @ + 1]
  /\ Goto(w, "claim")
  /\ UNCHANGED <<stores, outputs, blocked, tries, retried, history>>

FetchExhausted(w) ==
  /\ pc[w] = "fetch"
  /\ pos[w] = NumMessages
  /\ Goto(w, "report")
  /\ UNCHANGED <<stores, outputs, pos, blocked, tries, retried, rep, history>>

\* run_once returns its report; the caller may call it again later.
ReturnReport(w) ==
  /\ pc[w] = "report"
  /\ EndOfRun(w)
  /\ UNCHANGED <<stores, outputs, skipped, attempted, faults, purges>>

\* commit_if_ahead: one atomic compare-and-set, forward only.
Commit(w) ==
  /\ pc[w] = "commit"
  /\ cursor' = IF pos[w] <= cursor THEN cursor ELSE pos[w]
  /\ Goto(w, "fetch")
  /\ UNCHANGED <<claims, dlq, outputs, pos, blocked, tries, retried, rep, history>>

----------------------------------------------------------------------------
(* _process: claim, count the attempt, guard the size, do the work.        *)

Claim(w) ==
  /\ pc[w] = "claim"
  /\ Claimable(claims[pos[w]])
  /\ SetClaim(w, Claimed(claims[pos[w]]))
  /\ leaseLive' = [leaseLive EXCEPT ![w] = TRUE]
  /\ Goto(w, "attempt")
  /\ UNCHANGED <<cursor, dlq, outputs, pos, blocked, tries, retried, rep,
                 skipped, attempted, faults, purges>>

DuplicateBlocking(w) ==
  /\ pc[w] = "claim"
  /\ ~Claimable(claims[pos[w]])
  /\ rep' = [rep EXCEPT ![w].duplicates = @ + 1]
  /\ skipped' = IF claims[pos[w]].done THEN skipped ELSE skipped \cup {pos[w]}
  /\ blocked' = [blocked EXCEPT ![w] = TRUE]
  /\ Settle(w, "fetch")
  /\ UNCHANGED <<stores, outputs, pos, attempted, faults, purges>>

\* A claim that is refused is a terminal disposition, whoever holds the message.
Duplicate(w) ==
  /\ pc[w] = "claim"
  /\ ~Claimable(claims[pos[w]])
  /\ rep' = [rep EXCEPT ![w].duplicates = @ + 1]
  /\ skipped' = IF claims[pos[w]].done THEN skipped ELSE skipped \cup {pos[w]}
  /\ Settle(w, AfterTerminal(w))
  /\ UNCHANGED <<stores, outputs, pos, blocked, attempted, faults, purges>>

\* record_attempt, then the size guard before any byte is decoded.
RecordAttempt(w) ==
  /\ pc[w] = "attempt"
  /\ SetClaim(w, Attempted(claims[pos[w]]))
  /\ tries' = [tries EXCEPT ![w] = Attempted(claims[pos[w]]).attempts]
  /\ attempted' = [attempted EXCEPT ![pos[w]] = @ + 1]
  /\ Goto(w, IF SizeOK(pos[w]) THEN "work" ELSE "dlqEmit")
  /\ UNCHANGED <<cursor, dlq, outputs, pos, blocked, retried, rep,
                 leaseLive, skipped, faults, purges>>

ExtractMarkingFirst(w) ==
  /\ pc[w] = "work"
  /\ SetClaim(w, MarkedDone(claims[pos[w]]))
  /\ Goto(w, "emit")
  /\ UNCHANGED <<cursor, dlq, outputs, pos, blocked, tries, retried, rep, history>>

\* parse, filter, classify, extract, clean: the message is to be delivered (kept,
\* uncertain, or matched and tagged).
Extract(w) ==
  /\ pc[w] = "work"
  /\ Goto(w, "emit")
  /\ UNCHANGED <<stores, outputs, pos, blocked, tries, retried, rep, history>>

\* A filter matched and matched mail is not delivered.
FilterDrop(w) ==
  /\ pc[w] = "work"
  /\ OnFiltered = "drop"
  /\ Goto(w, "markDropped")
  /\ UNCHANGED <<stores, outputs, pos, blocked, tries, retried, rep, history>>

Emit(w) ==
  /\ pc[w] = "emit"
  /\ emits' = [emits EXCEPT ![pos[w]] = @ + 1]
  /\ Goto(w, "markEmitted")
  /\ UNCHANGED <<stores, dropped, dlqEvents, pos, blocked, tries, retried, rep, history>>

\* _do_work raises before anything left the process.
WorkRaises(w) ==
  /\ pc[w] \in {"work", "emit"}
  /\ \E e \in Errors : Goto(w, HandlerOf(w, e))
  /\ UNCHANGED <<stores, outputs, pos, blocked, tries, retried, rep, history>>

\* The emitter raises although the event was delivered (an acknowledgement is lost).
EmitUnacknowledged(w) ==
  /\ pc[w] = "emit"
  /\ "emit" \in Faults /\ faults < MaxFaults
  /\ faults' = faults + 1
  /\ emits' = [emits EXCEPT ![pos[w]] = @ + 1]
  /\ \E e \in Errors : Goto(w, HandlerOf(w, e))
  /\ UNCHANGED <<stores, dropped, dlqEvents, pos, blocked, tries, retried, rep,
                 leaseLive, skipped, attempted, purges>>

\* mark_done raises inside _do_work's try: handled like any failure of the work.
MarkRaises(w) ==
  /\ pc[w] \in {"markEmitted", "markDropped"}
  /\ "mark" \in Faults /\ faults < MaxFaults
  /\ faults' = faults + 1
  /\ Goto(w, HandlerOf(w, "transient"))
  /\ UNCHANGED <<stores, outputs, pos, blocked, tries, retried, rep,
                 leaseLive, skipped, attempted, purges>>

MarkEmitted(w) ==
  /\ pc[w] = "markEmitted"
  /\ SetClaim(w, MarkedDone(claims[pos[w]]))
  /\ rep' = [rep EXCEPT ![w].emitted = @ + 1]
  /\ Settle(w, AfterTerminal(w))
  /\ UNCHANGED <<cursor, dlq, outputs, pos, blocked, skipped, attempted, faults, purges>>

\* A drop has no other trace than the row and the report: it happens here.
MarkDropped(w) ==
  /\ pc[w] = "markDropped"
  /\ SetClaim(w, MarkedDone(claims[pos[w]]))
  /\ dropped' = dropped \cup {pos[w]}
  /\ rep' = [rep EXCEPT ![w].dropped = @ + 1]
  /\ Settle(w, AfterTerminal(w))
  /\ UNCHANGED <<cursor, dlq, emits, dlqEvents, pos, blocked, skipped, attempted,
                 faults, purges>>

----------------------------------------------------------------------------
(* The failure paths: _handle_auth_error, _retry_or_dead_letter,           *)
(* _dead_letter.                                                           *)

\* force_refresh, then the body once more.
Refresh(w) ==
  /\ pc[w] = "refresh"
  /\ retried' = [retried EXCEPT ![w] = TRUE]
  /\ Goto(w, "work")
  /\ UNCHANGED <<stores, outputs, pos, blocked, tries, rep, history>>

ReleaseUnblocked(w) ==
  /\ pc[w] = "release"
  /\ SetClaim(w, Released(claims[pos[w]]))
  /\ Settle(w, "fetch")
  /\ UNCHANGED <<cursor, dlq, outputs, pos, blocked, rep, skipped, attempted, faults, purges>>

ReleaseCountedTerminal(w) ==
  /\ pc[w] = "release"
  /\ SetClaim(w, Released(claims[pos[w]]))
  /\ blocked' = [blocked EXCEPT ![w] = TRUE]
  /\ rep' = [rep EXCEPT ![w].dropped = @ + 1]
  /\ Settle(w, "fetch")
  /\ UNCHANGED <<cursor, dlq, outputs, pos, skipped, attempted, faults, purges>>

\* The claim is freed for a later run, and the cursor is held for the rest of this one.
Release(w) ==
  /\ pc[w] = "release"
  /\ SetClaim(w, Released(claims[pos[w]]))
  /\ blocked' = [blocked EXCEPT ![w] = TRUE]
  /\ Settle(w, "fetch")
  /\ UNCHANGED <<cursor, dlq, outputs, pos, rep, skipped, attempted, faults, purges>>

DlqEmit(w) ==
  /\ pc[w] = "dlqEmit"
  /\ dlqEvents' = dlqEvents \cup {pos[w]}
  /\ Goto(w, IF HasDlqStore THEN "dlqPut" ELSE "dlqMark")
  /\ UNCHANGED <<stores, emits, dropped, pos, blocked, tries, retried, rep, history>>

\* put is keyed by the idempotency key: a second record replaces the first.
DlqPut(w) ==
  /\ pc[w] = "dlqPut"
  /\ dlq' = dlq \cup {pos[w]}
  /\ Goto(w, "dlqMark")
  /\ UNCHANGED <<claims, cursor, outputs, pos, blocked, tries, retried, rep, history>>

DlqMark(w) ==
  /\ pc[w] = "dlqMark"
  /\ SetClaim(w, MarkedDone(claims[pos[w]]))
  /\ rep' = [rep EXCEPT ![w].dead_lettered = @ + 1]
  /\ Settle(w, AfterTerminal(w))
  /\ UNCHANGED <<cursor, dlq, outputs, pos, blocked, skipped, attempted, faults, purges>>

----------------------------------------------------------------------------
(* The environment.                                                        *)

\* A call outside _do_work's try raises: the exception leaves run_once.
Raise(w) ==
  /\ pc[w] \in RaiseAt
  /\ "raise" \in Faults /\ faults < MaxFaults
  /\ faults' = faults + 1
  /\ EndOfRun(w)
  /\ UNCHANGED <<stores, outputs, skipped, attempted, purges>>

\* The worker's process dies and is started again over stores that survive it.
Crash(w) ==
  /\ pc[w] # "idle"
  /\ "crash" \in Faults /\ faults < MaxFaults
  /\ faults' = faults + 1
  /\ EndOfRun(w)
  /\ UNCHANGED <<stores, outputs, skipped, attempted, purges>>

\* lease_seconds pass since the last claim of m was stamped.
LeaseElapses(m) ==
  /\ HasLease
  /\ claims[m].fresh
  /\ LeaseOutlastsWork => \A w \in Workers : ~(pc[w] \in Holding /\ pos[w] = m)
  /\ claims' = [claims EXCEPT ![m].fresh = FALSE]
  /\ leaseLive' = [w \in Workers |-> IF pos[w] = m THEN FALSE ELSE leaseLive[w]]
  /\ UNCHANGED <<cursor, dlq, outputs, locals, skipped, attempted, faults, purges>>

\* purge_expired, once done_ttl_seconds have passed.
Purge(m) ==
  /\ purges < MaxPurges
  /\ Purgeable(claims[m])
  /\ purges' = purges + 1
  /\ claims' = [claims EXCEPT ![m] = Purged(claims[m])]
  /\ UNCHANGED <<cursor, dlq, outputs, locals, leaseLive, skipped, attempted, faults>>

----------------------------------------------------------------------------
RunLoop(w) ==
  \/ StartRun(w) \/ FetchMessage(w) \/ FetchExhausted(w) \/ ReturnReport(w)
  \/ Commit(w)

Process(w) ==
  \/ Claim(w) \/ Duplicate(w) \/ RecordAttempt(w)
  \/ Extract(w) \/ FilterDrop(w) \/ Emit(w) \/ WorkRaises(w)
  \/ MarkEmitted(w) \/ MarkDropped(w)
  \/ Refresh(w) \/ Release(w) \/ DlqEmit(w) \/ DlqPut(w) \/ DlqMark(w)

Step(w) == RunLoop(w) \/ Process(w)

Fault(w) == EmitUnacknowledged(w) \/ MarkRaises(w) \/ Raise(w) \/ Crash(w)

Next ==
  \/ \E w \in Workers : Step(w) \/ Fault(w)
  \/ \E m \in Messages : LeaseElapses(m) \/ Purge(m)

Spec == Init /\ [][Next]_vars

\* run_once is called again and again (cron, a poll loop), each call goes on until it
\* returns or raises, and time passes.
Fairness ==
  /\ \A w \in Workers : WF_vars(Step(w))
  /\ \A m \in Messages : WF_vars(LeaseElapses(m))

FairSpec == Spec /\ Fairness

----------------------------------------------------------------------------
(* Properties.                                                             *)

\* Every variable has its type; pos never leaves the stream.
TypeOK ==
  /\ claims \in [Messages -> Row]
  /\ cursor \in 0 .. NumMessages
  /\ dlq \subseteq Messages /\ dlqEvents \subseteq Messages
  /\ dropped \subseteq Messages /\ skipped \subseteq Messages
  /\ emits \in [Messages -> Nat] /\ attempted \in [Messages -> Nat]
  /\ pc \in [Workers -> PCs]
  /\ pos \in [Workers -> 0 .. NumMessages]
  /\ \A w \in Workers : pc[w] \in Holding \cup {"claim", "commit"} => pos[w] \in Messages
  /\ blocked \in [Workers -> BOOLEAN]
  /\ tries \in [Workers -> Nat]
  /\ retried \in [Workers -> BOOLEAN]
  /\ rep \in [Workers -> Report]
  /\ leaseLive \in [Workers -> BOOLEAN]
  /\ faults \in Nat /\ purges \in Nat

\* A row says done only after the outside has seen an outcome (emitted, dropped, or
\* dead-lettered in every configured sink): mark_done is irreversible, so a crash or an
\* exception at any point must not leave it set without one (pipeline.py 273-274,
\* 341-360).
DoneImpliesDisposed == \A m \in Messages : claims[m].done => Disposed(m)

\* The only way the cursor passes a message without an outcome is the `duplicate`
\* verdict on a row claimed by somebody who had not finished: neither a transient
\* failure, nor the rest of its batch, nor any crash or exception does it (157-171,
\* 184-186).
CursorCoversFinished == \A m \in 1 .. cursor : Disposed(m) \/ m \in skipped

\* The low-water mark of 163-167: the cursor never passes a message without an outcome.
LowWaterMark == \A m \in 1 .. cursor : Disposed(m)

\* While lease_seconds have not passed since its try_claim succeeded, a worker is the
\* only one processing the message (claim before any spend, 183-184).
ClaimExclusive ==
  \A v, w \in Workers :
    v # w /\ leaseLive[v] /\ leaseLive[w] => pos[v] # pos[w]

\* The attempts counter outlives runs, claims and workers: a message is attempted at
\* most max_attempts times, plus one attempt for each crash or exception that kept a run
\* from looking at the counter (REL-3; memory.py 50-57, pipeline.py 307).
RetriesBounded == \A m \in Messages : attempted[m] <= MaxAttempts + faults

\* The outcomes of a message, repeated deliveries counted.
OutcomeCount(m) ==
  emits[m] + (IF m \in dropped THEN 1 ELSE 0) + (IF m \in dlqEvents THEN 1 ELSE 0)

\* A message gets one outcome, and one more at most for each fault: without a fault it
\* is never delivered twice, nor both delivered and dead-lettered, however many
\* workers, retries and refreshes there are.
OutcomesPaidFor == \A m \in Messages : OutcomeCount(m) <= 1 + faults

\* all_terminal() is what a transport acknowledges an event on (REL-8): when it is true
\* of a finished run, the cursor covers everything that run fetched.
AllTerminalSound ==
  \A w \in Workers : pc[w] = "report" /\ AllTerminal(rep[w]) => pos[w] <= cursor

\* Nothing is lost: every message of the stream reaches an outcome, also one whose
\* dead-lettering was begun when put() raised (349-352).
EventuallyDisposed == \A m \in Messages : <>Disposed(m)

\* A failing message never holds the stream forever: retries end in the DLQ and the
\* cursor moves past it.
CursorCatchesUp == <>(cursor = NumMessages)

\* The exactly-one-outcome contract, for one worker and no faults.
Contract == INSTANCE DeliveryContract WITH
  outcome  <- [m \in Messages |-> IF emits[m] > 0 THEN "emitted"
                                 ELSE IF m \in dropped THEN "dropped"
                                 ELSE IF DeadLettered(m) THEN "dead_lettered"
                                 ELSE "pending"],
  bookmark <- cursor

\* The pipeline implements it: outcomes are final and the bookmark moves only over them.
ImplementsContract == Contract!Spec

----------------------------------------------------------------------------
(* The inductive strengthening of DoneImpliesDisposed, CursorCoversFinished *)
(* and AllTerminalSound.                                                    *)

\* Done with, or refused as a duplicate of somebody's unfinished work.
Finished(m) == Disposed(m) \/ m \in skipped

\* What has been put out for the message in hand, by the call the worker is about to make.
InHand(w) ==
  /\ pc[w] = "markEmitted" => emits[pos[w]] > 0
  /\ pc[w] = "dlqPut"      => pos[w] \in dlqEvents
  /\ pc[w] = "dlqMark"     => DeadLettered(pos[w])

\* Until a run is blocked, everything before the message in hand is finished with.
PrefixFinished(w) ==
  /\ pc[w] = "commit" => ~blocked[w]
  /\ ~blocked[w] => \A m \in 1 .. pos[w] :
       Finished(m) \/ (m = pos[w] /\ pc[w] \in Holding \cup {"claim"})

\* The report owes one for the message in hand and at least one once blocked; an
\* unblocked run has committed everything behind it.
ReportOwes(w) ==
  /\ Terminals(rep[w]) + (IF pc[w] \in Holding \cup {"claim"} THEN 1 ELSE 0)
       + (IF blocked[w] THEN 1 ELSE 0) <= rep[w].fetched
  /\ pc[w] \in {"fetch", "report"} /\ ~blocked[w] => pos[w] <= cursor

InductiveInv ==
  /\ TypeOK
  /\ DoneImpliesDisposed
  /\ CursorCoversFinished
  /\ \A w \in Workers : InHand(w) /\ PrefixFinished(w) /\ ReportOwes(w)

----------------------------------------------------------------------------
(* The strengthening of ClaimExclusive, RetriesBounded and OutcomesPaidFor: *)
(* it is inductive where no worker outlives its lease and no row is purged. *)

\* Who holds a message has its row claimed, within the lease, and holds it alone.
HoldsAlone(w) ==
  /\ leaseLive[w] => pc[w] \in Holding
  /\ pc[w] \in Holding =>
       /\ claims[pos[w]].claimed /\ ~claims[pos[w]].done
       /\ HasLease => claims[pos[w]].fresh
       /\ \A v \in Workers \ {w} : pc[v] \in Holding => pos[v] # pos[w]

ClaimsInv == \A w \in Workers : HoldsAlone(w)

\* A holder that has counted its attempt knows the count, and releases only below the limit.
KnowsCount(w) ==
  /\ pc[w] \in Holding \ {"attempt"} => tries[w] = claims[pos[w]].attempts
  /\ pc[w] = "release" => tries[w] < MaxAttempts

\* Somebody works on m and has counted the attempt.
UnderWay(m) == \E w \in Workers : pos[w] = m /\ pc[w] \in Holding \ {"attempt"}

\* A message that may be attempted again is below the limit.
Budgeted(m) ==
  /\ claims[m].attempts = attempted[m]
  /\ attempted[m] <= MaxAttempts + faults
  /\ claims[m].done \/ UnderWay(m) \/ attempted[m] < MaxAttempts + faults

RetriesInv == (\A w \in Workers : KnowsCount(w)) /\ (\A m \in Messages : Budgeted(m))

\* An outcome of m is out, and mark_done is still to come.
OutcomeOut(m) ==
  \E w \in Workers : pos[w] = m /\ pc[w] \in {"markEmitted", "dlqPut", "dlqMark"}

\* Beyond what faults account for, an outcome is recorded or about to be.
Accounted(m) ==
  OutcomeCount(m) <= faults + (IF claims[m].done \/ OutcomeOut(m) THEN 1 ELSE 0)

OutcomesInv == \A m \in Messages : Accounted(m)

----------------------------------------------------------------------------
(* The strengthening of LowWaterMark, inductive for a sole worker that does *)
(* not restart before an interrupted run's lease is over, or never fails.   *)

\* Nobody refuses a message for a claim left behind: there is none ahead of a run.
NoOrphans ==
  /\ skipped = {}
  /\ \A m \in Messages : ~HasLease /\ claims[m].claimed => claims[m].fresh
  /\ \A w \in Workers : pc[w] # "idle" \/ ~RestartAfterLease =>
       \A m \in Messages : Orphaned(m) => pos[w] = m /\ pc[w] \in Holding

============================================================================
