----------------------------- MODULE GmailIngest -----------------------------
(***************************************************************************)
(* Live Gmail ingestion of one mailbox (adapters/gmail): Pub/Sub           *)
(* notifications arrive on callback threads, a sweep thread polls, and all *)
(* of them run the same pipeline over the same provider.                   *)
(*                                                                         *)
(* A notification only says how far the mailbox's history has come.  Every *)
(* run diffs the history from the stored cursor, and all the messages of   *)
(* one diff carry the same cursor: the end of the diff.  What happens to   *)
(* one message is told in full by Pipeline; here it is claimed, and then   *)
(* settled or released.                                                    *)
(*                                                                         *)
(* Mail m is the change that takes the mailbox's historyId from m to m+1.  *)
(***************************************************************************)
EXTENDS Naturals, FiniteSets, DedupeStore

CONSTANTS
  Callbacks,      \* Pub/Sub callback threads
  Sweepers,       \* the sweep thread, if sweep_seconds > 0
  NumMails,       \* mails 1..NumMails arrive
  StartWatch,     \* the values run_service(start_watch) is called with: TRUE seeds the first cursor
  Poisonable,     \* mails whose raw body may be gone or may not decode
  MaxAttempts,    \* PipelineConfig.max_attempts
  MaxFaults       \* bound on transient failures, crashes, lost notifications and stale
                  \* historyIds together

Threads == Callbacks \cup Sweepers
Mails == 1 .. NumMails
HistoryIds == 1 .. NumMails + 1

ASSUME GmailAssumption ==
  /\ Callbacks \cap Sweepers = {}
  /\ NumMails \in Nat
  /\ StartWatch \subseteq BOOLEAN
  /\ Poisonable \subseteq Mails
  /\ MaxAttempts \in Nat
  /\ MaxFaults \in Nat

VARIABLES
  \* Gmail and Pub/Sub
  head,      \* the mailbox's current historyId
  poison,    \* mails whose raw body is gone or does not decode; never changes
  notes,     \* historyIds of the notifications published and not acknowledged
  \* durable
  cursor,    \* stored historyId, 0 before the first
  claims,    \* dedupe store
  settled,   \* mails that reached a terminal outcome (emitted, dropped, dead-lettered)
  \* the process
  up,        \* it runs
  pending,   \* provider._pending of the mailbox, 0 when it has no entry
  pc, job, start, batch, latest, blocked,
  \* history: no step reads these
  listed,    \* mails some history diff has returned
  before,    \* mails older than the seed of the first cursor
  fallback,  \* mails older than the watermark a diff without a cursor started at
  skipped,   \* mails passed over because the stored historyId was stale
  acked,     \* notifications acknowledged
  transients, crashes, lost, stales

world    == <<head, poison, notes, acked>>
stores   == <<cursor, claims, settled>>
locals   == <<pc, job, start, batch, latest, blocked>>
seen     == <<listed, before, fallback, skipped>>
counters == <<transients, crashes, lost, stales>>
vars     == <<world, stores, up, pending, locals, seen, counters>>

Init ==
  /\ poison \in SUBSET Poisonable
  /\ head = 1 /\ notes = {} /\ acked = {}
  /\ cursor = 0 /\ claims = [m \in Mails |-> NoRow] /\ settled = {}
  /\ up = FALSE /\ pending = 0
  /\ pc = [t \in Threads |-> "idle"]
  /\ job = [t \in Threads |-> 0]
  /\ start = [t \in Threads |-> 0]
  /\ batch = [t \in Threads |-> {}]
  /\ latest = [t \in Threads |-> 0]
  /\ blocked = [t \in Threads |-> FALSE]
  /\ listed = {} /\ before = {} /\ fallback = {} /\ skipped = {}
  /\ transients = 0 /\ crashes = 0 /\ lost = 0 /\ stales = 0

----------------------------------------------------------------------------
MayFail == transients + crashes + lost + stales < MaxFaults

Goto(t, label) == pc' = [pc EXCEPT ![t] = label]

\* The mails a historyId stands past.
Before(id) == {m \in Mails : m < id}

Ahead(id) == IF id <= cursor THEN cursor ELSE id

\* The mail in hand: mails are fetched in the order of the history.
Least(S) == CHOOSE m \in S : \A n \in S : m <= n

Current(t) == Least(batch[t])

\* The run is over for the thread; its locals die with it.
Idle(t) ==
  /\ Goto(t, "idle")
  /\ job' = [job EXCEPT ![t] = 0]
  /\ start' = [start EXCEPT ![t] = 0]
  /\ batch' = [batch EXCEPT ![t] = {}]
  /\ latest' = [latest EXCEPT ![t] = 0]
  /\ blocked' = [blocked EXCEPT ![t] = FALSE]

----------------------------------------------------------------------------
(* The outside.                                                            *)

\* A mail arrives and its notification is published, or never delivered.
Arrive ==
  /\ head <= NumMails
  /\ head' = head + 1
  /\ \/ notes' = notes \cup {head'} /\ UNCHANGED lost
     \/ MayFail /\ lost' = lost + 1 /\ UNCHANGED notes
  /\ UNCHANGED <<poison, acked, stores, up, pending, locals, seen, transients, crashes, stales>>

LeaseElapses(m) ==
  /\ claims[m].fresh /\ ~claims[m].done
  /\ ~\E t \in Threads : pc[t] = "work" /\ batch[t] # {} /\ Current(t) = m
  /\ claims' = [claims EXCEPT ![m].fresh = FALSE]
  /\ UNCHANGED <<world, cursor, settled, up, pending, locals, seen, counters>>

Crash ==
  /\ up
  /\ MayFail
  /\ crashes' = crashes + 1
  /\ up' = FALSE /\ pending' = 0
  /\ pc' = [t \in Threads |-> "idle"]
  /\ job' = [t \in Threads |-> 0]
  /\ start' = [t \in Threads |-> 0]
  /\ batch' = [t \in Threads |-> {}]
  /\ latest' = [t \in Threads |-> 0]
  /\ blocked' = [t \in Threads |-> FALSE]
  /\ UNCHANGED <<world, stores, seen, transients, lost, stales>>

----------------------------------------------------------------------------
(* bootstrap_watches, the Pub/Sub callback and the sweep.                  *)

BootReseeding ==
  /\ ~up
  /\ up' = TRUE
  /\ cursor' = Ahead(head)
  /\ before' = IF cursor = 0 THEN Before(head) ELSE before
  /\ UNCHANGED <<world, claims, settled, pending, locals, listed, fallback, skipped, counters>>

\* The cursor is seeded with the watch's historyId on the first start only.
Boot ==
  /\ ~up
  /\ up' = TRUE
  /\ \E startWatch \in StartWatch :
       IF startWatch /\ cursor = 0
         THEN cursor' = head /\ before' = Before(head)
         ELSE UNCHANGED <<cursor, before>>
  /\ UNCHANGED <<world, claims, settled, pending, locals, listed, fallback, skipped, counters>>

\* process_messages: submit the watermark and start a run.
Receive(t) ==
  /\ up /\ t \in Callbacks /\ pc[t] = "idle"
  /\ \E id \in notes :
       /\ \A u \in Threads : job[u] # id
       /\ job' = [job EXCEPT ![t] = id]
       /\ pending' = id
  /\ Goto(t, "streams")
  /\ UNCHANGED <<world, stores, up, start, batch, latest, blocked, seen, counters>>

SweepWithoutSubmit(t) ==
  /\ up /\ t \in Sweepers /\ pc[t] = "idle"
  /\ Goto(t, "streams")
  /\ UNCHANGED <<world, stores, up, pending, job, start, batch, latest, blocked, seen,
                 counters>>

\* sweep_once: the profile's historyId is submitted, so that the mailbox is synced.
Sweep(t) ==
  /\ up /\ t \in Sweepers /\ pc[t] = "idle"
  /\ pending' = head
  /\ Goto(t, "streams")
  /\ UNCHANGED <<world, stores, up, job, start, batch, latest, blocked, seen, counters>>

\* run_once returned: the callback acknowledges its message, whatever the report says.
Ack(t) ==
  /\ pc[t] = "ack"
  /\ notes' = notes \ {job[t]}
  /\ acked' = acked \cup ({job[t]} \ {0})
  /\ Idle(t)
  /\ UNCHANGED <<head, poison, stores, up, pending, seen, counters>>

\* A transient or auth error of the Gmail API leaves run_once: no ack (the message is
\* redelivered), and `_pending` keeps its entry.  The scheduler swallows a sweep's.
RunRaises(t) ==
  /\ pc[t] \in {"list", "next"}
  /\ MayFail
  /\ transients' = transients + 1
  /\ Idle(t)
  /\ UNCHANGED <<world, stores, up, pending, seen, crashes, lost, stales>>

----------------------------------------------------------------------------
(* run_once over the provider: sync_streams, fetch, and one message.       *)

\* The mailbox is synced if it has a pending watermark; then its cursor is read.
Streams(t) ==
  /\ pc[t] = "streams"
  /\ start' = [start EXCEPT ![t] = cursor]
  /\ Goto(t, IF pending = 0 THEN "ack" ELSE "list")
  /\ UNCHANGED <<world, stores, up, pending, job, batch, latest, blocked, seen, counters>>

\* Without a cursor the diff starts at the watermark that was submitted.
From(t) == IF start[t] # 0 THEN start[t] ELSE pending

\* history_message_ids: everything after the start, and the historyId it is current to.
ListHistory(t) ==
  /\ pc[t] = "list"
  /\ From(t) # 0
  /\ batch' = [batch EXCEPT ![t] = Before(head) \ Before(From(t))]
  /\ latest' = [latest EXCEPT ![t] = head]
  /\ listed' = listed \cup batch'[t]
  /\ fallback' = IF start[t] = 0 THEN fallback \cup Before(From(t)) ELSE fallback
  /\ Goto(t, "next")
  /\ UNCHANGED <<world, stores, up, pending, job, start, blocked, before, skipped, counters>>

\* No cursor, and another run has popped the watermark since: nothing to diff from.
NothingToDiff(t) ==
  /\ pc[t] = "list"
  /\ From(t) = 0
  /\ Goto(t, "ack")
  /\ UNCHANGED <<world, stores, up, pending, job, start, batch, latest, blocked, seen,
                 counters>>

\* The start is too old for Gmail: the cursor is re-seeded and the gap mail skipped.
Reseed(t) ==
  /\ pc[t] = "list"
  /\ From(t) # 0 /\ From(t) < head
  /\ MayFail
  /\ stales' = stales + 1
  /\ cursor' = Ahead(head)
  /\ skipped' = skipped \cup (Before(head) \ Before(From(t)))
  /\ fallback' = IF start[t] = 0 THEN fallback \cup Before(From(t)) ELSE fallback
  /\ pending' = 0
  /\ Goto(t, "ack")
  /\ UNCHANGED <<world, claims, settled, up, job, start, batch, latest, blocked,
                 listed, before, transients, crashes, lost>>

\* A poison mail is passed over in silence.
SkipPoison(t) ==
  /\ pc[t] = "next"
  /\ batch[t] # {} /\ Current(t) \in poison
  /\ batch' = [batch EXCEPT ![t] = @ \ {Current(t)}]
  /\ UNCHANGED <<world, stores, up, pending, pc, job, start, latest, blocked, seen, counters>>

\* try_claim succeeds, and the attempt is counted.
Claim(t) ==
  /\ pc[t] = "next"
  /\ batch[t] # {} /\ Current(t) \notin poison
  /\ Claimable(claims[Current(t)])
  /\ claims' = [claims EXCEPT ![Current(t)] = Attempted(Claimed(@))]
  /\ Goto(t, "work")
  /\ UNCHANGED <<world, cursor, settled, up, pending, job, start, batch, latest, blocked,
                 seen, counters>>

\* After a terminal disposition: commit the batch's cursor, unless the run is blocked.
Terminal(t) == Goto(t, IF blocked[t] THEN "skip" ELSE "commit")

Duplicate(t) ==
  /\ pc[t] = "next"
  /\ batch[t] # {} /\ Current(t) \notin poison
  /\ ~Claimable(claims[Current(t)])
  /\ Terminal(t)
  /\ UNCHANGED <<world, stores, up, pending, job, start, batch, latest, blocked, seen,
                 counters>>

\* The mail is emitted, dropped or dead-lettered, and marked done.
Settle(t) ==
  /\ pc[t] = "work"
  /\ settled' = settled \cup {Current(t)}
  /\ claims' = [claims EXCEPT ![Current(t)] = MarkedDone(@)]
  /\ Terminal(t)
  /\ UNCHANGED <<world, cursor, up, pending, job, start, batch, latest, blocked, seen,
                 counters>>

\* A transient failure with attempts left: released, and the cursor held for this run.
Release(t) ==
  /\ pc[t] = "work"
  /\ MayFail
  /\ claims[Current(t)].attempts < MaxAttempts
  /\ transients' = transients + 1
  /\ claims' = [claims EXCEPT ![Current(t)] = Released(@)]
  /\ blocked' = [blocked EXCEPT ![t] = TRUE]
  /\ Goto(t, "skip")
  /\ UNCHANGED <<world, cursor, settled, up, pending, job, start, batch, latest, seen,
                 crashes, lost, stales>>

CommitProfile(t) ==
  /\ pc[t] = "commit"
  /\ cursor' = Ahead(head)
  /\ Goto(t, "skip")
  /\ UNCHANGED <<world, claims, settled, up, pending, job, start, batch, latest, blocked,
                 seen, counters>>

\* The mail's cursor is the batch's.
Commit(t) ==
  /\ pc[t] = "commit"
  /\ cursor' = Ahead(latest[t])
  /\ Goto(t, "skip")
  /\ UNCHANGED <<world, claims, settled, up, pending, job, start, batch, latest, blocked,
                 seen, counters>>

\* On to the next mail of the batch.
Advance(t) ==
  /\ pc[t] = "skip"
  /\ batch' = [batch EXCEPT ![t] = @ \ {Current(t)}]
  /\ Goto(t, "next")
  /\ UNCHANGED <<world, stores, up, pending, job, start, latest, blocked, seen, counters>>

\* The batch is through: `_pending` is popped, with whatever was submitted meanwhile.
Pop(t) ==
  /\ pc[t] = "next"
  /\ batch[t] = {}
  /\ pending' = 0
  /\ Goto(t, "ack")
  /\ UNCHANGED <<world, stores, up, job, start, batch, latest, blocked, seen, counters>>

----------------------------------------------------------------------------
\* What the threads go on doing by themselves.
Step(t) ==
  \/ Receive(t) \/ Sweep(t) \/ Streams(t) \/ ListHistory(t) \/ NothingToDiff(t)
  \/ SkipPoison(t) \/ Claim(t) \/ Duplicate(t) \/ Settle(t) \/ Commit(t)
  \/ Advance(t) \/ Pop(t) \/ Ack(t)

Fault(t) == Reseed(t) \/ RunRaises(t) \/ Release(t)

Next ==
  \/ Arrive \/ Boot \/ Crash
  \/ \E t \in Threads : Step(t) \/ Fault(t)
  \/ \E m \in Mails : LeaseElapses(m)

Spec == Init /\ [][Next]_vars

\* The process is kept running, its threads are scheduled, the sweep fires every
\* sweep_seconds, and time passes.
Fairness ==
  /\ WF_vars(Boot)
  /\ \A t \in Threads : WF_vars(Step(t))
  /\ \A m \in Mails : WF_vars(LeaseElapses(m))

FairSpec == Spec /\ Fairness

----------------------------------------------------------------------------
(* Properties.                                                             *)

\* Every variable has its type.
TypeOK ==
  /\ head \in HistoryIds /\ notes \subseteq HistoryIds /\ acked \subseteq HistoryIds
  /\ cursor \in {0} \cup HistoryIds
  /\ claims \in [Mails -> Row]
  /\ poison \subseteq Poisonable /\ settled \subseteq Mails /\ listed \subseteq Mails
  /\ before \subseteq Mails /\ fallback \subseteq Mails /\ skipped \subseteq Mails
  /\ up \in BOOLEAN
  /\ pending \in {0} \cup HistoryIds
  /\ pc \in [Threads -> {"idle", "streams", "list", "next", "work", "commit", "skip", "ack"}]
  /\ job \in [Threads -> {0} \cup HistoryIds]
  /\ start \in [Threads -> {0} \cup HistoryIds]
  /\ batch \in [Threads -> SUBSET Mails]
  /\ latest \in [Threads -> {0} \cup HistoryIds]
  /\ blocked \in [Threads -> BOOLEAN]
  /\ transients \in Nat /\ crashes \in Nat /\ lost \in Nat /\ stales \in Nat

\* Mail that no history diff returns and nobody waits for: older than the watch, older than
\* the first watermark, or in a gap Gmail has no history of.
NotDue == before \cup fallback \cup skipped

\* The cursor never passes a mail that is due and that no history diff has returned:
\* restarts with mail arriving meanwhile (REL-5, bootstrap.py 24-27), racing runs and
\* aborted runs included.
NothingPassedUnseen == Before(cursor) \subseteq NotDue \cup listed

\* The threads are between two runs.
AtRest == \A t \in Threads : pc[t] = "idle"

\* `The cursor must not advance past unread mail` (provider.py 75-77): when the threads
\* are at rest, mail behind the cursor is settled, poison, or was never due.
UnreadStaysAhead == AtRest => Before(cursor) \subseteq NotDue \cup poison \cup settled

\* Unless an API call failed or the process died that is so: overlapping runs of the push
\* path and the sweep, duplicates of each other's claims, early pops of the watermark and
\* lost notifications leave no mail unsettled behind the cursor.
SettledAtRest == TypeOK /\ (transients = 0 /\ crashes = 0 => UnreadStaysAhead)

\* The safety net: mail is listed by some run in the end, even if its notification is
\* lost, swallowed by another run's pop, or cut short by a crash or an API error: again
\* and again no mail that is due is left unlisted.
EventuallySeen == []<>(Before(head) \subseteq NotDue \cup listed)

============================================================================
