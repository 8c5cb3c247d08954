----------------------------- MODULE GraphIngest -----------------------------
(***************************************************************************)
(* Microsoft Graph ingestion (adapters/graph, adapters/servicebus): change *)
(* notifications reach one consumer over Event Hubs, which remembers a     *)
(* position per partition (the checkpoint), or over Service Bus, which     *)
(* settles messages one by one (complete, abandon).  Both feed the same    *)
(* provider and run the same pipeline.                                     *)
(*                                                                         *)
(* A notification points at one mail, which the run gets by itself.  The   *)
(* lifecycle signal `missed` says that notifications were lost, and asks   *)
(* for a delta sweep of the folder.  Pipeline tells in full what happens   *)
(* to one mail; here it is claimed, and then settled or released.          *)
(*                                                                         *)
(* Mails are numbered in the order they arrive; a deltaLink stands for the *)
(* number of mails that had arrived when Graph handed it out.              *)
(* Left out: the content of mails and attachments (size estimates too),    *)
(* the lookup by internet message id (nothing in src/ registers one), and  *)
(* the lifecycle signals that concern subscriptions (GraphSubscriptions).  *)
(***************************************************************************)
EXTENDS Naturals, FiniteSets, SequencesExt, DedupeStore

CONSTANTS
  Transports,        \* "hub" (Event Hubs), "bus" (Service Bus)
  Streams,           \* mailbox folders
  NumMails,          \* mails 1..NumMails arrive
  StreamOf,          \* the folder of each mail
  Movable,           \* mails that may be moved away before they are read: GET answers 404
  HasLifecycle,      \* is a lifecycle handler wired
  MaxAttempts,       \* PipelineConfig.max_attempts
  MaxFaults,         \* bound on transient failures, Graph errors and crashes together
  MaxLost            \* bound on lost notifications

Mails == 1 .. NumMails

ASSUME GraphAssumption ==
  /\ Transports \subseteq {"hub", "bus"}
  /\ IsFiniteSet(Streams) /\ NumMails \in Nat
  /\ StreamOf \in [Mails -> Streams]
  /\ Movable \subseteq Mails
  /\ HasLifecycle \in BOOLEAN
  /\ MaxAttempts \in Nat /\ MaxFaults \in Nat /\ MaxLost \in Nat

VARIABLES
  transport,  \* these two never change
  gone,       \* the mails whose GET answers 404
  \* Graph and the transport
  head,       \* number of mails that have arrived
  log,        \* the events published: a partition, or the messages of a queue
  acked,      \* events behind the checkpoint, or completed
  read,       \* hub: the last event the consumer was handed; 0 on the bus
  \* durable
  cursor,     \* per folder: order and deltaLink, 0 for the value of a notification
  claims,     \* dedupe store
  settled,    \* mails that reached a terminal outcome
  \* the process: provider
  up, pending, wanted, order,
  \* the process: the run
  pc, ev, todo, start, hand, link, blocked, open,
  \* history: no step reads these
  lost,       \* mails whose notification was lost
  told,       \* mails a published event tells of: itself, or a `missed` of its folder
  released,   \* mails released by a run that the transport will not repeat
  skipped,    \* mails refused because the claim of a run that crashed was still held
  cut,        \* mails of a sweep that a crash or an error cut short
  faults

broker   == <<transport, gone, head, log>>
ack      == <<acked, read>>
stores   == <<cursor, claims, settled>>
provider == <<up, pending, wanted, order>>
run      == <<ev, todo, start, hand, link, blocked, open>>
history  == <<lost, told, released, skipped, cut>>
vars     == <<broker, ack, stores, provider, pc, run, history, faults>>

NoCursor == [order |-> 0, link |-> 0]

\* `genuine` is FALSE for items with a foreign clientState and for the validation event,
\* which Graph sends when the subscription is created.
Event == [mails: SUBSET Mails, missed: SUBSET Streams, genuine: BOOLEAN]

Validation == [mails |-> Mails, missed |-> {}, genuine |-> FALSE]

Init ==
  /\ transport \in Transports /\ gone \in SUBSET Movable
  /\ head = 0 /\ log = <<Validation>> /\ acked = {} /\ read = 0
  /\ cursor = [s \in Streams |-> NoCursor]
  /\ claims = [m \in Mails |-> NoRow] /\ settled = {}
  /\ up = FALSE /\ pending = <<>> /\ wanted = <<>> /\ order = 0
  /\ pc = "idle" /\ ev = 0 /\ todo = <<>> /\ start = NoCursor
  /\ hand = <<>> /\ link = 0 /\ blocked = FALSE /\ open = FALSE
  /\ lost = {} /\ told = {} /\ released = {} /\ skipped = {} /\ cut = {}
  /\ faults = 0

----------------------------------------------------------------------------
(* Reading an event, and what the run works through.                       *)

\* The parsers drop what is not genuine.
Notes(e)   == IF e.genuine THEN e.mails ELSE {}
Signals(e) == IF e.genuine THEN e.missed ELSE {}

Adjoin(seq, x) == IF x \in ToSet(seq) THEN seq ELSE Append(seq, x)

AdjoinAll(seq, xs) == FoldLeft(Adjoin, seq, xs)

\* The folders of the pending notes, then those that want a sweep.
SyncStreams(notes, sweeps) ==
  AdjoinAll(<<>>, [i \in DOMAIN notes |-> StreamOf[notes[i]]] \o sweeps)

\* The elements of a list that are in `keep`, in their order.
Among(seq, keep) ==
  FoldLeft(LAMBDA kept, x : IF x \in keep THEN Append(kept, x) ELSE kept, <<>>, seq)

MailsOf(s) == {m \in Mails : StreamOf[m] = s}

OfStream(notes, s) == Among(notes, MailsOf(s))
OfOthers(notes, s) == Among(notes, Mails \ MailsOf(s))

\* The mails of folder s that a delta query from a deltaLink returns; everything when the
\* stored cursor is not a link.
Changed(s, from) == OfStream([i \in 1 .. (head - from) |-> from + i], s)

Stream == Head(todo)
Mail   == Head(hand)

\* What the run, and with it the process, forgets.
NoRun ==
  /\ pc' = "idle" /\ ev' = 0 /\ todo' = <<>> /\ start' = NoCursor
  /\ hand' = <<>> /\ link' = 0 /\ blocked' = FALSE /\ open' = FALSE

ForgetProvider == up' = FALSE /\ pending' = <<>> /\ wanted' = <<>> /\ order' = 0

\* The in-memory stores go with the process, the durable ones stay.
ForgetStores ==
  IF HasLease
    THEN UNCHANGED <<cursor, claims>>
    ELSE /\ cursor' = [s \in Streams |-> NoCursor]
         /\ claims' = [m \in Mails |-> NoRow]

\* The mails of a sweep that is cut short.
CutShort == IF link > 0 THEN ToSet(hand) ELSE {}

\* The position the consumer of the partition starts after.
Checkpoint == IF acked = {} THEN 0 ELSE CHOOSE e \in acked : \A f \in acked : f <= e

----------------------------------------------------------------------------
(* Graph, the transport and the process.                                   *)

\* Mails arrive, and one event with their notifications is published, or lost.
Arrive ==
  /\ \E upto \in head + 1 .. NumMails :
       LET mails == head + 1 .. upto
       IN /\ head' = upto
          /\ \/ /\ log' = Append(log, [mails |-> mails, missed |-> {}, genuine |-> TRUE])
                /\ told' = told \cup mails
                /\ UNCHANGED lost
             \/ /\ Cardinality(lost \cup mails) <= MaxLost
                /\ lost' = lost \cup mails
                /\ UNCHANGED <<log, told>>
  /\ UNCHANGED <<transport, gone, ack, stores, provider, pc, run, released, skipped, cut,
                 faults>>

\* Graph signals that it has lost notifications of a folder.
SignalMissed(s) ==
  /\ \E m \in lost \ told : StreamOf[m] = s
  /\ log' = Append(log, [mails |-> {}, missed |-> {s}, genuine |-> TRUE])
  /\ told' = told \cup {m \in lost : StreamOf[m] = s}
  /\ UNCHANGED <<transport, gone, head, ack, stores, provider, pc, run, lost, released, skipped,
                 cut, faults>>

\* The lease of a claim that nobody works on any more.
LeaseElapses(m) ==
  /\ claims[m].claimed /\ claims[m].fresh /\ ~claims[m].done
  /\ ~(pc = "work" /\ Mail = m)
  /\ claims' = [claims EXCEPT ![m].fresh = FALSE]
  /\ UNCHANGED <<broker, ack, cursor, settled, provider, pc, run, history, faults>>

Crash ==
  /\ up
  /\ faults < MaxFaults
  /\ faults' = faults + 1
  /\ ForgetProvider /\ ForgetStores /\ NoRun
  /\ cut' = cut \cup CutShort
  /\ UNCHANGED <<broker, ack, settled, lost, told, released, skipped>>

\* The process starts, be it within the lease of a claim the last one left behind.
\* Event Hubs: it reads on from the checkpoint.
BootHub ==
  /\ transport = "hub" /\ ~up
  /\ up' = TRUE
  /\ read' = Checkpoint
  /\ UNCHANGED <<broker, acked, stores, pending, wanted, order, pc, run, history, faults>>

\* Service Bus: what is not completed is still in the queue.
BootBus ==
  /\ transport = "bus" /\ ~up
  /\ up' = TRUE
  /\ UNCHANGED <<broker, ack, stores, pending, wanted, order, pc, run, history, faults>>

----------------------------------------------------------------------------
(* process_batch and process_messages.                                     *)

\* The partition in order; the queue in any order.
Handed(e) == IF transport = "hub" THEN e = read + 1 ELSE e \notin acked

\* Notes are submitted and the pipeline is run; failing notes, a `missed` signal queues a
\* sweep and runs it; any other event is only acknowledged.
Receive(e) ==
  /\ up /\ pc = "idle"
  /\ Handed(e)
  /\ ev' = e
  /\ read' = IF transport = "hub" THEN e ELSE read
  /\ LET notes   == SetToSeq(Notes(log[e]))
         signals == IF notes = <<>> /\ HasLifecycle THEN SetToSeq(Signals(log[e])) ELSE <<>>
     IN /\ pending' = pending \o notes
        /\ wanted' = AdjoinAll(wanted, signals)
        /\ IF notes \o signals = <<>>
             THEN pc' = "ack" /\ UNCHANGED todo
             ELSE pc' = "stream" /\ todo' = SyncStreams(pending', wanted')
  /\ open' = FALSE
  /\ UNCHANGED <<broker, acked, stores, up, order, start, hand, link, blocked, history, faults>>

HeldBackNever == FALSE

\* A run for notes that left a mail non-terminal: no checkpoint, or abandon.  The report of
\* a run for a lifecycle signal is not looked at.
HeldBack == open /\ Notes(log[ev]) # {}

RunReturns ==
  /\ pc = "stream" /\ todo = <<>>
  /\ IF HeldBack THEN NoRun ELSE pc' = "ack" /\ UNCHANGED run
  /\ UNCHANGED <<broker, ack, stores, provider, history, faults>>

\* update_checkpoint moves the position past every event before this one.
Ack ==
  /\ pc = "ack"
  /\ acked' = IF transport = "hub" THEN 1 .. ev ELSE acked \cup {ev}
  /\ NoRun
  /\ UNCHANGED <<broker, read, stores, provider, history, faults>>

\* A Graph error leaves run_once.  Event Hubs: the provider keeps its notes, and the consumer
\* of the partition is opened again at the checkpoint.  Service Bus: the message is
\* abandoned and the error ends run_service.
RunRaises ==
  /\ pc \in {"note", "delta", "swept"}
  /\ pc # "delta" => hand # <<>>
  /\ faults < MaxFaults
  /\ faults' = faults + 1
  /\ NoRun
  /\ cut' = cut \cup CutShort
  /\ IF transport = "hub"
       THEN read' = Checkpoint /\ UNCHANGED <<provider, cursor, claims>>
       ELSE ForgetProvider /\ ForgetStores /\ UNCHANGED read
  /\ UNCHANGED <<broker, acked, settled, lost, told, released, skipped>>

----------------------------------------------------------------------------
(* The provider: fetch(stream) as the run draws from it.                   *)

OpenStream ==
  /\ pc = "stream" /\ todo # <<>>
  /\ start' = cursor[Stream]
  /\ hand' = OfStream(pending, Stream)
  /\ blocked' = FALSE
  /\ pc' = "note"
  /\ UNCHANGED <<broker, ack, stores, provider, ev, todo, link, open, history, faults>>

\* get_message of the next note: the mail, or 404, and then the note is passed over.
GetMessage ==
  /\ pc = "note" /\ hand # <<>>
  /\ IF Mail \in gone
       THEN hand' = Tail(hand) /\ UNCHANGED <<order, pc>>
       ELSE order' = order + 1 /\ pc' = "claim" /\ UNCHANGED hand
  /\ UNCHANGED <<broker, ack, stores, up, pending, wanted, ev, todo, start, link, blocked, open,
                 history, faults>>

NextStream == pc' = "stream" /\ todo' = Tail(todo) /\ link' = 0

NotesDoneForAll ==
  /\ pc = "note" /\ hand = <<>>
  /\ pending' = <<>>
  /\ NextStream
  /\ UNCHANGED <<broker, ack, stores, up, wanted, order, ev, start, hand, blocked, open,
                 history, faults>>

\* The notes of other folders stay.  A requested sweep is forgotten before it is made.
NotesDone ==
  /\ pc = "note" /\ hand = <<>>
  /\ pending' = OfOthers(pending, Stream)
  /\ wanted' = Among(wanted, Streams \ {Stream})
  /\ IF Stream \in ToSet(wanted)
       THEN pc' = "delta" /\ UNCHANGED <<todo, link>>
       ELSE NextStream
  /\ UNCHANGED <<broker, ack, stores, up, order, ev, start, hand, blocked, open, history,
                 faults>>

\* delta_sweep from the cursor that was read when the stream was opened.
DeltaSweep ==
  /\ pc = "delta"
  /\ hand' = Changed(Stream, start.link)
  /\ link' = head
  /\ pc' = "swept"
  /\ UNCHANGED <<broker, ack, stores, provider, ev, todo, start, blocked, open, history, faults>>

SweptMessage ==
  /\ pc = "swept"
  /\ IF hand = <<>>
       THEN NextStream /\ UNCHANGED order
       ELSE order' = order + 1 /\ pc' = "claim" /\ UNCHANGED <<todo, link>>
  /\ UNCHANGED <<broker, ack, stores, up, pending, wanted, ev, start, hand, blocked, open,
                 history, faults>>

----------------------------------------------------------------------------
(* The pipeline, on the mail in hand.                                      *)

Drawn == pc' = (IF link > 0 THEN "swept" ELSE "note") /\ hand' = Tail(hand)

Terminal == IF blocked THEN Drawn ELSE pc' = "commit" /\ UNCHANGED hand

Claim ==
  /\ pc = "claim"
  /\ Claimable(claims[Mail])
  /\ claims' = [claims EXCEPT ![Mail] = Attempted(Claimed(@))]
  /\ pc' = "work"
  /\ UNCHANGED <<broker, ack, cursor, settled, provider, run, history, faults>>

\* The mail is done, or a run that crashed still holds the claim: terminal either way.
Duplicate ==
  /\ pc = "claim"
  /\ ~Claimable(claims[Mail])
  /\ skipped' = IF claims[Mail].done THEN skipped ELSE skipped \cup {Mail}
  /\ Terminal
  /\ UNCHANGED <<broker, ack, stores, provider, ev, todo, start, link, blocked, open, lost,
                 told, released, cut, faults>>

Settle ==
  /\ pc = "work"
  /\ settled' = settled \cup {Mail}
  /\ claims' = [claims EXCEPT ![Mail] = MarkedDone(@)]
  /\ Terminal
  /\ UNCHANGED <<broker, ack, cursor, provider, ev, todo, start, link, blocked, open, history,
                 faults>>

\* A transient failure with attempts left.
Release ==
  /\ pc = "work"
  /\ faults < MaxFaults
  /\ claims[Mail].attempts < MaxAttempts
  /\ faults' = faults + 1
  /\ claims' = [claims EXCEPT ![Mail] = Released(@)]
  /\ blocked' = TRUE /\ open' = TRUE
  /\ released' = IF transport = "hub" \/ Notes(log[ev]) = {}
                   THEN released \cup {Mail} ELSE released
  /\ Drawn
  /\ UNCHANGED <<broker, ack, cursor, settled, provider, ev, todo, start, link, lost, told,
                 skipped, cut>>

CursorCurrent == [order |-> order, link |-> head]

\* A note's cursor is synthetic, a swept mail's is the new deltaLink: of the whole sweep.
NewCursor == [order |-> order, link |-> link]

\* commit_if_ahead compares the orders, which start over with the process.
Commit ==
  /\ pc = "commit"
  /\ cursor' = [cursor EXCEPT ![Stream] = IF order > @.order THEN NewCursor ELSE @]
  /\ Drawn
  /\ UNCHANGED <<broker, ack, claims, settled, provider, ev, todo, start, link, blocked, open,
                 history, faults>>

----------------------------------------------------------------------------
Step ==
  \/ \E e \in DOMAIN log : Receive(e)
  \/ RunReturns \/ Ack
  \/ OpenStream \/ GetMessage \/ NotesDone \/ DeltaSweep \/ SweptMessage
  \/ Claim \/ Duplicate \/ Settle \/ Commit

Next ==
  \/ Arrive \/ Crash \/ BootHub \/ BootBus
  \/ Step \/ RunRaises \/ Release
  \/ \E s \in Streams : SignalMissed(s)
  \/ \E m \in Mails : LeaseElapses(m)

Spec == Init /\ [][Next]_vars

\* The process is kept running, and it takes its steps.
Fairness == WF_vars(BootHub \/ BootBus) /\ WF_vars(Step)

FairSpec == Spec /\ Fairness

----------------------------------------------------------------------------
(* Properties.                                                             *)

\* Every variable has its type.
TypeOK ==
  /\ transport \in Transports /\ gone \subseteq Movable
  /\ head \in 0 .. NumMails /\ log \in Seq(Event)
  /\ acked \subseteq DOMAIN log /\ read \in 0 .. Len(log)
  /\ cursor \in [Streams -> [order: Nat, link: 0 .. NumMails]]
  /\ claims \in [Mails -> Row] /\ settled \subseteq Mails
  /\ up \in BOOLEAN /\ pending \in Seq(Mails) /\ wanted \in Seq(Streams) /\ order \in Nat
  /\ pc \in {"idle", "stream", "note", "delta", "swept", "claim", "work", "commit", "ack"}
  /\ ev \in {0} \cup DOMAIN log /\ todo \in Seq(Streams)
  /\ hand \in Seq(Mails) /\ link \in 0 .. NumMails
  /\ blocked \in BOOLEAN /\ open \in BOOLEAN

\* An event behind the checkpoint, or completed, has its mails settled or found gone
\* (runtime.py 88-92, servicebus/runtime.py 81-86): through crashes, Graph errors that leave
\* notes pending, redelivery, and the other events of the batch.  Excused are, on Event Hubs,
\* a mail that a run released, as the checkpoint of a later event passes its event; and a
\* mail that a run crashed on, if the next one met the claim within its lease.
AckedIsSettled ==
  \A e \in acked : Notes(log[e]) \subseteq settled \cup gone \cup released \cup skipped

\* No stored deltaLink stands past a mail that is neither settled nor about to be, although
\* the first commit of a sweep already stores its link, a sweep is made from a cursor read
\* before the notes, and the orders that guard the commit start over with the process.
\* Mails of a sweep that was cut short are excused, and released and skipped ones.
DeltaLinkCovers ==
  /\ TypeOK
  /\ \A s \in Streams : \A m \in 1 .. cursor[s].link :
       StreamOf[m] = s => m \in settled \cup released \cup skipped \cup cut \cup ToSet(hand)

\* Mail that Graph told of, by a notification or by the `missed` that stands in for lost
\* ones, is settled in the end, whatever crashes, errors and releases come between, but for
\* the mail these have passed over: again and again there is none outstanding.
ToldIsSettled ==
  []<>(told \subseteq settled \cup gone \cup released \cup skipped \cup cut)

=============================================================================
