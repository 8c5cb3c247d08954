------------------------------ MODULE Delivery ------------------------------
(***************************************************************************)
(* From the provider to the reader: the handle of Facade with the output   *)
(* that publishes to a topic (emit/pubsub.py) feeding MailArchive.  The    *)
(* two processes share nothing but the topic.                              *)
(***************************************************************************)
EXTENDS Facade

CONSTANTS Keys, KeyOf, Callbacks, MaxBreaks

ASSUME DeliveryAssumption ==
  /\ KeyOf \in [Mails -> Keys] /\ IsFiniteSet(Callbacks)
  /\ MaxBreaks \in Nat

VARIABLES rows, read, savers, hand, open, pane, opening, polling, shown, late, unsaved, breaks

A == INSTANCE MailArchive WITH pc <- savers

archive == <<rows, read, savers, hand, open, pane, opening, polling, shown, late, unsaved,
             breaks>>
vars == <<facade, topic, archive>>

DeliveryInit == Init /\ A!Init

DeliveryNext ==
  \/ Next /\ UNCHANGED archive
  \/ A!Next /\ UNCHANGED facade

\* What happens on the page is up to the reader; everything else goes on.
DeliverySpec ==
  /\ DeliveryInit /\ [][DeliveryNext]_vars
  /\ \A r \in Runners : WF_vars(Advance(r) /\ UNCHANGED archive)
  /\ \A a \in Apps : WF_vars(Consume(a) /\ UNCHANGED archive)
  /\ \A l \in Lives : WF_vars(Run(l) /\ UNCHANGED archive)
  /\ \A m \in Mails : WF_vars(LeaseElapses(m) /\ ~AtWork(m) /\ UNCHANGED archive)
  /\ \A c \in Callbacks : WF_vars(A!Work(c) /\ UNCHANGED facade)

----------------------------------------------------------------------------
(* Properties.                                                             *)

\* Every variable has its type.
DeliveryTypeOK == TypeOK /\ A!TypeOK

\* A mail that is marked done has reached the application, or is on its way: in the queue,
\* in a drained batch, on the topic or in the table.  It was kept from it on purpose
\* (filter, stage, a dead letter on record: connect() wires no record for the two Graph
\* transports), or by one of three holes: a loop over a drained batch that
\* was left, a durable `done` beside a queue that died with the process (callback.py 44),
\* and a save() that raised before the acknowledgement (inbox_app.py 238-242).
DoneReachesReader ==
  /\ DeliveryTypeOK
  /\ Done \subseteq Delivered \cup dropped \cup Buffered \cup abandoned
                    \cup (IF WiredDeadLetters THEN kept ELSE dead)
                    \cup (IF config.durable THEN lost ELSE {})
                    \cup {m \in Mails : topic[m] > 0} \cup A!Stored \cup unsaved

\* However many threads iterate over the handle, and however many live threads their
\* calls of stream() have started, a mail is handed out once, and once more for a fault;
\* unless two threads were at work on it.  That takes a lease that ran out under its
\* holder (a callback slower than 300 s), or state="memory", whose claim is a look and a
\* write without a lock (stores/memory.py 63-71): there two threads alone suffice.
HandedOutOnce == \A m \in Mails \ shared : got[m] <= 1 + faults

\* Opening a conversation marks it read (inbox_app.py 5-6): whatever is marked was on the
\* page at some time, but for mail saved between the answer and the mark, and that one
\* belongs to the conversation that was open.
ReadWasShown == read \subseteq shown \cup late

\* An event that is published again, by a retry or by Pub/Sub, leaves the table as it is:
\* no second row (sqlite_store.py 3-4), and nothing that was read turns unread.
RedeliveryHarmless ==
  [][/\ read \subseteq read'
     /\ \A i, j \in DOMAIN rows' : i # j => rows'[i] # rows'[j]]_vars

\* Nobody is left on the queue: a thread waits in stream(), and no live thread is there
\* to ever put a mail or the sentinel (nobody calls close()).
Stranded == \E a \in Apps : pc[a] = "wait" /\ \A l \in Lives : pc[l] = "off"

\* Every mail is dealt with in the end, up to the reader's table, whatever was raised and
\* restarted, but for what its provider passes over: mail that was refused while another
\* held its claim, and, of Gmail and Event Hubs, what a pass that broke off left behind.
\* And only a stream() whose live thread has died waits for ever.
EventuallyReached ==
  \/ []<>(\A m \in arrived : m \in Done \cup passed /\ m \notin Buffered /\ topic[m] = 0)
  \/ <>[]Stranded

============================================================================
