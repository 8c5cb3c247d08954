------------------------------- MODULE Facade -------------------------------
(***************************************************************************)
(* The front door (facade.py, emit/): connect() wires a pipeline to one of *)
(* three outputs, and application threads take mail out of the handle with *)
(* fetch_new(), stream() or run().  A live provider runs on a thread of    *)
(* its own, one more for each call of stream(); they share the stores and  *)
(* the queue.  The memory provider runs in the caller's thread.            *)
(*                                                                         *)
(* Pipeline tells in full how a mail is retried and dead-lettered, and     *)
(* GmailIngest and GraphIngest which mail is listed again; here it is      *)
(* claimed, put out and marked, and what is not listed again is passed.    *)
(* Left out: projections, cleaners, secrets, and the retrieval of a mail   *)
(* by its id, none of which keeps state.                                   *)
(***************************************************************************)
EXTENDS Naturals, FiniteSets, Sequences

CONSTANTS
  Mails,       \* 1..n, in the order they arrive
  Apps,        \* application threads that use the handle
  Lives,       \* threads that a live provider can run on
  Configs,     \* the ways connect() is called
  Matched,     \* mails a filter matches
  Stopped,     \* mails a stage drops
  MaxFaults    \* bound on crashes, raised passes and dead live threads together

\* The arguments, the live threads the application comes to start, and the mails of the
\* mailbox that fail for good.
Config == [provider: {"memory", "gmail", "eventhub", "servicebus"},
           output: {"queue", "callback", "topic"}, onFiltered: {"tag", "drop"},
           durable: BOOLEAN, stages: BOOLEAN, lives: SUBSET Lives, poison: SUBSET Mails]

ASSUME FacadeAssumption ==
  /\ Mails \subseteq Nat
  /\ Configs \subseteq Config
  /\ Apps \cap Lives = {}
  /\ Matched \subseteq Mails /\ Stopped \subseteq Mails
  /\ MaxFaults \in Nat

Runners == Apps \cup Lives

VARIABLES
  config,     \* chosen by the caller of connect(); never changes
  topic,      \* copies of each mail's event published and not acknowledged (MailArchive)
  arrived,    \* mails the provider can fetch
  passed,     \* mails no later pass lists: the provider's bookmark is beyond them
  claims,     \* dedupe store: no record, a released one, claimed, its lease over, done
  pc,         \* each thread that may run the pipeline or wait for mail
  mail,       \* the mail it has claimed, or is claiming
  queue,      \* QueueEmitter
  batch,      \* what an application thread has drained and not yet yielded
  \* history: no step reads these, but for the bound
  got,        \* how often the application was handed each mail
  dropped,    \* mails a filter or a stage kept from the application
  dead, kept, \* mails dead-lettered, and those of them that have a durable record
  lost,       \* mails that were only in memory when the process died
  abandoned,  \* mails drained for a loop that was left
  shared,     \* mails that were claimed beside the work of another thread
  faults

marks   == <<arrived, passed, claims>>
threads == <<pc, mail>>
buffers == <<queue, batch>>
history == <<got, dropped, dead, kept, lost, abandoned, shared>>
facade  == <<config, marks, threads, buffers, history, faults>>

Live == config.provider # "memory"
MayFail == faults < MaxFaults

\* The memory provider is seeded; to a live one mail arrives.
Init ==
  /\ config \in Configs
  /\ arrived = IF Live THEN {} ELSE Mails
  /\ topic = [m \in Mails |-> 0]
  /\ passed = {} /\ claims = [m \in Mails |-> "absent"]
  /\ pc = [r \in Runners |-> "off"] /\ mail = [r \in Runners |-> 0]
  /\ queue = <<>> /\ batch = [a \in Apps |-> <<>>]
  /\ got = [m \in Mails |-> 0]
  /\ dropped = {} /\ dead = {} /\ kept = {} /\ lost = {} /\ abandoned = {}
  /\ shared = {} /\ faults = 0

----------------------------------------------------------------------------
(* What connect() wires.                                                   *)

\* on_filtered reaches the pipeline unless it is the Event Hubs one.
WiredDrop == config.onFiltered = "drop" /\ config.provider # "eventhub"

\* So does the dead-letter store, but for both Graph transports.
WiredDeadLetters == config.provider \in {"memory", "gmail"}

Tagged(m)  == m \in Matched
Halted(m)  == config.stages /\ m \in Stopped
Goto(r, label) == pc' = [pc EXCEPT ![r] = label]

----------------------------------------------------------------------------
(* A pipeline run by thread r, over the shared stores.                     *)

Claimable(m) == claims[m] \in {"absent", "free", "expired"}

\* The mails a pass has still to come to.
Fetchable == {m \in arrived \ passed : Claimable(m)}

IsNext(m) == m \in Fetchable /\ \A n \in Fetchable : m <= n

\* After a pass is broken off, the memory provider starts where its bookmark is held and
\* Service Bus delivers again; Gmail's history and a hub's checkpoint may be beyond mail
\* that is not done.
ListsAgain == config.provider \in {"memory", "servicebus"}
Unlisted == IF ListsAgain THEN {{}} ELSE SUBSET {m \in arrived : claims[m] # "done"}

AtWork(m) == \E r \in Runners : pc[r] \in {"work", "mark"} /\ mail[r] = m

ClaimUnshared(r) ==
  /\ config.durable /\ pc[r] = "run"
  /\ \E m \in arrived :
       /\ claims[m] # "done"
       /\ claims' = [claims EXCEPT ![m] = "claimed"]
       /\ mail' = [mail EXCEPT ![r] = m]
  /\ Goto(r, "work")
  /\ UNCHANGED <<config, topic, arrived, passed, buffers, history, faults>>

\* A durable store claims in one statement.
Claim(r) ==
  /\ config.durable /\ pc[r] = "run"
  /\ \E m \in Mails :
       /\ IsNext(m)
       /\ claims' = [claims EXCEPT ![m] = "claimed"]
       /\ mail' = [mail EXCEPT ![r] = m]
  /\ Goto(r, "work")
  /\ UNCHANGED <<config, topic, arrived, passed, buffers, history, faults>>

\* The in-memory one looks for the record first and writes afterwards, without a lock.
Look(r) ==
  /\ ~config.durable /\ pc[r] = "run"
  /\ \E m \in Mails :
       /\ IsNext(m)
       /\ Goto(r, IF claims[m] = "absent" THEN "create" ELSE "reclaim")
       /\ mail' = [mail EXCEPT ![r] = m]
  /\ UNCHANGED <<config, topic, marks, buffers, history, faults>>

\* A new record replaces whatever was put there since, a done one too; a released one is
\* claimed, and stays done if it was marked since.  (That a released record can itself have
\* been replaced meanwhile is left out.)
Set(r) ==
  LET m == mail[r]
      asSeen == claims[m] = (IF pc[r] = "create" THEN "absent" ELSE "free") IN
  /\ pc[r] \in {"create", "reclaim"}
  /\ claims' = [claims EXCEPT ![m] =
       IF pc[r] = "reclaim" /\ @ = "done" THEN "done" ELSE "claimed"]
  /\ shared' = IF asSeen THEN shared ELSE shared \cup {m}
  /\ Goto(r, "work")
  /\ UNCHANGED <<config, topic, arrived, passed, mail, buffers, got, dropped, dead, kept, lost,
                 abandoned, faults>>

\* A mail that another holds, or held when it died, counts as a duplicate: the bookmark
\* may move beyond it, the event may be acknowledged.
Refuse(r) ==
  /\ pc[r] = "run"
  /\ \E m \in arrived \ passed : claims[m] = "claimed" /\ passed' = passed \cup {m}
  /\ UNCHANGED <<config, topic, arrived, claims, threads, buffers, history, faults>>

\* The lease of a durable claim is over: its holder died, or takes longer than that.
LeaseElapses(m) ==
  /\ config.durable /\ claims[m] = "claimed"
  /\ IF AtWork(m)
       THEN MayFail /\ faults' = faults + 1 /\ shared' = shared \cup {m}
       ELSE UNCHANGED <<faults, shared>>
  /\ claims' = [claims EXCEPT ![m] = "expired"]
  /\ UNCHANGED <<config, topic, arrived, passed, threads, buffers, got, dropped, dead, kept,
                 lost, abandoned>>

\* Filters, then failures, then stages, then the output: the queue takes the mail, the
\* callback returns, or the publisher confirms.
Work(r) ==
  LET m == mail[r] IN
  /\ pc[r] = "work"
  /\ IF Tagged(m) /\ WiredDrop
       THEN dropped' = dropped \cup {m} /\ UNCHANGED <<dead, kept, queue, got, topic>>
     ELSE IF m \in config.poison
       THEN /\ dead' = dead \cup {m}
            /\ kept' = IF WiredDeadLetters THEN kept \cup {m} ELSE kept
            /\ UNCHANGED <<dropped, queue, got, topic>>
     ELSE IF Halted(m)
       THEN dropped' = dropped \cup {m} /\ UNCHANGED <<dead, kept, queue, got, topic>>
     ELSE /\ queue' = IF config.output = "queue" THEN Append(queue, m) ELSE queue
          /\ got' = IF config.output = "callback" THEN [got EXCEPT ![m] = @ + 1] ELSE got
          /\ topic' = IF config.output = "topic" THEN [topic EXCEPT ![m] = @ + 1] ELSE topic
          /\ UNCHANGED <<dropped, dead, kept>>
  /\ Goto(r, "mark")
  /\ UNCHANGED <<config, marks, mail, batch, lost, abandoned, shared, faults>>

Mark(r) ==
  /\ pc[r] = "mark"
  /\ claims' = [claims EXCEPT ![mail[r]] = "done"]
  /\ mail' = [mail EXCEPT ![r] = 0]
  /\ Goto(r, "run")
  /\ UNCHANGED <<config, topic, arrived, passed, buffers, history, faults>>

EmitRaisesHolding(r) ==
  /\ pc[r] = "work" /\ config.output # "queue" /\ MayFail
  /\ faults' = faults + 1
  /\ mail' = [mail EXCEPT ![r] = 0]
  /\ Goto(r, "run")
  /\ UNCHANGED <<config, topic, marks, buffers, history>>

\* The callback or the publisher raises: released, to be tried again if it is listed again.
EmitRaises(r) ==
  /\ pc[r] = "work" /\ config.output # "queue" /\ MayFail
  /\ faults' = faults + 1
  /\ got' = IF config.output = "callback" THEN [got EXCEPT ![mail[r]] = @ + 1] ELSE got
  /\ claims' = [claims EXCEPT ![mail[r]] = IF @ = "done" THEN @ ELSE "free"]
  /\ \E S \in Unlisted : S \subseteq {mail[r]} /\ passed' = passed \cup S
  /\ mail' = [mail EXCEPT ![r] = 0]
  /\ Goto(r, "run")
  /\ UNCHANGED <<config, topic, arrived, buffers, dropped, dead, kept, lost, abandoned, shared>>

\* Between two mails an error leaves the pass: a live thread ends, the caller of
\* fetch_new(), stream() or run() gets the exception.
PassRaises(r) ==
  /\ pc[r] = "run" /\ MayFail
  /\ faults' = faults + 1
  /\ \E S \in Unlisted : passed' = passed \cup S
  /\ Goto(r, "off")
  /\ UNCHANGED <<config, topic, arrived, claims, mail, buffers, history>>

----------------------------------------------------------------------------
(* The handle.                                                             *)

\* fetch_new(), or stream() and run() of the memory provider: a pass in this thread.
StartPass(a) ==
  /\ ~Live /\ pc[a] = "off" /\ batch[a] = <<>>
  /\ Goto(a, "run")
  /\ UNCHANGED <<config, topic, marks, mail, buffers, history, faults>>

EndPassForgetting(a) ==
  /\ ~Live /\ pc[a] = "run" /\ Fetchable = {}
  /\ queue' = <<>>
  /\ Goto(a, "off")
  /\ UNCHANGED <<config, topic, marks, mail, batch, history, faults>>

\* The pass is over, and the queue is drained, whoever put the mails there.
EndPass(a) ==
  /\ ~Live /\ pc[a] = "run" /\ Fetchable = {}
  /\ batch' = [batch EXCEPT ![a] = queue] /\ queue' = <<>>
  /\ Goto(a, "off")
  /\ UNCHANGED <<config, topic, marks, mail, history, faults>>

\* stream(): a new live thread, whatever runs already, and a wait on the queue.
Stream(a, l) ==
  /\ Live /\ config.output = "queue" /\ l \in config.lives
  /\ pc[a] = "off" /\ pc[l] = "off"
  /\ pc' = [pc EXCEPT ![a] = "wait", ![l] = "run"]
  /\ UNCHANGED <<config, topic, marks, mail, buffers, history, faults>>

\* run(): the live loop, in a thread that is blocked by it.
Run(l) ==
  /\ Live /\ config.output # "queue" /\ l \in config.lives /\ pc[l] = "off"
  /\ Goto(l, "run")
  /\ UNCHANGED <<config, topic, marks, mail, buffers, history, faults>>

\* The next mail of a drained batch, or of the queue.
Yield(a) ==
  /\ pc[a] = "off" /\ batch[a] # <<>>
  /\ got' = [got EXCEPT ![Head(batch[a])] = @ + 1]
  /\ batch' = [batch EXCEPT ![a] = Tail(@)]
  /\ UNCHANGED <<config, topic, marks, threads, queue, dropped, dead, kept, lost, abandoned,
                 shared, faults>>

Take(a) ==
  /\ pc[a] = "wait" /\ queue # <<>>
  /\ got' = [got EXCEPT ![Head(queue)] = @ + 1]
  /\ queue' = Tail(queue)
  /\ UNCHANGED <<config, topic, marks, threads, batch, dropped, dead, kept, lost, abandoned,
                 shared, faults>>

\* The application leaves its loop over stream(): a batch goes with the generator.
Leave(a) ==
  /\ MayFail /\ \/ pc[a] = "wait"
                \/ pc[a] = "off" /\ batch[a] # <<>>
  /\ faults' = faults + 1
  /\ abandoned' = abandoned \cup {batch[a][i] : i \in DOMAIN batch[a]}
  /\ batch' = [batch EXCEPT ![a] = <<>>]
  /\ Goto(a, "off")
  /\ UNCHANGED <<config, topic, marks, mail, queue, got, dropped, dead, kept, lost, shared>>

----------------------------------------------------------------------------
(* The outside.                                                            *)

Arrive ==
  /\ Live /\ arrived # Mails
  /\ arrived' = arrived \cup {CHOOSE m \in Mails \ arrived : \A n \in Mails \ arrived : m <= n}
  /\ UNCHANGED <<config, topic, passed, claims, threads, buffers, history, faults>>

Buffered ==
  LET Range(s) == {s[i] : i \in DOMAIN s} IN
  Range(queue) \cup UNION {Range(batch[a]) : a \in Apps}

\* The process dies and is started again, at any time: a durable claim stays until its
\* lease is over; state="memory" starts afresh, the bookmark with it.
Crash ==
  /\ MayFail /\ \E r \in Runners : pc[r] # "off"
  /\ faults' = faults + 1
  /\ IF config.durable
       THEN claims' = claims /\ \E S \in Unlisted : passed' = passed \cup S
       ELSE claims' = [m \in Mails |-> "absent"] /\ passed' \in Unlisted
  /\ pc' = [r \in Runners |-> "off"] /\ mail' = [r \in Runners |-> 0]
  /\ lost' = lost \cup Buffered
  /\ queue' = <<>> /\ batch' = [a \in Apps |-> <<>>]
  /\ UNCHANGED <<config, topic, arrived, got, dropped, dead, kept, abandoned, shared>>

----------------------------------------------------------------------------
Advance(r) == Claim(r) \/ Look(r) \/ Set(r) \/ Work(r) \/ Mark(r)
Consume(a) == StartPass(a) \/ EndPass(a) \/ Yield(a) \/ Take(a) \/ \E l \in Lives : Stream(a, l)

Next ==
  \/ Arrive \/ Crash
  \/ \E r \in Runners : Advance(r) \/ Refuse(r) \/ EmitRaises(r) \/ PassRaises(r)
  \/ \E m \in Mails : LeaseElapses(m)
  \/ \E a \in Apps : Consume(a) \/ Leave(a)
  \/ \E l \in Lives : Run(l)

----------------------------------------------------------------------------
(* Properties.                                                             *)

TypeOK ==
  /\ config \in Configs /\ arrived \subseteq Mails /\ passed \subseteq Mails
  /\ claims \in [Mails -> {"absent", "free", "claimed", "expired", "done"}]
  /\ pc \in [Runners -> {"off", "run", "create", "reclaim", "work", "mark", "wait"}]
  /\ mail \in [Runners -> {0} \cup Mails]
  /\ queue \in Seq(Mails) /\ batch \in [Apps -> Seq(Mails)]
  /\ got \in [Mails -> Nat] /\ topic \in [Mails -> Nat]
  /\ dropped \subseteq Mails /\ dead \subseteq Mails /\ kept \subseteq dead
  /\ lost \subseteq Mails /\ abandoned \subseteq Mails /\ shared \subseteq Mails
  /\ faults \in Nat

Done == {m \in Mails : claims[m] = "done"}
Delivered == {m \in Mails : got[m] > 0}
============================================================================
