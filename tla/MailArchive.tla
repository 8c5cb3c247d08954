---------------------------- MODULE MailArchive ----------------------------
(***************************************************************************)
(* The consuming application that comes with the repository                *)
(* (scripts/inbox_app.py over persistence/sqlite_store.py).  Published     *)
(* events are saved in a table by Pub/Sub callback threads; a browser page *)
(* lists conversations, opens one at a time, and polls.                    *)
(*                                                                         *)
(* `topic` belongs to whoever publishes: the number of copies of each      *)
(* mail's event that are published and not acknowledged.                   *)
(* Left out: the columns of a row but for its conversation and its read    *)
(* flag, the drawing of the page, and the download of attachments.         *)
(***************************************************************************)
EXTENDS Naturals, FiniteSets, Sequences

CONSTANTS
  Mails,       \* canonical_ids
  Keys,        \* conversations (thread_key)
  KeyOf,       \* the conversation of each mail: the root of its References
  Callbacks,   \* Pub/Sub callback threads
  MaxBreaks    \* bound on failed saves and restarts together

VARIABLES
  topic,
  rows,     \* the table, in the order of insertion
  read,     \* mails whose row says read
  pc, hand, \* each callback thread and its event
  open,     \* the page: openKey, as a set of at most one conversation
  pane,     \* the mails it renders
  opening,  \* openThread(): its conversation, its progress, the answer it holds
  polling,  \* refreshOpen(): the same
  \* history: no step reads these, but for the bound
  shown,    \* mails that were rendered at some time
  late,     \* mails saved while a conversation was being opened
  unsaved,  \* mails acknowledged although save() raised
  breaks

table   == <<rows, read>>
workers == <<pc, hand>>
page    == <<open, pane, opening, polling, shown>>
archive == <<table, workers, page, late, unsaved, breaks>>

Stored == {rows[i] : i \in DOMAIN rows}

\* thread(): the messages of a conversation.
Thread(k) == {m \in Stored : KeyOf[m] = k}

NoTask == [step |-> "none", keys |-> {}, mails |-> {}]

Init ==
  /\ rows = <<>> /\ read = {}
  /\ pc = [c \in Callbacks |-> "idle"] /\ hand = [c \in Callbacks |-> {}]
  /\ open = {} /\ pane = {} /\ opening = NoTask /\ polling = NoTask
  /\ shown = {} /\ late = {} /\ unsaved = {} /\ breaks = 0

----------------------------------------------------------------------------
(* The puller: save, and acknowledge in any case.                          *)

ReceiveAcking(c) ==
  /\ pc[c] = "idle"
  /\ \E m \in Mails :
       /\ Cardinality({d \in Callbacks : m \in hand[d]}) < topic[m]
       /\ hand' = [hand EXCEPT ![c] = {m}]
  /\ pc' = [pc EXCEPT ![c] = "ack"]
  /\ UNCHANGED <<topic, table, page, late, unsaved, breaks>>

Receive(c) ==
  /\ pc[c] = "idle"
  /\ \E m \in Mails :
       /\ Cardinality({d \in Callbacks : m \in hand[d]}) < topic[m]
       /\ hand' = [hand EXCEPT ![c] = {m}]
  /\ pc' = [pc EXCEPT ![c] = "save"]
  /\ UNCHANGED <<topic, table, page, late, unsaved, breaks>>

InsertOrReplace(m) ==
  /\ rows' = Append(SelectSeq(rows, LAMBDA n : n # m), m)
  /\ read' = read \ {m}

\* INSERT OR IGNORE.
Insert(m) ==
  /\ rows' = IF m \in Stored THEN rows ELSE Append(rows, m)
  /\ UNCHANGED read

Save(c) ==
  /\ pc[c] = "save"
  /\ \A m \in hand[c] :
       /\ Insert(m)
       /\ late' = IF opening.step \in {"render", "post"} /\ KeyOf[m] \in opening.keys
                    THEN late \cup {m} ELSE late
  /\ pc' = [pc EXCEPT ![c] = "ack"]
  /\ UNCHANGED <<topic, hand, page, unsaved, breaks>>

\* The table is locked, or the event does not parse.
SaveRaises(c) ==
  /\ pc[c] = "save" /\ breaks < MaxBreaks
  /\ breaks' = breaks + 1
  /\ unsaved' = unsaved \cup hand[c]
  /\ pc' = [pc EXCEPT ![c] = "ack"]
  /\ UNCHANGED <<topic, table, hand, page, late>>

\* The acknowledgement stands in the `finally` of the callback.
Ack(c) ==
  /\ pc[c] = "ack"
  /\ topic' = [m \in Mails |-> IF m \in hand[c] THEN topic[m] - 1 ELSE topic[m]]
  /\ pc' = [pc EXCEPT ![c] = "idle"] /\ hand' = [hand EXCEPT ![c] = {}]
  /\ UNCHANGED <<table, page, late, unsaved, breaks>>

RestartHolding ==
  /\ breaks < MaxBreaks /\ \E c \in Callbacks : pc[c] # "idle"
  /\ breaks' = breaks + 1
  /\ pc' = [c \in Callbacks |-> "idle"]
  /\ UNCHANGED <<topic, table, hand, page, late, unsaved>>

\* The application is restarted; the table stays, and so does the page.
Restart ==
  /\ breaks < MaxBreaks /\ \E c \in Callbacks : pc[c] # "idle"
  /\ breaks' = breaks + 1
  /\ pc' = [c \in Callbacks |-> "idle"] /\ hand' = [c \in Callbacks |-> {}]
  /\ UNCHANGED <<topic, table, page, late, unsaved>>

----------------------------------------------------------------------------
(* The page.                                                               *)

Render(task) == pane' = task.mails /\ shown' = shown \cup task.mails

\* A click on a conversation of the list.
Click(k) ==
  /\ opening = NoTask /\ Thread(k) # {}
  /\ open' = {k} /\ opening' = [step |-> "get", keys |-> {k}, mails |-> {}]
  /\ UNCHANGED <<topic, table, workers, pane, polling, shown, late, unsaved, breaks>>

OpenGetMarking ==
  /\ opening.step = "get"
  /\ \A k \in opening.keys :
       /\ opening' = [opening EXCEPT !.step = "render", !.mails = Thread(k)]
       /\ read' = read \cup Thread(k)
  /\ UNCHANGED <<topic, rows, workers, open, pane, polling, shown, late, unsaved, breaks>>

\* GET /api/thread, on behalf of openThread and of refreshOpen.
OpenGet ==
  /\ opening.step = "get"
  /\ \A k \in opening.keys :
       opening' = [opening EXCEPT !.step = "render", !.mails = Thread(k)]
  /\ UNCHANGED <<topic, table, workers, open, pane, polling, shown, late, unsaved, breaks>>

OpenRender ==
  /\ opening.step = "render"
  /\ Render(opening)
  /\ opening' = [opening EXCEPT !.step = "post"]
  /\ UNCHANGED <<topic, table, workers, open, polling, late, unsaved, breaks>>

\* POST /api/thread/read: mark_read of every row of the conversation.
OpenPost ==
  /\ opening.step = "post"
  /\ read' = read \cup UNION {Thread(k) : k \in opening.keys}
  /\ opening' = NoTask
  /\ UNCHANGED <<topic, rows, workers, open, pane, polling, shown, late, unsaved, breaks>>

\* The poll, every three seconds.
Poll ==
  /\ polling = NoTask /\ open # {}
  /\ \A k \in open : polling' = [step |-> "render", keys |-> {k}, mails |-> Thread(k)]
  /\ UNCHANGED <<topic, table, workers, open, pane, opening, shown, late, unsaved, breaks>>

\* It renders what differs from what was rendered last.
PollRender ==
  /\ polling.step = "render"
  /\ Render(polling)
  /\ polling' = NoTask
  /\ UNCHANGED <<topic, table, workers, open, opening, late, unsaved, breaks>>

----------------------------------------------------------------------------
Work(c) == Receive(c) \/ Save(c) \/ Ack(c)
Page == OpenGet \/ OpenRender \/ OpenPost
Refresh == Poll \/ PollRender

Next ==
  \/ Restart \/ \E c \in Callbacks : Work(c) \/ SaveRaises(c)
  \/ Page \/ Refresh \/ \E k \in Keys : Click(k)

----------------------------------------------------------------------------
(* Properties.                                                             *)

TypeOK ==
  /\ rows \in Seq(Mails) /\ read \subseteq Mails
  /\ pc \in [Callbacks -> {"idle", "save", "ack"}]
  /\ hand \in [Callbacks -> SUBSET Mails]
  /\ open \subseteq Keys /\ pane \subseteq Mails
  /\ opening.step \in {"none", "get", "render", "post"} /\ opening.keys \subseteq Keys
  /\ polling.step \in {"none", "render"} /\ polling.keys \subseteq Keys
  /\ shown \subseteq Mails /\ late \subseteq Mails /\ unsaved \subseteq Mails
  /\ breaks \in Nat
============================================================================
