------------------------------- MODULE Redrive -------------------------------
(***************************************************************************)
(* core/redrive.py: operators re-submit the durable dead letters while the *)
(* live pipeline goes on adding to them.                                   *)
(*                                                                         *)
(* Each record goes through a pipeline of its own, over a fresh in-memory  *)
(* dedupe store and a throwaway cursor store: its claim always succeeds,   *)
(* its attempt is always the first, and no other run sees either.  What    *)
(* the runs do share is the dead-letter store and the emitters.            *)
(***************************************************************************)
EXTENDS Naturals, FiniteSets

CONSTANTS
  Operators,    \* concurrent calls of redrive()
  NumRecords,   \* dead letters 1..NumRecords, in the order of their insertion
  Hopeless,     \* records whose root cause is not fixed: they fail for good
  MaxAttempts,  \* PipelineConfig.max_attempts
  OnFiltered,   \* PipelineConfig.on_filtered
  Limit,        \* list_pending's limit; NumRecords or more stands for None
  MaxGlitches,  \* bound on transient failures
  MaxAborts     \* bound on calls cut short by a crash or an exception

Records == 1 .. NumRecords

ASSUME RedriveAssumption ==
  /\ NumRecords \in Nat
  /\ Hopeless \subseteq Records
  /\ MaxAttempts \in Nat
  /\ OnFiltered \in {"tag", "drop"}
  /\ Limit \in Nat
  /\ MaxGlitches \in Nat
  /\ MaxAborts \in Nat

ASSUME FiniteOperators == IsFiniteSet(Operators)

VARIABLES
  arrived,   \* dead letters the live pipeline has put so far
  pending,   \* the records in the dead-letter store
  emits,     \* number of events emitted for each record's message
  dropped,   \* messages a filter dropped with on_filtered = "drop"
  released,  \* history: records whose resubmission failed with attempts left
  pc,        \* where each call stands
  todo,      \* the records of its listing it has not taken yet
  current,   \* the record in hand
  result,    \* the disposition of the record in hand
  glitches, aborts

operators == <<pc, todo, current, result>>
vars == <<arrived, pending, emits, dropped, released, operators, glitches, aborts>>

Init ==
  /\ arrived = {} /\ pending = {} /\ dropped = {} /\ released = {}
  /\ emits = [r \in Records |-> 0]
  /\ pc = [o \in Operators |-> "idle"]
  /\ todo = [o \in Operators |-> {}]
  /\ current = [o \in Operators |-> 0]
  /\ result = [o \in Operators |-> "none"]
  /\ glitches = 0 /\ aborts = 0

----------------------------------------------------------------------------
Goto(o, label) == pc' = [pc EXCEPT ![o] = label]

\* The first Limit records of the store, in the order of insertion.
Listing(set) == {r \in set : Cardinality({q \in set : q < r}) < Limit}

\* run_once returned with the record disposed of, or left alone.
Conclude(o, d) == result' = [result EXCEPT ![o] = d] /\ Goto(o, "settle")

\* The live pipeline dead-letters a message: mark_done follows, so it does so once.
DeadLetter(r) ==
  /\ r \notin arrived
  /\ arrived' = arrived \cup {r}
  /\ pending' = pending \cup {r}
  /\ UNCHANGED <<emits, dropped, released, operators, glitches, aborts>>

List(o) ==
  /\ pc[o] = "idle"
  /\ todo' = [todo EXCEPT ![o] = Listing(pending)]
  /\ Goto(o, "next")
  /\ UNCHANGED <<arrived, pending, emits, dropped, released, current, result, glitches, aborts>>

Take(o) ==
  /\ pc[o] = "next"
  /\ \E r \in todo[o] :
       /\ \A q \in todo[o] : r <= q
       /\ current' = [current EXCEPT ![o] = r]
       /\ todo' = [todo EXCEPT ![o] = @ \ {r}]
  /\ Goto(o, "work")
  /\ UNCHANGED <<arrived, pending, emits, dropped, released, result, glitches, aborts>>

Return(o) ==
  /\ pc[o] = "next"
  /\ todo[o] = {}
  /\ Goto(o, "idle")
  /\ UNCHANGED <<arrived, pending, emits, dropped, released, todo, current, result, glitches,
                 aborts>>

\* The fresh store's mark_done follows the emit: nobody else sees it.
Emit(o) ==
  /\ pc[o] = "work"
  /\ current[o] \notin Hopeless
  /\ emits' = [emits EXCEPT ![current[o]] = @ + 1]
  /\ Conclude(o, "emitted")
  /\ UNCHANGED <<arrived, pending, dropped, released, todo, current, glitches, aborts>>

FilterDrop(o) ==
  /\ pc[o] = "work"
  /\ current[o] \notin Hopeless
  /\ OnFiltered = "drop"
  /\ dropped' = dropped \cup {current[o]}
  /\ Conclude(o, "dropped")
  /\ UNCHANGED <<arrived, pending, emits, released, todo, current, glitches, aborts>>

\* A permanent failure, a size over the limit, or a failed retry after an auth error:
\* a stub event, and the record stays as it is (this pipeline has no dlq_store).
DeadLetterAgain(o) ==
  /\ pc[o] = "work"
  /\ current[o] \in Hopeless
  /\ Conclude(o, "dead_lettered")
  /\ UNCHANGED <<arrived, pending, emits, dropped, released, todo, current, glitches, aborts>>

\* A transient failure at the first attempt; the event may be out already when it is
\* the emitter's acknowledgement that is lost.
Glitch(o) ==
  /\ pc[o] = "work"
  /\ glitches < MaxGlitches
  /\ glitches' = glitches + 1
  /\ \/ UNCHANGED emits
     \/ current[o] \notin Hopeless /\ emits' = [emits EXCEPT ![current[o]] = @ + 1]
  /\ IF 1 >= MaxAttempts
       THEN Conclude(o, "dead_lettered") /\ UNCHANGED released
       ELSE Conclude(o, "released") /\ released' = released \cup {current[o]}
  /\ UNCHANGED <<arrived, pending, dropped, todo, current, aborts>>

\* Single-edit slips.
SettleAlwaysDeleting(o) ==
  /\ pc[o] = "settle"
  /\ pending' = pending \ {current[o]}
  /\ Goto(o, "next")
  /\ UNCHANGED <<arrived, emits, dropped, released, todo, current, result, glitches, aborts>>

SettleNeverDeleting(o) ==
  /\ pc[o] = "settle"
  /\ Goto(o, "next")
  /\ UNCHANGED <<arrived, pending, emits, dropped, released, todo, current, result, glitches,
                 aborts>>

\* Anything but a dead letter deletes the record: fetched >= 1 and dead_lettered = 0.
Settle(o) ==
  /\ pc[o] = "settle"
  /\ pending' = IF result[o] # "dead_lettered" THEN pending \ {current[o]} ELSE pending
  /\ Goto(o, "next")
  /\ UNCHANGED <<arrived, emits, dropped, released, todo, current, result, glitches, aborts>>

\* The operator's process dies, or an emitter's or the store's exception ends the call.
Abort(o) ==
  /\ pc[o] # "idle"
  /\ aborts < MaxAborts
  /\ aborts' = aborts + 1
  /\ Goto(o, "idle")
  /\ todo' = [todo EXCEPT ![o] = {}]
  /\ UNCHANGED <<arrived, pending, emits, dropped, released, current, result, glitches>>

Step(o) ==
  \/ List(o) \/ Take(o) \/ Return(o)
  \/ Emit(o) \/ FilterDrop(o) \/ DeadLetterAgain(o) \/ Glitch(o) \/ Settle(o)

Next ==
  \/ \E r \in Records : DeadLetter(r)
  \/ \E o \in Operators : Step(o) \/ Abort(o)

Spec == Init /\ [][Next]_vars

\* Operators call redrive again and again, and a call runs until it returns or aborts.
Fairness == \A o \in Operators : WF_vars(Step(o))

FairSpec == Spec /\ Fairness

----------------------------------------------------------------------------
(* Properties.                                                             *)

\* Every variable has its type.
TypeOK ==
  /\ arrived \subseteq Records /\ pending \subseteq Records
  /\ dropped \subseteq Records /\ released \subseteq Records
  /\ emits \in [Records -> Nat]
  /\ pc \in [Operators -> {"idle", "next", "work", "settle"}]
  /\ todo \in [Operators -> SUBSET Records]
  /\ current \in [Operators -> 0 .. NumRecords]
  /\ \A o \in Operators : pc[o] \in {"work", "settle"} => current[o] \in Records
  /\ result \in [Operators -> {"none", "emitted", "dropped", "dead_lettered", "released"}]
  /\ glitches \in Nat /\ aborts \in Nat

Resubmitted(r) == emits[r] > 0 \/ r \in dropped

\* "A record that reaches a non-DLQ terminal disposition is deleted from the store; one
\* that dead-letters again is kept" (5-6): what has left the store was delivered or dropped.
NothingLost == \A r \in arrived : r \in pending \/ Resubmitted(r)

\* Whatever operators, failures and crashes come between the listing and the delete, there
\* is one way only to lose a dead letter: a transient failure of its resubmission with
\* attempts left (130), and that takes max_attempts above 1.
LostOnlyByRelease ==
  /\ \A r \in arrived : r \in pending \/ Resubmitted(r) \/ r \in released
  /\ released # {} => MaxAttempts > 1 /\ glitches > 0

\* At-least-once is paid for (8-9): besides its first delivery, a message is emitted
\* again only for a second operator's stale listing, a lost acknowledgement, or a call
\* cut short between emit and delete.
DeliveriesPaidFor ==
  \A r \in Records : emits[r] <= Cardinality(Operators) + aborts + glitches

\* `limit` older records that fail for good fill every listing.
Reachable(r) == Cardinality({q \in Hopeless : q < r}) < Limit

\* A record whose root cause is fixed is redriven in the end, unless it is stuck behind
\* `limit` older ones that are not, or is lost by a release.
HealthyResubmitted ==
  \A r \in Records \ Hopeless :
    Reachable(r) =>
      ((r \in pending) ~> (r \notin pending /\ (Resubmitted(r) \/ r \in released)))

----------------------------------------------------------------------------
(* The inductive strengthening of LostOnlyByRelease.                       *)

\* Delivered, dropped or released.
Dealt(r) == Resubmitted(r) \/ r \in released

InductiveInv ==
  /\ TypeOK
  /\ LostOnlyByRelease
  /\ \A o \in Operators :
       pc[o] = "settle" => result[o] = "dead_lettered" \/ Dealt(current[o])

============================================================================
