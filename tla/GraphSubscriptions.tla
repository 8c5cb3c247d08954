------------------------- MODULE GraphSubscriptions -------------------------
(***************************************************************************)
(* Keeping Microsoft Graph subscriptions alive (adapters/graph             *)
(* subscriptions.py, reconciler.py, lifecycle.py).  A timer thread runs    *)
(* reconcile() and renew_all(); the thread that consumes events answers    *)
(* Graph's lifecycle signals.  Both use one subscription manager, and each *)
(* call to Graph is a step of its own.                                     *)
(*                                                                         *)
(* Three places know of a subscription: Graph, the manager's               *)
(* `_stream_by_handle`, and the reconciler's `_handles`, which is replaced *)
(* only when a whole pass has succeeded.  src/ builds neither the          *)
(* reconciler nor the manager into a service; the two threads are those of *)
(* the docstrings (a timer tick, and the lifecycle signals on the          *)
(* consumer).  GraphIngest has the third lifecycle signal, `missed`.       *)
(***************************************************************************)
EXTENDS Naturals, FiniteSets, SequencesExt

CONSTANTS
  Desired,      \* desired_streams(): mailboxes x folders, in order
  MaxSubs,      \* bound on the subscriptions ever created
  MaxRemovals,  \* bound on the subscriptions Graph removes
  MaxSignals,   \* bound on the lifecycle signals
  MaxFailures   \* bound on calls that fail and on crashes together

Streams == ToSet(Desired)
Ids == 1 .. MaxSubs
Foreign == 0      \* another application's subscription to one of our folders
Nothing == MaxSubs + 1    \* no subscription

ASSUME SubscriptionsAssumption ==
  /\ Desired \in Seq(Streams) /\ Desired # <<>> /\ IsInjective(Desired)
  /\ MaxSubs \in Nat /\ MaxRemovals \in Nat /\ MaxSignals \in Nat /\ MaxFailures \in Nat

Timer == "timer"       \* the scheduler's thread
Consumer == "consumer" \* the thread that handles lifecycle signals
Actors == {Timer, Consumer}

VARIABLES
  \* Graph
  next,      \* the id of the next subscription
  live,      \* subscriptions that exist
  resource,  \* the folder each one watches
  signals,   \* lifecycle signals not yet acknowledged
  \* the process
  up,
  known,     \* manager._stream_by_handle: the stream of a handle, as a set of at most one
  handles,   \* reconciler._handles, in the order of Desired
  pc,        \* what each thread does next
  stream,    \* the stream each thread creates a subscription for
  actual,    \* reconcile(): the subscription list_subscriptions showed for each folder
  fresh,     \* the handles the pass has gathered
  task,      \* the signal the consumer answers
  \* history: no step reads these, but for the bounds
  removals, sent, failures

graph   == <<next, live, resource>>
memory  == <<up, known, handles>>
locals  == <<pc, stream, actual, fresh, task>>
counters == <<removals, sent, failures>>
vars    == <<graph, signals, memory, locals, counters>>

Signal == [kind: {"reauthorizationRequired", "subscriptionRemoved"}, id: Ids]
NoSignal == [kind |-> "none", id |-> Nothing]

NoneKnown == [i \in {Foreign} \cup Ids |-> {}]
NoneListed == [s \in Streams |-> Nothing]

Init ==
  /\ next = 1 /\ live = {Foreign} /\ signals = {}
  /\ resource = [i \in {Foreign} \cup Ids |-> Desired[1]]
  /\ up = FALSE /\ known = NoneKnown /\ handles = <<>>
  /\ pc = [a \in Actors |-> "idle"] /\ stream = [a \in Actors |-> Desired[1]]
  /\ actual = NoneListed /\ fresh = <<>> /\ task = NoSignal
  /\ removals = 0 /\ sent = 0 /\ failures = 0

----------------------------------------------------------------------------
MayFail == failures < MaxFailures

Goto(a, label) == pc' = [pc EXCEPT ![a] = label]

Ours == live \ {Foreign}
On(s, subs) == {i \in subs : resource[i] = s}

----------------------------------------------------------------------------
(* Graph: subscriptions run out, or must be reauthorised, and Graph says   *)
(* so if the signal is not lost.                                           *)

Expire(i) ==
  /\ removals < MaxRemovals /\ i \in Ours
  /\ live' = live \ {i} /\ removals' = removals + 1
  /\ \/ UNCHANGED <<signals, sent>>
     \/ /\ sent < MaxSignals
        /\ sent' = sent + 1
        /\ signals' = signals \cup {[kind |-> "subscriptionRemoved", id |-> i]}
  /\ UNCHANGED <<next, resource, memory, locals, failures>>

Reauthorize(i) ==
  /\ sent < MaxSignals /\ i \in Ours
  /\ sent' = sent + 1
  /\ signals' = signals \cup {[kind |-> "reauthorizationRequired", id |-> i]}
  /\ UNCHANGED <<graph, memory, locals, removals, failures>>

\* The process dies with what it knew.
Crash ==
  /\ up /\ MayFail
  /\ failures' = failures + 1
  /\ up' = FALSE /\ known' = NoneKnown /\ handles' = <<>>
  /\ pc' = [a \in Actors |-> "idle"] /\ stream' = [a \in Actors |-> Desired[1]]
  /\ actual' = NoneListed /\ fresh' = <<>> /\ task' = NoSignal
  /\ UNCHANGED <<graph, signals, removals, sent>>

Boot ==
  /\ ~up /\ up' = TRUE
  /\ UNCHANGED <<graph, signals, known, handles, locals, counters>>

----------------------------------------------------------------------------
(* One result of a thread: a handle for the stream it was asked for.       *)

\* The timer keeps the handle for the end of its pass, when `_handles` is replaced by
\* all of them; the consumer has no use for it, and acknowledges its signal.
Got(a, i) ==
  IF a = Timer
    THEN LET gathered == Append(fresh, i)
             again == IF pc[a] \in {"patch", "recreate"} THEN "patch" ELSE "place" IN
         /\ IF Len(gathered) = Len(Desired)
              THEN handles' = gathered /\ fresh' = <<>> /\ actual' = NoneListed /\ Goto(a, "idle")
              ELSE fresh' = gathered /\ Goto(a, again) /\ UNCHANGED <<handles, actual>>
         /\ UNCHANGED <<signals, task>>
    ELSE /\ signals' = signals \ {task} /\ task' = NoSignal
         /\ Goto(a, "idle")
         /\ UNCHANGED <<handles, actual, fresh>>

\* The handle the thread renews, and the stream the pass has come to.
Target(a) == IF a = Timer THEN handles[Len(fresh) + 1] ELSE task.id
Due == Desired[Len(fresh) + 1]

----------------------------------------------------------------------------
(* The manager: renew_watch and ensure_watch.                              *)

\* PATCH succeeds.
Patch(a) ==
  /\ pc[a] = "patch" /\ Target(a) \in live
  /\ Got(a, Target(a))
  /\ UNCHANGED <<graph, up, known, stream, counters>>

\* PATCH answers 404: the stream the handle was known for gets a new subscription.
Missing(a) ==
  /\ pc[a] = "patch" /\ Target(a) \notin live /\ known[Target(a)] # {}
  /\ \E s \in known[Target(a)] : stream' = [stream EXCEPT ![a] = s]
  /\ Goto(a, "recreate")
  /\ UNCHANGED <<graph, signals, memory, actual, fresh, task, counters>>

\* POST /subscriptions; a replaced handle is forgotten.
Create(a) ==
  /\ pc[a] \in {"create", "recreate"} /\ next \in Ids
  /\ live' = live \cup {next} /\ next' = next + 1
  /\ resource' = [resource EXCEPT ![next] = stream[a]]
  /\ known' = [i \in DOMAIN known |->
                 IF i = next THEN {stream[a]}
                 ELSE IF pc[a] = "recreate" /\ i = Target(a) THEN {} ELSE known[i]]
  /\ Got(a, next)
  /\ UNCHANGED <<up, stream, counters>>

\* The subscription is created, and the answer is lost.
CreateUnheard(a) ==
  /\ pc[a] \in {"create", "recreate"} /\ next \in Ids /\ MayFail
  /\ failures' = failures + 1
  /\ live' = live \cup {next} /\ next' = next + 1
  /\ resource' = [resource EXCEPT ![next] = stream[a]]
  /\ Goto(a, "raise")
  /\ UNCHANGED <<signals, memory, stream, actual, fresh, task, removals, sent>>

\* A call fails otherwise.
CallFails(a) ==
  /\ pc[a] \in {"patch", "create", "recreate"} /\ MayFail
  /\ failures' = failures + 1
  /\ Goto(a, "raise")
  /\ UNCHANGED <<graph, signals, memory, stream, actual, fresh, task, removals, sent>>

\* 404 for a handle nobody knows the stream of.
Unknown(a) ==
  /\ pc[a] = "patch" /\ Target(a) \notin live /\ known[Target(a)] = {}
  /\ Goto(a, "raise")
  /\ UNCHANGED <<graph, signals, memory, stream, actual, fresh, task, counters>>

\* The error ends the pass, with `_handles` as they were; a signal is delivered again,
\* or passed by the checkpoint of a later event.
Raise(a) ==
  /\ pc[a] = "raise" /\ Goto(a, "idle")
  /\ IF a = Timer
       THEN fresh' = <<>> /\ actual' = NoneListed /\ UNCHANGED <<signals, task>>
       ELSE /\ task' = NoSignal
            /\ signals' \in {signals, signals \ {task}}
            /\ UNCHANGED <<actual, fresh>>
  /\ UNCHANGED <<graph, memory, stream, counters>>

----------------------------------------------------------------------------
(* The two passes of the timer, and the lifecycle handler.                 *)

StartReconcileUnfiltered ==
  /\ up /\ pc[Timer] = "idle"
  /\ actual' \in [Streams -> live \cup {Nothing}]
  /\ \A s \in Streams : actual'[s] \in
       IF On(s, live) = {} THEN {Nothing} ELSE On(s, live)
  /\ Goto(Timer, "place")
  /\ UNCHANGED <<graph, signals, memory, stream, fresh, task, counters>>

\* list_subscriptions: one of ours for each folder that has any.
StartReconcile ==
  /\ up /\ pc[Timer] = "idle"
  /\ actual' \in [Streams -> Ours \cup {Nothing}]
  /\ \A s \in Streams : actual'[s] \in
       IF On(s, Ours) = {} THEN {Nothing} ELSE On(s, Ours)
  /\ Goto(Timer, "place")
  /\ UNCHANGED <<graph, signals, memory, stream, fresh, task, counters>>

\* A folder that has one is tracked, and one that has none gets one.
Track ==
  /\ pc[Timer] = "place" /\ actual[Due] # Nothing
  /\ known' = [known EXCEPT ![actual[Due]] = {Due}]
  /\ Got(Timer, actual[Due])
  /\ UNCHANGED <<graph, up, stream, counters>>

PlaceAnyway ==
  /\ pc[Timer] = "place"
  /\ stream' = [stream EXCEPT ![Timer] = Due]
  /\ Goto(Timer, "create")
  /\ UNCHANGED <<graph, signals, memory, actual, fresh, task, counters>>

Place ==
  /\ pc[Timer] = "place" /\ actual[Due] = Nothing
  /\ stream' = [stream EXCEPT ![Timer] = Due]
  /\ Goto(Timer, "create")
  /\ UNCHANGED <<graph, signals, memory, actual, fresh, task, counters>>

StartRenewAll ==
  /\ up /\ pc[Timer] = "idle" /\ handles # <<>>
  /\ Goto(Timer, "patch")
  /\ UNCHANGED <<graph, signals, memory, stream, actual, fresh, task, counters>>

\* handle(): renew the subscription, or watch its stream again.
Handle ==
  /\ up /\ pc[Consumer] = "idle"
  /\ \E signal \in signals :
       /\ task' = signal
       /\ IF signal.kind = "reauthorizationRequired"
            THEN Goto(Consumer, "patch") /\ UNCHANGED stream
            ELSE /\ Goto(Consumer, "create")
                 /\ stream' = [stream EXCEPT ![Consumer] = resource[signal.id]]
  /\ UNCHANGED <<graph, signals, memory, actual, fresh, counters>>

----------------------------------------------------------------------------
Step(a) == Patch(a) \/ Missing(a) \/ Create(a) \/ Unknown(a) \/ Raise(a)
Fault(a) == CreateUnheard(a) \/ CallFails(a)
Reconcile == Track \/ Place

Next ==
  \/ Boot \/ Crash
  \/ \E i \in Ids : Expire(i) \/ Reauthorize(i)
  \/ StartReconcile \/ Reconcile \/ StartRenewAll \/ Handle
  \/ \E a \in Actors : Step(a) \/ Fault(a)

Spec == Init /\ [][Next]_vars

\* The process is restarted, and a pass or an answer that has begun goes on.  Nobody need
\* begin one: nothing in src/ calls reconcile() or renew_all().
Fairness ==
  /\ WF_vars(Boot) /\ WF_vars(Reconcile)
  /\ \A a \in Actors : WF_vars(Step(a))

FairSpec == Spec /\ Fairness

----------------------------------------------------------------------------
(* Properties.                                                             *)

Slots == {Foreign, Nothing} \cup Ids

\* Every variable has its type.
TypeOK ==
  /\ next \in 1 .. Nothing /\ live \subseteq {Foreign} \cup Ids
  /\ resource \in [{Foreign} \cup Ids -> Streams]
  /\ signals \subseteq Signal /\ task \in Signal \cup {NoSignal}
  /\ up \in BOOLEAN
  /\ known \in [{Foreign} \cup Ids -> SUBSET Streams]
  /\ handles \in Seq({Foreign} \cup Ids) /\ Len(handles) \in {0, Len(Desired)}
  /\ pc \in [Actors -> {"idle", "place", "patch", "create", "recreate", "raise"}]
  /\ stream \in [Actors -> Streams]
  /\ actual \in [Streams -> Slots]
  /\ fresh \in Seq({Foreign} \cup Ids) /\ Len(fresh) < Len(Desired)
  /\ removals \in Nat /\ sent \in Nat /\ failures \in Nat

\* A handle nobody can recreate (its stream is forgotten) is one some renewal replaced
\* in a pass that then failed, or behind the reconciler's back by the consumer: without
\* failed calls and signals neither `_handles` nor the handles a pass has gathered
\* in their place ever hold one.
TrackedIsKnown ==
  failures = 0 /\ sent = 0 =>
    \A n \in DOMAIN handles :
      known[IF n <= Len(fresh) THEN fresh[n] ELSE handles[n]] # {}

\* What the manager and the reconciler believe of a handle is what Graph was asked for,
\* and neither ever takes up another application's subscription (reconciler.py 3-5),
\* whatever was recreated behind whose back.
BeliefsTrue ==
  /\ TypeOK /\ TrackedIsKnown
  /\ \A i \in Ids : known[i] \subseteq {resource[i]}
  /\ known[Foreign] = {}
  /\ \A n \in DOMAIN handles : handles[n] # Foreign /\ resource[handles[n]] = Desired[n]

\* Folders are not watched twice for nothing: overlapping 404s, stale listings, expiries
\* and restarts add no subscription beside a live one; each spare one is paid for by a
\* signal the consumer answered without asking the reconciler, or by a call that failed
\* (an answer that was lost, a reconcile() that raised midway and left `_handles` behind).
SparesPaidFor == \A s \in Streams : Cardinality(On(s, Ours)) <= 1 + sent + failures

\* Ingestion does not stop silently (lifecycle.py 1-3): again and again every desired
\* folder has a subscription of ours, whatever Graph removed and whichever signals and
\* calls were lost.  It is a promise to a caller: nothing in src/ calls reconcile(), and who
\* calls it again and again, with renew_all() and signals in between or not, has this.
EventuallyWatched ==
  []<><<StartReconcile>>_vars => []<>(\A s \in Streams : On(s, Ours) # {})

============================================================================
