---------------------- MODULE GraphSubscriptionsProofs ----------------------
(***************************************************************************)
(* Proofs about GraphSubscriptions: what the manager and the reconciler    *)
(* believe is true, and spare subscriptions are paid for, for any list of  *)
(* folders and any number of removals, signals, failures and restarts.     *)
(***************************************************************************)
EXTENDS GraphSubscriptions, FiniteSetTheorems, TLAPS

----------------------------------------------------------------------------
(* The inductive invariants.                                               *)

\* Ids are given out once; the consumer answers a signal that is still there; signals are
\* no more than were sent.
Threading ==
  /\ IsFiniteSet(signals) /\ Cardinality(signals) <= sent
  /\ \A i \in live : i < next
  /\ pc[Consumer] # "place"
  /\ pc[Consumer] # "idle" => task \in signals
  /\ pc[Timer] \in {"patch", "recreate"} => handles # <<>>

\* A handle that stands for folder s is a subscription of ours that was made for s.
For(i, s) == i \in Ids /\ i < next /\ resource[i] = s

KnownTrue ==
  /\ \A i \in Ids : known[i] \subseteq {resource[i]} /\ (i >= next => known[i] = {})
  /\ known[Foreign] = {}

\* The manager's memory, the two lists of handles, a listing however old, and the creation
\* that is under way agree with what Graph was asked for.
Beliefs ==
  /\ KnownTrue
  /\ \A n \in DOMAIN handles : For(handles[n], Desired[n])
  /\ \A n \in DOMAIN fresh : For(fresh[n], Desired[n])
  /\ \A s \in Streams : actual[s] # Nothing => For(actual[s], s)
  /\ pc[Timer] \in {"create", "recreate"} => stream[Timer] = Due

\* As long as nothing failed and no signal was sent, the handles gathered and those still
\* to be renewed are known to the manager.
Remembered ==
  failures = 0 /\ sent = 0 =>
    /\ pc[Timer] # "raise"
    /\ \A n \in DOMAIN fresh : known[fresh[n]] # {}
    /\ \A n \in DOMAIN handles : n > Len(fresh) => known[handles[n]] # {}

\* The subscriptions of a folder and the signals nobody has answered, against all that
\* was sent and failed.
Within(s, k) == Cardinality(On(s, Ours)) + Cardinality(signals) <= sent + failures + k

\* There is room for one more subscription of a folder wherever the timer would make one:
\* in a creation under way, for a listing that shows none alive, for a handle that is gone
\* and known.  What a reconcile() has passed is out of the way once it succeeds, and one
\* failure older if it does not.
Covered(i, s) == i \notin live => Within(s, 0)

Spared ==
  /\ \A s \in Streams : Within(s, 1)
  /\ pc[Timer] \in {"create", "recreate"} => Within(stream[Timer], 0)
  /\ pc[Timer] \in {"place", "create"} =>
       \A n \in DOMAIN Desired : n > Len(fresh) => Covered(actual[Desired[n]], Desired[n])
  /\ \A n \in DOMAIN fresh : Covered(fresh[n], Desired[n])
  /\ \A n \in DOMAIN handles :
       /\ n > Len(fresh) \/ pc[Timer] \notin {"place", "create"}
       /\ known[handles[n]] # {}
       => Covered(handles[n], Desired[n])

SubscriptionsInv == TypeOK /\ Threading /\ Beliefs /\ Remembered /\ Spared

----------------------------------------------------------------------------
(* What a result does with the lists.                                      *)

\* The last folder of a pass: `_handles` becomes what was gathered.
Finishes(i) ==
  /\ Len(fresh) + 1 = Len(Desired)
  /\ handles' = Append(fresh, i) /\ fresh' = <<>> /\ actual' = NoneListed
  /\ pc' = [pc EXCEPT ![Timer] = "idle"]

GoesOn(i) ==
  /\ Len(fresh) + 1 < Len(Desired)
  /\ fresh' = Append(fresh, i)
  /\ pc' = [pc EXCEPT ![Timer] = IF pc[Timer] \in {"patch", "recreate"} THEN "patch" ELSE "place"]
  /\ UNCHANGED <<handles, actual>>

\* What Got() does, told apart by thread and by whether the pass is over.
LEMMA GotTimer ==
  ASSUME TypeOK, NEW i \in {Foreign} \cup Ids, Got(Timer, i)
  PROVE  /\ UNCHANGED <<signals, task>>
         /\ Finishes(i) \/ GoesOn(i)
<1>1. /\ Append(fresh, i) \in Seq({Foreign} \cup Ids) /\ Len(Append(fresh, i)) = Len(fresh) + 1
      /\ Len(fresh) \in Nat /\ Len(Desired) \in Nat /\ Len(fresh) < Len(Desired)
  BY SubscriptionsAssumption DEF TypeOK
<1>2. QED
  BY <1>1 DEF Got, Finishes, GoesOn, Goto

LEMMA GotConsumer ==
  ASSUME NEW i, Got(Consumer, i)
  PROVE  /\ signals' = signals \ {task} /\ task' = NoSignal
         /\ pc' = [pc EXCEPT ![Consumer] = "idle"]
         /\ UNCHANGED <<handles, actual, fresh>>
BY DEF Got, Goto, Timer, Consumer

\* The list a pass gathers, one longer.
LEMMA Gathered ==
  ASSUME TypeOK, NEW i \in {Foreign} \cup Ids
  PROVE  /\ Append(fresh, i) \in Seq({Foreign} \cup Ids)
         /\ Len(Append(fresh, i)) = Len(fresh) + 1
         /\ DOMAIN Append(fresh, i) = 1 .. Len(fresh) + 1
         /\ Append(fresh, i)[Len(fresh) + 1] = i
         /\ \A n \in 1 .. Len(fresh) : Append(fresh, i)[n] = fresh[n]
         /\ DOMAIN fresh = 1 .. Len(fresh) /\ Len(fresh) \in Nat
BY DEF TypeOK

\* A result keeps the types of all it changes.
LEMMA GotTyped ==
  ASSUME TypeOK, NEW a \in Actors, NEW i \in {Foreign} \cup Ids, Got(a, i)
  PROVE  /\ handles' \in Seq({Foreign} \cup Ids) /\ Len(handles') \in {0, Len(Desired)}
         /\ fresh' \in Seq({Foreign} \cup Ids) /\ Len(fresh') < Len(Desired)
         /\ actual' \in [Streams -> Slots]
         /\ pc' \in [Actors -> {"idle", "place", "patch", "create", "recreate", "raise"}]
         /\ signals' \subseteq Signal /\ task' \in Signal \cup {NoSignal}
<1>1. CASE a = Timer
  <2>1. UNCHANGED <<signals, task>> /\ (Finishes(i) \/ GoesOn(i))
    BY <1>1, GotTimer
  <2>2. Len(Desired) \in Nat /\ Len(Desired) > 0
    BY SubscriptionsAssumption
  <2>3. CASE Finishes(i)
    <3>1. fresh' \in Seq({Foreign} \cup Ids) /\ Len(fresh') < Len(Desired)
      BY <2>2, <2>3 DEF Finishes
    <3>2. actual' \in [Streams -> Slots]
      BY <2>3 DEF Finishes, NoneListed, Slots
    <3>3. QED
      BY <2>1, <2>2, <2>3, <3>1, <3>2, Gathered DEF Finishes, TypeOK
  <2>4. CASE GoesOn(i)
    BY <2>1, <2>2, <2>4, Gathered DEF GoesOn, TypeOK
  <2>5. QED
    BY <2>1, <2>3, <2>4
<1>2. CASE a = Consumer
  BY <1>2, GotConsumer DEF TypeOK
<1>3. QED
  BY <1>1, <1>2 DEF Actors

\* The handle a thread works on, and the folder a pass has come to.
LEMMA Aims ==
  ASSUME SubscriptionsInv
  PROVE  /\ \A a \in Actors : pc[a] \in {"patch", "recreate"} => Target(a) \in Ids
         /\ pc[Timer] \in {"patch", "recreate"} =>
              /\ DOMAIN handles = DOMAIN Desired
              /\ Target(Timer) = handles[Len(fresh) + 1]
              /\ For(Target(Timer), Due)
         /\ Len(fresh) + 1 \in DOMAIN Desired /\ Due \in Streams
         /\ DOMAIN Desired = 1 .. Len(Desired) /\ Len(Desired) \in Nat /\ Len(Desired) > 0
         /\ \A n \in DOMAIN Desired : Desired[n] \in Streams
         /\ Desired[1] \in Streams
<1>1. /\ Len(fresh) + 1 \in DOMAIN Desired /\ Due \in Streams
      /\ DOMAIN Desired = 1 .. Len(Desired) /\ Len(Desired) \in Nat /\ Len(Desired) > 0
      /\ \A n \in DOMAIN Desired : Desired[n] \in Streams
      /\ Desired[1] \in Streams
  BY SubscriptionsAssumption DEF SubscriptionsInv, TypeOK, Due
<1>2. ASSUME pc[Timer] \in {"patch", "recreate"}
      PROVE  /\ DOMAIN handles = DOMAIN Desired
             /\ Target(Timer) = handles[Len(fresh) + 1]
             /\ For(Target(Timer), Due)
  <2>1. Len(handles) = Len(Desired) /\ DOMAIN handles = 1 .. Len(handles)
    BY <1>1, <1>2 DEF SubscriptionsInv, TypeOK, Threading
  <2>2. QED
    BY <1>1, <2>1 DEF SubscriptionsInv, Beliefs, Target, Due
<1>3. ASSUME pc[Consumer] \in {"patch", "recreate"} PROVE Target(Consumer) \in Ids
  BY <1>3 DEF SubscriptionsInv, Threading, TypeOK, Target, Timer, Consumer, Signal
<1>4. QED
  BY <1>1, <1>2, <1>3 DEF For, Actors

----------------------------------------------------------------------------
(* Types.                                                                  *)

LEMMA TypesKept == SubscriptionsInv /\ [Next]_vars => TypeOK'
<1> SUFFICES ASSUME SubscriptionsInv, [Next]_vars PROVE TypeOK'
  OBVIOUS
<1> USE DEF graph, memory, locals, counters
<1>0. TypeOK /\ Threading
  BY DEF SubscriptionsInv
<1>1. ASSUME NEW i \in Ids, Expire(i) PROVE TypeOK'
  BY <1>0, <1>1 DEF TypeOK, Expire, Signal, Ours
<1>2. ASSUME NEW i \in Ids, Reauthorize(i) PROVE TypeOK'
  BY <1>0, <1>2 DEF TypeOK, Reauthorize, Signal
<1>3. CASE Crash
  <2>1. /\ known' \in [{Foreign} \cup Ids -> SUBSET Streams]
        /\ actual' \in [Streams -> Slots]
        /\ stream' \in [Actors -> Streams]
    BY <1>3, Aims DEF Crash, NoneKnown, NoneListed, Slots
  <2>2. /\ handles' \in Seq({Foreign} \cup Ids) /\ Len(handles') = 0
        /\ fresh' \in Seq({Foreign} \cup Ids) /\ Len(fresh') < Len(Desired)
    BY <1>3, Aims DEF Crash
  <2>3. QED
    <3>1. /\ up' = FALSE /\ task' = NoSignal /\ failures' = failures + 1
          /\ UNCHANGED <<next, live, resource, signals, removals, sent>>
      BY <1>3 DEF Crash
    <3>2. pc' \in [Actors -> {"idle", "place", "patch", "create", "recreate", "raise"}]
      BY <1>3 DEF Crash
    <3>3. failures' \in Nat
      BY <1>0, <3>1 DEF TypeOK
    <3>4. QED
      BY <1>0, <2>1, <2>2, <3>1, <3>2, <3>3 DEF TypeOK
<1>4. CASE Boot
  BY <1>0, <1>4 DEF TypeOK, Boot
<1>5. ASSUME NEW a \in Actors, Patch(a) PROVE TypeOK'
  <2>1. Target(a) \in {Foreign} \cup Ids
    BY <1>5, Aims DEF Patch
  <2>2. QED
    BY <1>0, <1>5, <2>1, GotTyped DEF TypeOK, Patch
<1>6. ASSUME NEW a \in Actors, Missing(a) PROVE TypeOK'
  <2>1. PICK s \in known[Target(a)] : stream' = [stream EXCEPT ![a] = s]
    BY <1>6 DEF Missing
  <2>2. s \in Streams
    BY <1>0, <1>6, <2>1, Aims DEF Missing, TypeOK
  <2>3. QED
    BY <1>0, <1>6, <2>1, <2>2 DEF TypeOK, Missing, Goto
<1>7. ASSUME NEW a \in Actors, Create(a) PROVE TypeOK'
  <2>1. next \in {Foreign} \cup Ids /\ Got(a, next)
    BY <1>7 DEF Create
  <2>2. next' \in 1 .. Nothing /\ live' \subseteq {Foreign} \cup Ids
    BY <1>0, <1>7, SubscriptionsAssumption DEF TypeOK, Create, Ids, Nothing
  <2>3. resource' \in [{Foreign} \cup Ids -> Streams] /\ known' \in [{Foreign} \cup Ids -> SUBSET Streams]
    BY <1>0, <1>7 DEF TypeOK, Create
  <2>4. QED
    BY <1>0, <1>7, <2>1, <2>2, <2>3, GotTyped DEF TypeOK, Create
<1>8. ASSUME NEW a \in Actors, CreateUnheard(a) PROVE TypeOK'
  <2>2. next' \in 1 .. Nothing /\ live' \subseteq {Foreign} \cup Ids
    BY <1>0, <1>8, SubscriptionsAssumption DEF TypeOK, CreateUnheard, Ids, Nothing
  <2>3. resource' \in [{Foreign} \cup Ids -> Streams]
    BY <1>0, <1>8 DEF TypeOK, CreateUnheard
  <2>4. QED
    BY <1>0, <1>8, <2>2, <2>3 DEF TypeOK, CreateUnheard, Goto
<1>9. ASSUME NEW a \in Actors, CallFails(a) PROVE TypeOK'
  BY <1>0, <1>9 DEF TypeOK, CallFails, Goto
<1>10. ASSUME NEW a \in Actors, Unknown(a) PROVE TypeOK'
  BY <1>0, <1>10 DEF TypeOK, Unknown, Goto
<1>11. ASSUME NEW a \in Actors, Raise(a) PROVE TypeOK'
  <2>1. /\ <<>> \in Seq({Foreign} \cup Ids) /\ Len(<<>>) < Len(Desired)
        /\ NoneListed \in [Streams -> Slots]
    BY Aims DEF NoneListed, Slots
  <2>2. /\ fresh' \in Seq({Foreign} \cup Ids) /\ Len(fresh') < Len(Desired)
        /\ actual' \in [Streams -> Slots]
    BY <1>0, <1>11, <2>1 DEF TypeOK, Raise
  <2>3. QED
    BY <1>0, <1>11, <2>2 DEF TypeOK, Raise, Goto
<1>12. CASE StartReconcile
  BY <1>0, <1>12 DEF TypeOK, StartReconcile, Goto, Slots, Ours
<1>13. CASE Track
  <2>1. actual[Due] \in Ids
    BY <1>13, Aims DEF SubscriptionsInv, Beliefs, For, Track
  <2>2. QED
    BY <1>0, <1>13, <2>1, Aims, GotTyped DEF TypeOK, Track, Actors
<1>14. CASE Place
  BY <1>0, <1>14, Aims DEF TypeOK, Place, Goto, Actors
<1>15. CASE StartRenewAll
  BY <1>0, <1>15 DEF TypeOK, StartRenewAll, Goto
<1>16. CASE Handle
  BY <1>0, <1>16 DEF TypeOK, Handle, Goto, Signal
<1>17. CASE UNCHANGED vars
  BY <1>0, <1>17 DEF TypeOK, vars
<1>18. QED
  BY <1>1, <1>2, <1>3, <1>4, <1>5, <1>6, <1>7, <1>8, <1>9, <1>10, <1>11, <1>12, <1>13, <1>14,
     <1>15, <1>16, <1>17 DEF Next, Step, Fault, Reconcile

----------------------------------------------------------------------------
(* Threading.                                                              *)

\* A signal that is taken away is one less, and one that is added at most one more.
LEMMA SignalCount ==
  ASSUME IsFiniteSet(signals), NEW x
  PROVE  /\ IsFiniteSet(signals \cup {x}) /\ IsFiniteSet(signals \ {x})
         /\ Cardinality(signals) \in Nat
         /\ Cardinality(signals \cup {x}) \in Nat /\ Cardinality(signals \ {x}) \in Nat
         /\ Cardinality(signals \cup {x}) <= Cardinality(signals) + 1
         /\ Cardinality(signals \ {x}) <= Cardinality(signals)
         /\ x \in signals => Cardinality(signals \ {x}) = Cardinality(signals) - 1
<1>1. PICK S : S = signals
  OBVIOUS
<1>2. IsFiniteSet(S) /\ Cardinality(S) \in Nat
  BY <1>1, FS_CardinalityType
<1>3. /\ IsFiniteSet(S \cup {x})
      /\ Cardinality(S \cup {x}) = IF x \in S THEN Cardinality(S) ELSE Cardinality(S) + 1
  BY <1>2, FS_AddElement
<1>4. /\ IsFiniteSet(S \ {x})
      /\ Cardinality(S \ {x}) = IF x \in S THEN Cardinality(S) - 1 ELSE Cardinality(S)
  BY <1>2, FS_RemoveElement
<1>5. Cardinality(S \ {x}) \in Nat
  BY <1>4, FS_CardinalityType
<1>6. QED
  BY <1>1, <1>2, <1>3, <1>4, <1>5

LEMMA ThreadingKept == SubscriptionsInv /\ [Next]_vars => Threading'
<1> SUFFICES ASSUME SubscriptionsInv, [Next]_vars PROVE Threading'
  OBVIOUS
<1> USE DEF graph, memory, locals, counters
<1>0. TypeOK /\ Threading /\ next \in Nat /\ (\A i \in live : i \in Nat)
  BY SubscriptionsAssumption DEF SubscriptionsInv, TypeOK, Ids, Foreign, Nothing
<1>a. Timer # Consumer
  BY DEF Timer, Consumer
<1>d. ASSUME NEW x, (sent' = sent /\ signals' = signals) \/ (sent' = sent + 1 /\ signals' = signals \cup {x})
      PROVE  IsFiniteSet(signals') /\ Cardinality(signals') <= sent' /\ signals \subseteq signals'
  <2>1. /\ IsFiniteSet(signals) /\ Cardinality(signals) \in Nat /\ Cardinality(signals) <= sent
        /\ IsFiniteSet(signals \cup {x}) /\ Cardinality(signals \cup {x}) \in Nat
        /\ Cardinality(signals \cup {x}) <= Cardinality(signals) + 1
    BY <1>0, SignalCount DEF Threading
  <2>2. sent \in Nat
    BY <1>0 DEF TypeOK
  <2>3. CASE sent' = sent /\ signals' = signals
    BY <2>1, <2>3
  <2>4. CASE sent' = sent + 1 /\ signals' = signals \cup {x}
    BY <2>1, <2>2, <2>4
  <2>5. QED
    BY <1>d, <2>3, <2>4
<1>e. ASSUME sent' = sent, signals' \in {signals, signals \ {task}}
      PROVE  IsFiniteSet(signals') /\ Cardinality(signals') <= sent'
  <2>1. /\ IsFiniteSet(signals) /\ Cardinality(signals) \in Nat /\ Cardinality(signals) <= sent
        /\ IsFiniteSet(signals \ {task}) /\ Cardinality(signals \ {task}) \in Nat
        /\ Cardinality(signals \ {task}) <= Cardinality(signals)
    BY <1>0, SignalCount DEF Threading
  <2>2. sent \in Nat
    BY <1>0 DEF TypeOK
  <2>3. QED
    BY <1>e, <2>1, <2>2
<1>1. ASSUME NEW i \in Ids, Expire(i) PROVE Threading'
  <2>1. PICK x : x = [kind |-> "subscriptionRemoved", id |-> i]
    OBVIOUS
  <2>2. /\ (sent' = sent /\ signals' = signals) \/ (sent' = sent + 1 /\ signals' = signals \cup {x})
        /\ live' \subseteq live /\ UNCHANGED <<next, locals, handles>>
    BY <1>1, <2>1 DEF Expire
  <2>3. QED
    BY <1>0, <1>d, <2>2 DEF Threading
<1>2. ASSUME NEW i \in Ids, Reauthorize(i) PROVE Threading'
  <2>1. PICK x : x = [kind |-> "reauthorizationRequired", id |-> i]
    OBVIOUS
  <2>2. /\ (sent' = sent /\ signals' = signals) \/ (sent' = sent + 1 /\ signals' = signals \cup {x})
        /\ live' \subseteq live /\ UNCHANGED <<next, locals, handles>>
    BY <1>2, <2>1 DEF Reauthorize
  <2>3. QED
    BY <1>0, <1>d, <2>2 DEF Threading
<1>3. CASE Crash
  BY <1>0, <1>3 DEF TypeOK, Threading, Crash, Actors
<1>4. CASE Boot
  BY <1>0, <1>4 DEF TypeOK, Threading, Boot
<1>b. ASSUME NEW i \in {Foreign} \cup Ids, Got(Timer, i), sent' = sent,
             \A j \in live' : j < next',
             pc[Timer] \in {"patch", "recreate"} => handles # <<>>
      PROVE  Threading'
  <2>1. UNCHANGED <<signals, task>> /\ (Finishes(i) \/ GoesOn(i))
    BY <1>0, <1>b, GotTimer
  <2>2. QED
    BY <1>0, <1>a, <1>b, <2>1 DEF TypeOK, Threading, Finishes, GoesOn, Actors
<1>c. ASSUME NEW i, Got(Consumer, i), sent' = sent, \A j \in live' : j < next' PROVE Threading'
  <2>1. /\ signals' = signals \ {task} /\ pc'[Consumer] = "idle" /\ pc'[Timer] = pc[Timer]
        /\ UNCHANGED handles
    BY <1>0, <1>a, <1>c, GotConsumer DEF TypeOK, Actors
  <2>2. QED
    BY <1>0, <1>c, <1>e, <2>1 DEF Threading
<1>5. ASSUME NEW a \in Actors, Patch(a) PROVE Threading'
  <2>1. Target(a) \in {Foreign} \cup Ids
    BY <1>5, Aims DEF Patch
  <2>2. QED
    BY <1>0, <1>b, <1>c, <1>5, <2>1 DEF Patch, Actors, Threading
<1>6. ASSUME NEW a \in Actors, Missing(a) PROVE Threading'
  BY <1>0, <1>6 DEF TypeOK, Threading, Missing, Goto, Actors
<1>7. ASSUME NEW a \in Actors, Create(a) PROVE Threading'
  <2>1. next \in {Foreign} \cup Ids /\ \A j \in live' : j < next'
    BY <1>0, <1>7 DEF Create, Threading
  <2>2. QED
    BY <1>0, <1>b, <1>c, <1>7, <2>1 DEF Create, Actors, Threading
<1>8. ASSUME NEW a \in Actors, CreateUnheard(a) PROVE Threading'
  BY <1>0, <1>8 DEF TypeOK, Threading, CreateUnheard, Goto, Actors
<1>9. ASSUME NEW a \in Actors, CallFails(a) PROVE Threading'
  BY <1>0, <1>9 DEF TypeOK, Threading, CallFails, Goto, Actors
<1>10. ASSUME NEW a \in Actors, Unknown(a) PROVE Threading'
  BY <1>0, <1>10 DEF TypeOK, Threading, Unknown, Goto, Actors
<1>11. ASSUME NEW a \in Actors, Raise(a) PROVE Threading'
  <2>1. IsFiniteSet(signals') /\ Cardinality(signals') <= sent'
    BY <1>e, <1>11 DEF Raise
  <2>2. QED
    BY <1>0, <1>a, <1>11, <2>1 DEF TypeOK, Threading, Raise, Goto, Actors
<1>12. CASE StartReconcile
  BY <1>0, <1>a, <1>12 DEF TypeOK, Threading, StartReconcile, Goto, Actors
<1>13. CASE Track
  <2>1. actual[Due] \in {Foreign} \cup Ids
    BY <1>13, Aims DEF SubscriptionsInv, Beliefs, For, Track
  <2>2. QED
    BY <1>0, <1>b, <1>13, <2>1 DEF Track, Threading
<1>14. CASE Place
  BY <1>0, <1>a, <1>14 DEF TypeOK, Threading, Place, Goto, Actors
<1>15. CASE StartRenewAll
  BY <1>0, <1>a, <1>15 DEF TypeOK, Threading, StartRenewAll, Goto, Actors
<1>16. CASE Handle
  BY <1>0, <1>a, <1>16 DEF TypeOK, Threading, Handle, Goto, Actors
<1>17. CASE UNCHANGED vars
  BY <1>0, <1>17 DEF Threading, vars
<1>18. QED
  BY <1>1, <1>2, <1>3, <1>4, <1>5, <1>6, <1>7, <1>8, <1>9, <1>10, <1>11, <1>12, <1>13, <1>14,
     <1>15, <1>16, <1>17 DEF Next, Step, Fault, Reconcile

----------------------------------------------------------------------------
(* Beliefs.                                                                *)

\* A subscription that was made for a folder stays so.
WillBeFor(i, s) == i \in Ids /\ i < next' /\ resource'[i] = s
Forward == \A i, s : For(i, s) => WillBeFor(i, s)

LEMMA BeliefsFrame ==
  ASSUME Beliefs, Forward, KnownTrue', UNCHANGED <<handles, fresh, actual>>,
         pc'[Timer] \in {"create", "recreate"} => stream'[Timer] = Due
  PROVE  Beliefs'
BY DEF Beliefs, Forward, WillBeFor, For, Due

LEMMA GotBelieved ==
  ASSUME TypeOK, Beliefs, NEW i \in {Foreign} \cup Ids, Got(Timer, i),
         Forward, KnownTrue', WillBeFor(i, Due)
  PROVE  Beliefs'
<1>0. Timer \in Actors /\ i \in Ids
  BY DEF Actors, WillBeFor
<1>1. Finishes(i) \/ GoesOn(i)
  BY GotTimer
<1>4. \A n \in DOMAIN Append(fresh, i) : WillBeFor(Append(fresh, i)[n], Desired[n])
  <2>1. ASSUME NEW n \in DOMAIN Append(fresh, i) PROVE WillBeFor(Append(fresh, i)[n], Desired[n])
    <3>1. CASE n = Len(fresh) + 1
      BY <3>1, Gathered DEF Due
    <3>2. CASE n \in 1 .. Len(fresh)
      BY <3>2, Gathered DEF Beliefs, Forward
    <3>3. QED
      BY <2>1, <3>1, <3>2, Gathered
  <2>2. QED
    BY <2>1
<1>5. CASE Finishes(i)
  BY <1>0, <1>4, <1>5 DEF Finishes, Beliefs, WillBeFor, For, NoneListed, TypeOK
<1>6. CASE GoesOn(i)
  BY <1>0, <1>4, <1>6 DEF GoesOn, Beliefs, Forward, WillBeFor, For, TypeOK
<1>7. QED
  BY <1>1, <1>5, <1>6

LEMMA BeliefsKept == SubscriptionsInv /\ [Next]_vars => Beliefs'
<1> SUFFICES ASSUME SubscriptionsInv, [Next]_vars PROVE Beliefs'
  OBVIOUS
<1> USE DEF graph, memory, locals, counters
<1>0. TypeOK /\ Threading /\ Beliefs /\ KnownTrue
  BY DEF SubscriptionsInv, Beliefs
<1>a. Timer # Consumer /\ Timer \in Actors /\ Consumer \in Actors
  BY DEF Timer, Consumer, Actors
<1>b. next \in Nat /\ Foreign \notin Ids /\ Nothing \notin Ids
  BY SubscriptionsAssumption DEF TypeOK, SubscriptionsInv, Foreign, Nothing, Ids
<1>c. ASSUME UNCHANGED <<next, resource>> PROVE Forward /\ (known' = known => KnownTrue')
  BY <1>0, <1>c DEF Forward, WillBeFor, For, KnownTrue
<1>d. ASSUME NEW s, next' = next + 1, resource' = [resource EXCEPT ![next] = s] PROVE Forward
  BY <1>0, <1>b, <1>d DEF Forward, WillBeFor, For, TypeOK
<1>1. ASSUME NEW i \in Ids, Expire(i) PROVE Beliefs'
  BY <1>0, <1>1, <1>c, BeliefsFrame DEF Expire, Beliefs
<1>2. ASSUME NEW i \in Ids, Reauthorize(i) PROVE Beliefs'
  BY <1>0, <1>2, <1>c, BeliefsFrame DEF Reauthorize, Beliefs
<1>3. CASE Crash
  <2>1. KnownTrue'
    BY <1>3 DEF Crash, KnownTrue, NoneKnown
  <2>2. QED
    BY <1>a, <1>3, <2>1 DEF Crash, Beliefs, NoneListed
<1>4. CASE Boot
  BY <1>0, <1>4, <1>c, BeliefsFrame DEF Boot, Beliefs
<1>5. ASSUME NEW a \in Actors, Patch(a) PROVE Beliefs'
  <2>1. Forward /\ KnownTrue' /\ Got(a, Target(a))
    BY <1>5, <1>c DEF Patch
  <2>2. CASE a = Timer
    <3>1. For(Target(Timer), Due)
      BY <1>5, <2>2, Aims DEF Patch
    <3>2. QED
      BY <1>0, <2>1, <2>2, <3>1, GotBelieved DEF Forward, For
  <2>3. CASE a = Consumer
    BY <1>0, <1>5, <1>a, <2>1, <2>3, GotConsumer, BeliefsFrame DEF Patch, Beliefs, TypeOK
  <2>4. QED
    BY <2>2, <2>3 DEF Actors
<1>6. ASSUME NEW a \in Actors, Missing(a) PROVE Beliefs'
  <2>1. Forward /\ KnownTrue'
    BY <1>6, <1>c DEF Missing
  <2>2. PICK s \in known[Target(a)] : stream' = [stream EXCEPT ![a] = s]
    BY <1>6 DEF Missing
  <2>3. CASE a = Timer
    <3>1. For(Target(Timer), Due)
      BY <1>6, <2>3, Aims DEF Missing
    <3>2. s = Due
      BY <1>0, <2>2, <2>3, <3>1 DEF KnownTrue, For
    <3>3. QED
      BY <1>0, <1>6, <1>a, <2>1, <2>2, <2>3, <3>2, BeliefsFrame DEF Missing, Goto, TypeOK
  <2>4. CASE a = Consumer
    BY <1>0, <1>6, <1>a, <2>1, <2>2, <2>4, BeliefsFrame DEF Missing, Goto, TypeOK, Beliefs
  <2>5. QED
    BY <2>3, <2>4 DEF Actors
<1>7. ASSUME NEW a \in Actors, Create(a) PROVE Beliefs'
  <2>1. Forward /\ Got(a, next) /\ next \in Ids
    BY <1>7, <1>d DEF Create
  <2>2. KnownTrue'
    BY <1>0, <1>b, <1>7 DEF Create, KnownTrue, TypeOK
  <2>3. CASE a = Timer
    <3>1. stream[Timer] = Due
      BY <1>0, <1>7, <2>3 DEF Create, Beliefs
    <3>2. WillBeFor(next, Due)
      BY <1>0, <1>b, <1>7, <2>3, <3>1 DEF Create, WillBeFor, TypeOK
    <3>3. QED
      BY <1>0, <2>1, <2>2, <2>3, <3>2, GotBelieved
  <2>4. CASE a = Consumer
    BY <1>0, <1>7, <1>a, <2>1, <2>2, <2>4, GotConsumer, BeliefsFrame DEF Create, Beliefs, TypeOK
  <2>5. QED
    BY <2>3, <2>4 DEF Actors
<1>8. ASSUME NEW a \in Actors, CreateUnheard(a) PROVE Beliefs'
  <2>1. Forward
    BY <1>8, <1>d DEF CreateUnheard
  <2>2. KnownTrue'
    BY <1>0, <1>b, <1>8 DEF CreateUnheard, KnownTrue, TypeOK
  <2>3. QED
    BY <1>0, <1>8, <1>a, <2>1, <2>2, BeliefsFrame DEF CreateUnheard, Goto, TypeOK, Beliefs
<1>9. ASSUME NEW a \in Actors, CallFails(a) PROVE Beliefs'
  BY <1>0, <1>9, <1>a, <1>c, BeliefsFrame DEF CallFails, Goto, TypeOK, Beliefs
<1>10. ASSUME NEW a \in Actors, Unknown(a) PROVE Beliefs'
  BY <1>0, <1>10, <1>a, <1>c, BeliefsFrame DEF Unknown, Goto, TypeOK, Beliefs
<1>11. ASSUME NEW a \in Actors, Raise(a) PROVE Beliefs'
  <2>1. Forward /\ KnownTrue'
    BY <1>11, <1>c DEF Raise
  <2>2. CASE a = Timer
    BY <1>0, <1>11, <1>a, <2>1, <2>2 DEF Raise, Goto, TypeOK, Beliefs, Forward, WillBeFor, For, NoneListed
  <2>3. CASE a = Consumer
    BY <1>0, <1>11, <1>a, <2>1, <2>3, BeliefsFrame DEF Raise, Goto, TypeOK, Beliefs
  <2>4. QED
    BY <2>2, <2>3 DEF Actors
<1>12. CASE StartReconcile
  <2>1. Forward /\ KnownTrue' /\ UNCHANGED <<handles, fresh>> /\ pc'[Timer] = "place"
    BY <1>0, <1>12, <1>a, <1>c DEF StartReconcile, Goto, TypeOK
  <2>2. ASSUME NEW s \in Streams, actual'[s] # Nothing PROVE WillBeFor(actual'[s], s)
    <3>1. actual'[s] \in On(s, Ours)
      BY <1>12, <2>2 DEF StartReconcile
    <3>2. For(actual'[s], s)
      BY <1>0, <3>1 DEF On, Ours, For, Threading, TypeOK
    <3>3. QED
      BY <2>1, <3>2 DEF Forward
  <2>3. QED
    BY <1>0, <2>1, <2>2 DEF Beliefs, Forward, WillBeFor, For
<1>13. CASE Track
  <2>1. actual[Due] \in Ids /\ For(actual[Due], Due)
    BY <1>13, Aims DEF SubscriptionsInv, Beliefs, For, Track
  <2>2. Forward /\ WillBeFor(actual[Due], Due)
    BY <1>13, <1>c, <2>1 DEF Track, Forward
  <2>3. KnownTrue'
    <3>1. PICK j \in Ids, d \in Streams : j = actual[Due] /\ d = Due
      BY <2>1, Aims
    <3>2. known' = [known EXCEPT ![j] = {d}] /\ UNCHANGED <<next, resource>>
      BY <1>13, <3>1 DEF Track
    <3>3. j < next /\ resource[j] = d
      BY <2>1, <3>1 DEF For
    <3>4. j # Foreign /\ j \in Nat /\ \A i \in Ids : i \in Nat
      BY <1>b DEF Ids
    <3>5. QED
      BY <1>0, <1>b, <3>2, <3>3, <3>4 DEF KnownTrue, TypeOK
  <2>4. QED
    BY <1>0, <1>13, <2>1, <2>2, <2>3, GotBelieved DEF Track
<1>14. CASE Place
  BY <1>0, <1>14, <1>a, <1>c, BeliefsFrame DEF Place, Goto, TypeOK
<1>15. CASE StartRenewAll
  BY <1>0, <1>15, <1>a, <1>c, BeliefsFrame DEF StartRenewAll, Goto, TypeOK
<1>16. CASE Handle
  BY <1>0, <1>16, <1>a, <1>c, BeliefsFrame DEF Handle, Goto, TypeOK, Beliefs
<1>17. CASE UNCHANGED vars
  BY <1>0, <1>17, <1>c, BeliefsFrame DEF vars, Beliefs
<1>18. QED
  BY <1>1, <1>2, <1>3, <1>4, <1>5, <1>6, <1>7, <1>8, <1>9, <1>10, <1>11, <1>12, <1>13, <1>14,
     <1>15, <1>16, <1>17 DEF Next, Step, Fault, Reconcile

----------------------------------------------------------------------------
(* Remembered.                                                             *)

AllRemembered ==
  /\ pc[Timer] # "raise"
  /\ \A n \in DOMAIN fresh : known[fresh[n]] # {}
  /\ \A n \in DOMAIN handles : n > Len(fresh) => known[handles[n]] # {}

LEMMA GotRemembered ==
  ASSUME TypeOK, NEW i \in {Foreign} \cup Ids, Got(Timer, i), known'[i] # {},
         \A n \in DOMAIN fresh : known'[fresh[n]] # {},
         \A n \in DOMAIN handles : n > Len(fresh) + 1 => known'[handles[n]] # {}
  PROVE  AllRemembered'
<1>1. Finishes(i) \/ GoesOn(i)
  BY GotTimer
<1>2. Timer \in Actors
  BY DEF Actors
<1>3. \A n \in DOMAIN Append(fresh, i) : known'[Append(fresh, i)[n]] # {}
  <2>1. ASSUME NEW n \in DOMAIN Append(fresh, i) PROVE known'[Append(fresh, i)[n]] # {}
    <3>1. CASE n = Len(fresh) + 1
      BY <3>1, Gathered
    <3>2. CASE n \in 1 .. Len(fresh)
      BY <3>2, Gathered
    <3>3. QED
      BY <2>1, <3>1, <3>2, Gathered
  <2>2. QED
    BY <2>1
<1>4. pc'[Timer] # "raise"
  BY <1>1, <1>2 DEF Finishes, GoesOn, TypeOK
<1>5. CASE Finishes(i)
  <2>1. \A n \in DOMAIN fresh' : known'[fresh'[n]] # {}
    BY <1>5 DEF Finishes
  <2>2. QED
    BY <1>3, <1>4, <1>5, <2>1 DEF Finishes, AllRemembered
<1>6. CASE GoesOn(i)
  BY <1>3, <1>4, <1>6, Gathered DEF GoesOn, AllRemembered
<1>7. QED
  BY <1>1, <1>5, <1>6

\* What was sent and what failed is never forgotten.
LEMMA CountersGrow ==
  ASSUME TypeOK, [Next]_vars
  PROVE  failures <= failures' /\ sent <= sent'
BY DEF TypeOK, vars, counters, Next, Step, Fault, Reconcile, Expire, Reauthorize, Crash, Boot,
       Patch, Missing, Create, CreateUnheard, CallFails, Unknown, Raise, StartReconcile, Track,
       Place, StartRenewAll, Handle

LEMMA RememberedKept == SubscriptionsInv /\ [Next]_vars => Remembered'
<1> SUFFICES ASSUME SubscriptionsInv, [Next]_vars, failures' = 0, sent' = 0 PROVE AllRemembered'
  BY DEF Remembered, AllRemembered
<1> USE DEF graph, memory, locals, counters
<1>0. TypeOK /\ Threading /\ Beliefs
  BY DEF SubscriptionsInv
<1>a. Timer # Consumer /\ Timer \in Actors /\ Consumer \in Actors
  BY DEF Timer, Consumer, Actors
<1>b. failures = 0 /\ sent = 0
  BY <1>0, CountersGrow DEF TypeOK
<1>c. AllRemembered
  BY <1>b DEF SubscriptionsInv, Remembered, AllRemembered
<1>d. signals = {}
  <2>1. Cardinality(signals) = 0
    BY <1>0, <1>b, FS_CardinalityType DEF Threading
  <2>2. QED
    BY <1>0, <2>1, FS_EmptySet DEF Threading
<1>e. pc[Consumer] = "idle"
  BY <1>0, <1>d DEF Threading
<1>f. next \notin {fresh[n] : n \in DOMAIN fresh} /\ next \notin {handles[n] : n \in DOMAIN handles}
  BY <1>0, SubscriptionsAssumption DEF Beliefs, For, TypeOK, Nothing, Ids
<1>g. ASSUME UNCHANGED <<known, fresh, handles>>, pc'[Timer] # "raise" PROVE AllRemembered'
  BY <1>c, <1>g DEF AllRemembered
<1>1. ASSUME NEW i \in Ids, Expire(i) PROVE AllRemembered'
  BY <1>1, <1>c, <1>g DEF Expire, AllRemembered
<1>2. ASSUME NEW i \in Ids, Reauthorize(i) PROVE AllRemembered'
  BY <1>2, <1>c, <1>g DEF Reauthorize, AllRemembered
<1>3. CASE Crash
  BY <1>3, <1>b DEF Crash
<1>4. CASE Boot
  BY <1>4, <1>c, <1>g DEF Boot, AllRemembered
<1>5. ASSUME NEW a \in Actors, Patch(a) PROVE AllRemembered'
  <2>1. a = Timer /\ Got(Timer, Target(Timer)) /\ known' = known /\ pc[Timer] = "patch"
    BY <1>5, <1>e DEF Patch, Actors
  <2>2. Target(Timer) \in Ids /\ Target(Timer) = handles[Len(fresh) + 1] /\ Len(fresh) + 1 \in DOMAIN handles
    BY <1>a, <2>1, Aims
  <2>3. known[Target(Timer)] # {}
    BY <1>0, <1>c, <2>2 DEF AllRemembered, TypeOK
  <2>4. QED
    <3>1. PICK j \in Ids : j = Target(Timer)
      BY <2>2
    <3>2. \A n \in DOMAIN fresh : known'[fresh[n]] # {}
      BY <1>c, <2>1 DEF AllRemembered
    <3>3. \A n \in DOMAIN handles : n > Len(fresh) + 1 => known'[handles[n]] # {}
      BY <1>0, <1>c, <2>1, Gathered DEF AllRemembered, TypeOK
    <3>4. Got(Timer, j) /\ known'[j] # {}
      BY <2>1, <2>3, <3>1
    <3>5. QED
      BY <1>0, <3>2, <3>3, <3>4, GotRemembered
<1>6. ASSUME NEW a \in Actors, Missing(a) PROVE AllRemembered'
  BY <1>0, <1>6, <1>a, <1>c, <1>g DEF Missing, Goto, TypeOK, AllRemembered
<1>7. ASSUME NEW a \in Actors, Create(a) PROVE AllRemembered'
  <2>1. a = Timer /\ Got(Timer, next) /\ next \in Ids
    BY <1>7, <1>e DEF Create, Actors
  <2>2. known'[next] # {}
    BY <1>0, <1>7, <2>1 DEF Create, TypeOK
  <2>3. ASSUME NEW i \in Ids, i # next, known[i] # {}, pc[Timer] = "recreate" => i # Target(Timer)
        PROVE  known'[i] # {}
    BY <1>0, <1>7, <2>1, <2>3 DEF Create, TypeOK
  <2>4. ASSUME NEW n \in DOMAIN fresh PROVE known'[fresh[n]] # {}
    <3>1. fresh[n] \in Ids /\ fresh[n] # next /\ known[fresh[n]] # {} /\ resource[fresh[n]] = Desired[n]
      BY <1>0, <1>c, <1>f, <2>4 DEF Beliefs, For, AllRemembered
    <3>2. ASSUME pc[Timer] = "recreate" PROVE fresh[n] # Target(Timer)
      <4>1. resource[Target(Timer)] = Desired[Len(fresh) + 1]
        BY <3>2, Aims DEF For, Due
      <4>2. n # Len(fresh) + 1 /\ n \in DOMAIN Desired /\ Len(fresh) + 1 \in DOMAIN Desired
        BY <1>0, <2>4, Aims, Gathered DEF TypeOK
      <4>3. Desired[n] # Desired[Len(fresh) + 1]
        BY <4>2, SubscriptionsAssumption DEF IsInjective
      <4>4. QED
        BY <3>1, <4>1, <4>3
    <3>3. QED
      BY <2>3, <3>1, <3>2
  <2>5. ASSUME NEW n \in DOMAIN handles, n > Len(fresh) + 1 PROVE known'[handles[n]] # {}
    <3>1. handles[n] \in Ids /\ handles[n] # next /\ resource[handles[n]] = Desired[n]
      BY <1>0, <1>f, <2>5 DEF Beliefs, For
    <3>2. n > Len(fresh) /\ known[handles[n]] # {}
      BY <1>0, <1>c, <2>5, Gathered DEF AllRemembered, TypeOK
    <3>3. ASSUME pc[Timer] = "recreate" PROVE handles[n] # Target(Timer)
      <4>1. resource[Target(Timer)] = Desired[Len(fresh) + 1]
        BY <3>3, Aims DEF For, Due
      <4>2. n # Len(fresh) + 1 /\ n \in DOMAIN Desired /\ Len(fresh) + 1 \in DOMAIN Desired
        BY <1>0, <2>5, <3>3, Aims DEF TypeOK
      <4>3. Desired[n] # Desired[Len(fresh) + 1]
        BY <4>2, SubscriptionsAssumption DEF IsInjective
      <4>4. QED
        BY <3>1, <4>1, <4>3
    <3>4. QED
      BY <2>3, <3>1, <3>2, <3>3
  <2>6. QED
    BY <1>0, <2>1, <2>2, <2>4, <2>5, GotRemembered
<1>8. ASSUME NEW a \in Actors, CreateUnheard(a) PROVE AllRemembered'
  BY <1>8, <1>b DEF CreateUnheard
<1>9. ASSUME NEW a \in Actors, CallFails(a) PROVE AllRemembered'
  BY <1>9, <1>b DEF CallFails
<1>10. ASSUME NEW a \in Actors, Unknown(a) PROVE AllRemembered'
  <2>1. a = Timer /\ pc[Timer] = "patch" /\ known[Target(Timer)] = {}
    BY <1>10, <1>e DEF Unknown, Actors
  <2>2. Target(Timer) = handles[Len(fresh) + 1] /\ Len(fresh) + 1 \in DOMAIN handles
    BY <2>1, Aims
  <2>3. QED
    BY <1>0, <1>c, <2>1, <2>2 DEF AllRemembered, TypeOK
<1>11. ASSUME NEW a \in Actors, Raise(a) PROVE AllRemembered'
  BY <1>11, <1>c, <1>e DEF Raise, AllRemembered, Actors
<1>12. CASE StartReconcile
  BY <1>0, <1>12, <1>a, <1>g DEF StartReconcile, Goto, TypeOK
<1>13. CASE Track
  <2>1. PICK j \in Ids, d \in Streams : j = actual[Due] /\ d = Due
    BY <1>0, <1>13, Aims DEF Beliefs, For, Track
  <2>2. known' = [known EXCEPT ![j] = {d}] /\ Got(Timer, j)
    BY <1>13, <2>1 DEF Track
  <2>3. \A i \in Ids : known[i] # {} => known'[i] # {}
    BY <1>0, <2>2 DEF TypeOK
  <2>4. known'[j] # {}
    BY <1>0, <2>1, <2>2 DEF TypeOK
  <2>5. \A n \in DOMAIN fresh : known'[fresh[n]] # {}
    BY <1>0, <1>c, <2>3 DEF AllRemembered, Beliefs, For
  <2>6. \A n \in DOMAIN handles : n > Len(fresh) + 1 => known'[handles[n]] # {}
    BY <1>0, <1>c, <2>3, Gathered DEF AllRemembered, Beliefs, For, TypeOK
  <2>7. QED
    BY <1>0, <2>1, <2>2, <2>4, <2>5, <2>6, GotRemembered
<1>14. CASE Place
  BY <1>0, <1>14, <1>a, <1>g DEF Place, Goto, TypeOK
<1>15. CASE StartRenewAll
  BY <1>0, <1>15, <1>a, <1>g DEF StartRenewAll, Goto, TypeOK
<1>16. CASE Handle
  BY <1>16, <1>d DEF Handle
<1>17. CASE UNCHANGED vars
  BY <1>17, <1>c, <1>g DEF vars, AllRemembered
<1>18. QED
  BY <1>1, <1>2, <1>3, <1>4, <1>5, <1>6, <1>7, <1>8, <1>9, <1>10, <1>11, <1>12, <1>13, <1>14,
     <1>15, <1>16, <1>17 DEF Next, Step, Fault, Reconcile

----------------------------------------------------------------------------
(* Spared.                                                                 *)

\* No step but a creation by the timer makes a folder's subscriptions outgrow what was
\* sent and failed.
Frugal == \A s \in Streams, k \in {0, 1} : Within(s, k) => Within(s, k)'

\* What is covered stays so, for every handle and every empty place of a listing.
StillCovered(i, s) == i \notin live' => Within(s, 0)'
Carries(s) ==
  \A i : (i = Nothing \/ For(i, s)) /\ Covered(i, s) => StillCovered(i, s)

\* A creation puts one subscription on one folder.
LEMMA Watching ==
  ASSUME TypeOK, Threading, NEW x, next \in Ids, live' = live \cup {next},
         resource' = [resource EXCEPT ![next] = x]
  PROVE  \A s \in Streams :
           /\ IsFiniteSet(On(s, Ours)) /\ Cardinality(On(s, Ours)) \in Nat
           /\ Cardinality(On(s, Ours))' \in Nat
           /\ s # x => Cardinality(On(s, Ours))' = Cardinality(On(s, Ours))
           /\ Cardinality(On(s, Ours))' <= Cardinality(On(s, Ours)) + 1
<1>. DEFINE F(s) == On(s, Ours)
            G(s) == On(s, Ours)'
<1>1. \A s \in Streams : F(s) \subseteq Ids /\ G(s) \subseteq Ids
  BY DEF On, Ours, TypeOK
<1>2. IsFiniteSet(Ids)
  BY FS_Interval, SubscriptionsAssumption DEF Ids
<1>3. next \notin live /\ next # Foreign
  BY SubscriptionsAssumption DEF Threading, TypeOK, Ids, Foreign
<1>4. \A s \in Streams : G(s) = IF s = x THEN F(s) \cup {next} ELSE F(s)
  BY <1>3 DEF On, Ours, TypeOK
<1> HIDE DEF F, G
<1>5. \A s \in Streams : IsFiniteSet(F(s)) /\ IsFiniteSet(G(s))
  BY <1>1, <1>2, FS_Subset
<1>6. \A s \in Streams : Cardinality(F(s)) \in Nat /\ Cardinality(G(s)) \in Nat
  BY <1>5, FS_CardinalityType
<1>7. ASSUME NEW s \in Streams PROVE Cardinality(F(s) \cup {next}) <= Cardinality(F(s)) + 1
  <2>1. PICK S : S = F(s)
    OBVIOUS
  <2>2. IsFiniteSet(S) /\ Cardinality(S) \in Nat
    BY <1>5, <1>6, <2>1
  <2>3. Cardinality(S \cup {next}) = IF next \in S THEN Cardinality(S) ELSE Cardinality(S) + 1
    BY <2>2, FS_AddElement
  <2>4. QED
    BY <2>1, <2>2, <2>3
<1>8. \A s \in Streams : s # x => Cardinality(G(s)) = Cardinality(F(s))
  BY <1>4
<1>9. \A s \in Streams : Cardinality(G(s)) <= Cardinality(F(s)) + 1
  BY <1>4, <1>6, <1>7
<1>10. QED
  BY <1>5, <1>6, <1>8, <1>9 DEF F, G

\* Cardinalities of a step that creates nothing.
LEMMA Shrinking ==
  ASSUME TypeOK, Threading, live' \subseteq live, resource' = resource
  PROVE  \A s \in Streams :
           /\ Cardinality(On(s, Ours)) \in Nat /\ Cardinality(On(s, Ours))' \in Nat
           /\ Cardinality(On(s, Ours))' <= Cardinality(On(s, Ours))
           /\ \A i \in Ours \ live' : resource[i] = s =>
                Cardinality(On(s, Ours))' + 1 <= Cardinality(On(s, Ours))
<1>. DEFINE F(s) == On(s, Ours)
            G(s) == On(s, Ours)'
<1>1. \A s \in Streams : F(s) \subseteq Ids /\ G(s) \subseteq F(s)
  BY DEF On, Ours, TypeOK
<1>2. IsFiniteSet(Ids)
  BY FS_Interval, SubscriptionsAssumption DEF Ids
<1>3. \A s \in Streams : \A i \in Ours \ live' : resource[i] = s => i \in F(s) /\ i \notin G(s)
  BY DEF On, Ours
<1> HIDE DEF F, G
<1>4. ASSUME NEW s \in Streams
      PROVE  /\ Cardinality(F(s)) \in Nat /\ Cardinality(G(s)) \in Nat
             /\ Cardinality(G(s)) <= Cardinality(F(s))
             /\ G(s) # F(s) => Cardinality(G(s)) < Cardinality(F(s))
  <2>1. PICK S, T : S = F(s) /\ T = G(s)
    OBVIOUS
  <2>2. T \subseteq S /\ IsFiniteSet(S) /\ IsFiniteSet(T)
    BY <1>1, <1>2, <2>1, FS_Subset
  <2>3. /\ Cardinality(S) \in Nat /\ Cardinality(T) \in Nat
        /\ Cardinality(T) <= Cardinality(S)
        /\ T # S => Cardinality(T) < Cardinality(S)
    BY <2>2, FS_Subset, FS_CardinalityType
  <2>4. QED
    BY <2>1, <2>3
<1>5. ASSUME NEW s \in Streams, NEW i \in Ours \ live', resource[i] = s
      PROVE  Cardinality(G(s)) + 1 <= Cardinality(F(s))
  <2>1. G(s) # F(s)
    BY <1>3, <1>5
  <2>2. QED
    BY <1>4, <2>1
<1>6. QED
  BY <1>4, <1>5 DEF F, G

\* What happens to the signals is paid for by `sent`.
SignalsPaid ==
  /\ Cardinality(signals) \in Nat /\ Cardinality(signals') \in Nat
  /\ sent \in Nat /\ sent' \in Nat /\ failures \in Nat /\ failures' \in Nat
  /\ Cardinality(signals') + sent <= Cardinality(signals) + sent'
  /\ failures <= failures'

LEMMA FrugalStep ==
  ASSUME TypeOK, Threading, live' \subseteq live, resource' = resource, SignalsPaid
  PROVE  Frugal
<1>1. ASSUME NEW s \in Streams, NEW k \in {0, 1}, Within(s, k) PROVE Within(s, k)'
  <2>1. /\ Cardinality(On(s, Ours)) \in Nat /\ Cardinality(On(s, Ours))' \in Nat
        /\ Cardinality(On(s, Ours))' <= Cardinality(On(s, Ours))
    BY Shrinking
  <2>2. QED
    BY <1>1, <2>1 DEF Within, SignalsPaid
<1>2. QED
  BY <1>1 DEF Frugal

LEMMA FrugalCarries ==
  ASSUME Frugal, live \subseteq live'
  PROVE  \A s \in Streams : Carries(s)
<1>1. ASSUME NEW s \in Streams, NEW i, Covered(i, s) PROVE StillCovered(i, s)
  BY <1>1 DEF Frugal, Covered, StillCovered
<1>2. QED
  BY <1>1 DEF Carries

\* A step that leaves the lists alone.
LEMMA SparedFrame ==
  ASSUME TypeOK, Beliefs, Spared, Frugal, \A s \in Streams : Carries(s),
         UNCHANGED <<handles, fresh, actual>>,
         \A n \in DOMAIN handles : known'[handles[n]] # {} => known[handles[n]] # {},
         pc'[Timer] = pc[Timer], stream'[Timer] = stream[Timer]
  PROVE  Spared'
<1>0. Timer \in Actors /\ stream[Timer] \in Streams /\ \A n \in DOMAIN Desired : Desired[n] \in Streams
  BY SubscriptionsAssumption DEF TypeOK, Actors
<1>1. \A s \in Streams : Within(s, 1)'
  BY DEF Spared, Frugal
<1>2. ASSUME pc[Timer] \in {"create", "recreate"} PROVE Within(stream[Timer], 0)'
  <2>1. PICK s \in Streams : s = stream[Timer]
    BY <1>0
  <2>2. Within(s, 0)'
    BY <1>2, <2>1 DEF Spared, Frugal
  <2>3. QED
    BY <2>1, <2>2 DEF Within
<1>3. ASSUME NEW n \in DOMAIN Desired, pc[Timer] \in {"place", "create"}, n > Len(fresh)
      PROVE  StillCovered(actual[Desired[n]], Desired[n])
  BY <1>0, <1>3 DEF Spared, Carries, Beliefs
<1>4. ASSUME NEW n \in DOMAIN fresh PROVE StillCovered(fresh[n], Desired[n])
  <2>1. Desired[n] \in Streams
    BY <1>0, <1>4 DEF TypeOK
  <2>2. QED
    BY <1>4, <2>1 DEF Spared, Carries, Beliefs
<1>5. ASSUME NEW n \in DOMAIN handles, n > Len(fresh) \/ pc[Timer] \notin {"place", "create"},
             known'[handles[n]] # {}
      PROVE  StillCovered(handles[n], Desired[n])
  <2>1. Desired[n] \in Streams
    BY <1>0, <1>5 DEF TypeOK
  <2>2. QED
    BY <1>5, <2>1 DEF Spared, Carries, Beliefs
<1>6. QED
  BY <1>1, <1>2, <1>3, <1>4, <1>5 DEF Spared, Covered, StillCovered, Within

\* Handle i for folder d, and all else as covered as it was.
OneMore(i, d) ==
  /\ pc[Timer] \in {"place", "create", "patch", "recreate"}
  /\ \A s \in Streams : Within(s, 1)'
  /\ \A s \in Streams \ {d} : Carries(s)
  /\ StillCovered(i, d)
  /\ \A n \in DOMAIN handles :
       n # Len(fresh) + 1 /\ known'[handles[n]] # {} => known[handles[n]] # {}
  /\ pc[Timer] \in {"patch", "recreate"} =>
       \/ StillCovered(handles[Len(fresh) + 1], d)
       \/ known'[handles[Len(fresh) + 1]] = {}

\* A result for folder d, which the timer has come to: all others are as covered as
\* before, and so is d.
\* Lengths and domains of the lists.
LEMMA Lengths ==
  ASSUME TypeOK
  PROVE  /\ \A n \in DOMAIN Desired : n \in Nat /\ Desired[n] \in Streams
         /\ \A n \in DOMAIN handles : n \in DOMAIN Desired /\ n \in Nat
         /\ \A n \in 1 .. Len(fresh) : n \in DOMAIN Desired /\ n \in DOMAIN fresh /\ n # Len(fresh) + 1
         /\ Len(fresh) \in Nat
<1>1. /\ Len(fresh) \in Nat /\ Len(Desired) \in Nat /\ Len(fresh) < Len(Desired)
      /\ Len(handles) = 0 \/ Len(handles) = Len(Desired)
  BY SubscriptionsAssumption DEF TypeOK
<1>2. DOMAIN fresh = 1 .. Len(fresh) /\ DOMAIN handles = 1 .. Len(handles)
  BY DEF TypeOK
<1>3. DOMAIN Desired = 1 .. Len(Desired) /\ \A n \in DOMAIN Desired : Desired[n] \in Streams
  BY SubscriptionsAssumption
<1>4. \A n \in DOMAIN Desired : n \in Nat
  BY <1>1, <1>3
<1>5. \A n \in DOMAIN handles : n \in DOMAIN Desired
  <2>1. CASE Len(handles) = 0
    <3>1. DOMAIN handles = 1 .. 0
      BY <1>2, <2>1
    <3>2. QED
      BY <3>1
  <2>2. CASE Len(handles) = Len(Desired)
    <3>1. DOMAIN handles = DOMAIN Desired
      BY <1>2, <1>3, <2>2
    <3>2. QED
      BY <3>1
  <2>3. QED
    BY <1>1, <2>1, <2>2
<1>6. \A n \in 1 .. Len(fresh) : n \in DOMAIN Desired /\ n \in DOMAIN fresh /\ n # Len(fresh) + 1
  <2>1. PICK k \in Nat, l \in Nat : k = Len(fresh) /\ l = Len(Desired)
    BY <1>1
  <2>2. k < l /\ DOMAIN Desired = 1 .. l /\ DOMAIN fresh = 1 .. k
    BY <1>1, <1>2, <1>3, <2>1
  <2>3. \A n \in 1 .. k : n \in 1 .. l /\ n # k + 1
    BY <2>2
  <2>4. QED
    BY <2>1, <2>2, <2>3
<1>7. QED
  BY <1>1, <1>3, <1>4, <1>5, <1>6

LEMMA GotSpared ==
  ASSUME TypeOK, Beliefs, Spared, NEW i \in {Foreign} \cup Ids, Got(Timer, i),
         NEW d \in Streams, d = Due,
         OneMore(i, d)
  PROVE  Spared'
<1>0. /\ Timer \in Actors /\ Len(fresh) \in Nat /\ Len(handles) \in {0, Len(Desired)}
      /\ DOMAIN Desired = 1 .. Len(Desired) /\ Len(Desired) \in Nat
      /\ DOMAIN handles = 1 .. Len(handles) /\ Len(fresh) + 1 \in DOMAIN Desired
      /\ Len(fresh) < Len(Desired) /\ DOMAIN fresh = 1 .. Len(fresh)
      /\ \A n \in DOMAIN Desired : Desired[n] \in Streams
  BY SubscriptionsAssumption DEF TypeOK, Actors
<1>a. /\ \A n \in DOMAIN Desired : n \in Nat /\ Desired[n] \in Streams
      /\ \A n \in DOMAIN handles : n \in DOMAIN Desired /\ n \in Nat
      /\ \A n \in 1 .. Len(fresh) : n \in DOMAIN Desired /\ n \in DOMAIN fresh /\ n # Len(fresh) + 1
      /\ Len(fresh) \in Nat
  BY Lengths
<1>1. Finishes(i) \/ GoesOn(i)
  BY GotTimer
<1>2. ASSUME NEW n \in DOMAIN Desired, n # Len(fresh) + 1 PROVE Carries(Desired[n])
  <2>1. Desired[n] # d
    BY <1>0, <1>2, SubscriptionsAssumption DEF IsInjective, Due
  <2>2. QED
    BY <1>0, <2>1 DEF OneMore
<1>3. ASSUME NEW n \in DOMAIN Append(fresh, i)
      PROVE  StillCovered(Append(fresh, i)[n], Desired[n])
  <2>1. CASE n = Len(fresh) + 1
    BY <2>1, Gathered DEF OneMore, Due
  <2>2. CASE n \in 1 .. Len(fresh)
    <3>1. n \in DOMAIN Desired /\ n # Len(fresh) + 1 /\ n \in DOMAIN fresh
      BY <1>a, <2>2
    <3>2. Carries(Desired[n]) /\ For(fresh[n], Desired[n]) /\ Covered(fresh[n], Desired[n])
      BY <1>2, <3>1 DEF Beliefs, Spared
    <3>3. Append(fresh, i)[n] = fresh[n]
      BY <2>2, Gathered
    <3>4. QED
      BY <3>2, <3>3 DEF Carries
  <2>3. QED
    BY <1>3, <2>1, <2>2, Gathered
<1>4. CASE Finishes(i)
  <2>1. /\ pc'[Timer] = "idle" /\ fresh' = <<>> /\ handles' = Append(fresh, i)
    BY <1>0, <1>4 DEF Finishes, TypeOK
  <2>2. \A n \in DOMAIN fresh' : StillCovered(fresh'[n], Desired[n])
    BY <2>1
  <2>3. QED
    BY <1>3, <2>1, <2>2 DEF Spared, Covered, StillCovered, OneMore
<1>5. CASE GoesOn(i)
  <2>1. /\ pc'[Timer] = IF pc[Timer] \in {"patch", "recreate"} THEN "patch" ELSE "place"
        /\ fresh' = Append(fresh, i) /\ Len(fresh') = Len(fresh) + 1
        /\ UNCHANGED <<handles, actual>>
    BY <1>0, <1>5, Gathered DEF GoesOn, TypeOK
  <2>2. ASSUME NEW n \in DOMAIN Desired, pc'[Timer] = "place", n > Len(fresh) + 1
        PROVE  StillCovered(actual[Desired[n]], Desired[n])
    <3>1. pc[Timer] \in {"place", "create"} /\ n > Len(fresh) /\ n # Len(fresh) + 1
      <4>1. n \in Nat
        BY <1>a
      <4>2. pc[Timer] \notin {"patch", "recreate"}
        BY <2>1, <2>2
      <4>3. pc[Timer] \in {"place", "create"}
        BY <4>2 DEF OneMore
      <4>4. QED
        BY <1>a, <2>2, <4>1, <4>3
    <3>2. Covered(actual[Desired[n]], Desired[n]) /\ Carries(Desired[n])
      BY <1>2, <3>1 DEF Spared
    <3>3. QED
      BY <1>0, <3>2 DEF Carries, Beliefs
  <2>3. ASSUME NEW n \in DOMAIN handles, n > Len(fresh) + 1 \/ pc'[Timer] # "place",
               known'[handles[n]] # {}
        PROVE  StillCovered(handles[n], Desired[n])
    <3>1. n > Len(fresh) + 1 \/ pc[Timer] \in {"patch", "recreate"}
      BY <2>1, <2>3 DEF OneMore
    <3>2. CASE n = Len(fresh) + 1
      BY <1>a, <2>3, <3>1, <3>2 DEF OneMore, Due
    <3>3. CASE n # Len(fresh) + 1
      <4>1. n \in DOMAIN Desired /\ For(handles[n], Desired[n]) /\ known[handles[n]] # {}
        BY <1>a, <2>3, <3>3 DEF Beliefs, OneMore
      <4>2. n > Len(fresh) \/ pc[Timer] \notin {"place", "create"}
        BY <1>a, <3>1
      <4>3. Covered(handles[n], Desired[n]) /\ Carries(Desired[n])
        BY <1>2, <3>3, <4>1, <4>2 DEF Spared
      <4>4. QED
        BY <4>1, <4>3 DEF Carries
    <3>4. QED
      BY <3>2, <3>3
  <2>4. QED
    BY <1>3, <2>1, <2>2, <2>3 DEF Spared, Covered, StillCovered, OneMore
<1>6. QED
  BY <1>1, <1>4, <1>5

\* The timer goes on to another step with the same handles: what it is about to do has
\* room, and it only leaves a reconcile() if all folders have.
LEMMA TimerMoves ==
  ASSUME TypeOK, Beliefs, Spared, Frugal, \A s \in Streams : Carries(s),
         UNCHANGED <<handles, fresh, known>>,
         pc'[Timer] \in {"create", "recreate"} =>
           \E s \in Streams : stream'[Timer] = s /\ Within(s, 0)',
         pc'[Timer] \in {"place", "create"} =>
           \A n \in DOMAIN Desired : n > Len(fresh) => StillCovered(actual'[Desired[n]], Desired[n]),
         \/ pc'[Timer] \in {"place", "create"} \/ pc[Timer] \notin {"place", "create"}
         \/ \A s \in Streams : Within(s, 0)'
  PROVE  Spared'
<1>0. \A n \in DOMAIN Desired : Desired[n] \in Streams
  BY Lengths
<1>1. \A s \in Streams : Within(s, 1)'
  BY DEF Spared, Frugal
<1>2. ASSUME pc'[Timer] \in {"create", "recreate"} PROVE Within(stream[Timer], 0)'
  <2>1. PICK s \in Streams : stream'[Timer] = s /\ Within(s, 0)'
    BY <1>2
  <2>2. QED
    BY <2>1 DEF Within
<1>4. ASSUME NEW n \in DOMAIN fresh PROVE StillCovered(fresh[n], Desired[n])
  <2>1. Desired[n] \in Streams
    BY <1>0, <1>4 DEF TypeOK
  <2>2. QED
    BY <1>4, <2>1 DEF Spared, Carries, Beliefs
<1>5. ASSUME NEW n \in DOMAIN handles, n > Len(fresh) \/ pc'[Timer] \notin {"place", "create"},
             known[handles[n]] # {}
      PROVE  StillCovered(handles[n], Desired[n])
  <2>1. Desired[n] \in Streams
    BY <1>0, <1>5, Lengths
  <2>2. CASE n > Len(fresh) \/ pc[Timer] \notin {"place", "create"}
    BY <1>5, <2>1, <2>2 DEF Spared, Carries, Beliefs
  <2>3. CASE \A s \in Streams : Within(s, 0)'
    BY <2>1, <2>3 DEF StillCovered
  <2>4. QED
    BY <1>5, <2>2, <2>3
<1>6. QED
  BY <1>1, <1>2, <1>4, <1>5 DEF Spared, Covered, StillCovered

LEMMA SparedKept == SubscriptionsInv /\ [Next]_vars => Spared'
<1> SUFFICES ASSUME SubscriptionsInv, [Next]_vars PROVE Spared'
  OBVIOUS
<1> USE DEF graph, memory, locals, counters
<1>0. TypeOK /\ Threading /\ Beliefs /\ KnownTrue /\ Spared
  BY DEF SubscriptionsInv, Beliefs
<1>a. Timer # Consumer /\ Timer \in Actors /\ Consumer \in Actors
  BY DEF Timer, Consumer, Actors
<1>b. /\ IsFiniteSet(signals) /\ Cardinality(signals) \in Nat
      /\ sent \in Nat /\ failures \in Nat /\ next \in Nat
      /\ Foreign \notin Ids /\ Nothing \notin Ids /\ Nothing \notin live
  BY <1>0, FS_CardinalityType, SubscriptionsAssumption
     DEF Threading, TypeOK, Foreign, Nothing, Ids
<1>c. ASSUME NEW x PROVE /\ Cardinality(signals \cup {x}) \in Nat /\ Cardinality(signals \ {x}) \in Nat
                         /\ Cardinality(signals \cup {x}) <= Cardinality(signals) + 1
                         /\ Cardinality(signals \ {x}) <= Cardinality(signals)
                         /\ x \in signals => Cardinality(signals \ {x}) = Cardinality(signals) - 1
  BY <1>b, SignalCount
<1>d. ASSUME signals' \in {signals, signals \ {task}}, sent' = sent,
             failures' = failures \/ failures' = failures + 1
      PROVE  SignalsPaid
  <2>1. Cardinality(signals') \in Nat /\ Cardinality(signals') <= Cardinality(signals)
    BY <1>b, <1>c, <1>d
  <2>2. QED
    BY <1>b, <1>d, <2>1 DEF SignalsPaid
<1>e. ASSUME NEW x, (sent' = sent /\ signals' = signals) \/ (sent' = sent + 1 /\ signals' = signals \cup {x}),
             failures' = failures
      PROVE  SignalsPaid
  <2>1. CASE sent' = sent /\ signals' = signals
    BY <1>b, <1>e, <2>1 DEF SignalsPaid
  <2>2. CASE sent' = sent + 1 /\ signals' = signals \cup {x}
    <3>1. Cardinality(signals') \in Nat /\ Cardinality(signals') <= Cardinality(signals) + 1
      BY <1>c, <2>2
    <3>2. QED
      BY <1>b, <1>e, <2>2, <3>1 DEF SignalsPaid
  <2>3. QED
    BY <1>e, <2>1, <2>2
\* A step that touches neither Graph nor the timer's lists.
<1>f. ASSUME UNCHANGED <<live, resource, known, handles, fresh, actual>>, SignalsPaid,
             pc'[Timer] = pc[Timer], stream'[Timer] = stream[Timer]
      PROVE  Spared'
  <2>1. Frugal
    BY <1>0, <1>f, FrugalStep
  <2>2. \A s \in Streams : Carries(s)
    BY <1>f, <2>1, FrugalCarries
  <2>3. QED
    BY <1>0, <1>f, <2>1, <2>2, SparedFrame
<1>1. ASSUME NEW i \in Ids, Expire(i) PROVE Spared'
  <2>1. PICK x : x = [kind |-> "subscriptionRemoved", id |-> i]
    OBVIOUS
  <2>2. SignalsPaid
    BY <1>1, <1>e, <2>1 DEF Expire
  <2>3. i \in Ours /\ live' = live \ {i} /\ resource' = resource
    BY <1>1 DEF Expire
  <2>4. Frugal
    BY <1>0, <2>2, <2>3, FrugalStep
  <2>5. ASSUME NEW s \in Streams PROVE Carries(s)
    <3>1. ASSUME NEW j, j = Nothing \/ For(j, s), Covered(j, s), j \notin live' PROVE Within(s, 0)'
      <4>1. CASE j \notin live
        BY <2>4, <3>1, <4>1 DEF Covered, Frugal
      <4>2. CASE j = i
        <5>1. resource[i] = s /\ i \notin live'
          BY <1>b, <2>3, <3>1, <4>2 DEF For
        <5>2. /\ Cardinality(On(s, Ours)) \in Nat /\ Cardinality(On(s, Ours))' \in Nat
              /\ Cardinality(On(s, Ours))' + 1 <= Cardinality(On(s, Ours))
          BY <1>0, <2>3, <5>1, Shrinking
        <5>3. Within(s, 1)
          BY <1>0 DEF Spared
        <5>4. QED
          BY <2>2, <5>2, <5>3 DEF SignalsPaid, Within
      <4>3. QED
        BY <2>3, <3>1, <4>1, <4>2
    <3>2. QED
      BY <3>1 DEF Carries, StillCovered
  <2>6. QED
    BY <1>0, <1>1, <2>4, <2>5, SparedFrame DEF Expire
<1>2. ASSUME NEW i \in Ids, Reauthorize(i) PROVE Spared'
  <2>1. PICK x : x = [kind |-> "reauthorizationRequired", id |-> i]
    OBVIOUS
  <2>2. SignalsPaid
    BY <1>2, <1>e, <2>1 DEF Reauthorize
  <2>3. QED
    BY <1>2, <1>f, <2>2 DEF Reauthorize
<1>3. CASE Crash
  <2>1. Frugal
    BY <1>0, <1>3, <1>d, FrugalStep DEF Crash
  <2>2. pc'[Timer] = "idle" /\ handles' = <<>> /\ fresh' = <<>>
    BY <1>3, <1>a DEF Crash
  <2>3. \A s \in Streams : Within(s, 1)'
    BY <1>0, <2>1 DEF Frugal, Spared
  <2>4. QED
    BY <2>2, <2>3 DEF Spared
<1>4. CASE Boot
  BY <1>4, <1>d, <1>f DEF Boot
\* A step of the timer alone.
<1>g. ASSUME UNCHANGED <<live, resource>>, SignalsPaid
      PROVE  Frugal /\ \A s \in Streams : Carries(s)
  BY <1>0, <1>g, FrugalStep, FrugalCarries
<1>h. ASSUME Frugal, NEW a \in Actors, a = Consumer, live \subseteq live',
             UNCHANGED <<handles, fresh, actual>>,
             \A n \in DOMAIN handles : known'[handles[n]] # {} => known[handles[n]] # {},
             pc'[Timer] = pc[Timer], stream'[Timer] = stream[Timer]
      PROVE  Spared'
  BY <1>0, <1>h, FrugalCarries, SparedFrame
<1>i. /\ Len(fresh) + 1 \in DOMAIN Desired /\ Due \in Streams /\ Due = Desired[Len(fresh) + 1]
      /\ Len(fresh) + 1 > Len(fresh) /\ Len(fresh) \in Nat
  BY <1>0, Aims, Lengths DEF Due
<1>5. ASSUME NEW a \in Actors, Patch(a) PROVE Spared'
  <2>1. CASE a = Consumer
    <3>1. /\ signals' = signals \ {task}
          /\ UNCHANGED <<live, resource, known, handles, fresh, actual, sent, failures>>
          /\ pc'[Timer] = pc[Timer] /\ stream' = stream
      BY <1>0, <1>5, <1>a, <2>1, GotConsumer DEF Patch, TypeOK
    <3>2. QED
      BY <1>d, <1>f, <3>1
  <2>2. CASE a = Timer
    <3>1. PICK i \in Ids, d \in Streams : i = Target(Timer) /\ d = Due
      BY <1>5, <1>i, <2>2, Aims DEF Patch
    <3>2. Got(Timer, i) /\ i \in live /\ pc[Timer] = "patch" /\ i = handles[Len(fresh) + 1]
      BY <1>5, <2>2, <3>1, Aims DEF Patch
    <3>3. UNCHANGED <<live, resource, known, sent, failures, signals>>
      BY <1>0, <1>5, <2>2, <3>2, GotTimer DEF Patch
    <3>4. Frugal /\ \A s \in Streams : Carries(s)
      BY <1>d, <1>g, <3>3
    <3>5. OneMore(i, d)
      BY <1>0, <3>2, <3>3, <3>4 DEF OneMore, Frugal, Spared, StillCovered
    <3>6. QED
      BY <1>0, <3>1, <3>2, <3>5, GotSpared
  <2>3. QED
    BY <2>1, <2>2 DEF Actors
<1>6. ASSUME NEW a \in Actors, Missing(a) PROVE Spared'
  <2>0. UNCHANGED <<live, resource, known, handles, fresh, actual, sent, failures, signals>>
    BY <1>6 DEF Missing
  <2>1. CASE a = Consumer
    BY <1>0, <1>6, <1>a, <1>d, <1>f, <2>0, <2>1 DEF Missing, Goto, TypeOK
  <2>2. CASE a = Timer
    <3>1. PICK d \in Streams : d = Due
      BY <1>i
    <3>2. For(Target(Timer), d) /\ Target(Timer) = handles[Len(fresh) + 1] /\ Len(fresh) + 1 \in DOMAIN handles
      BY <1>6, <1>i, <2>2, <3>1, Aims DEF Missing
    <3>3. pc'[Timer] = "recreate" /\ stream'[Timer] = d
      BY <1>0, <1>6, <1>a, <2>2, <3>1, <3>2 DEF Missing, Goto, TypeOK, KnownTrue, For
    <3>4. Frugal /\ \A s \in Streams : Carries(s)
      BY <1>d, <1>g, <2>0
    <3>5. Within(d, 0)
      BY <1>0, <1>6, <1>i, <2>2, <3>1, <3>2 DEF Missing, Spared, Covered
    <3>6. Within(d, 0)'
      BY <3>4, <3>5 DEF Frugal
    <3>7. pc[Timer] = "patch"
      BY <1>6, <2>2 DEF Missing
    <3>8. QED
      BY <1>0, <2>0, <3>3, <3>4, <3>6, <3>7, TimerMoves
  <2>3. QED
    BY <2>1, <2>2 DEF Actors
\* Where one more subscription may be, and where it is not.
<1>j. ASSUME NEW x, next \in Ids, live' = live \cup {next}, next' = next + 1,
             resource' = [resource EXCEPT ![next] = x]
      PROVE  /\ next \notin live /\ live \subseteq live'
             /\ \A n \in DOMAIN handles : handles[n] \in Ids /\ handles[n] # next
             /\ \A s \in Streams :
                  /\ Cardinality(On(s, Ours)) \in Nat /\ Cardinality(On(s, Ours))' \in Nat
                  /\ s # x => Cardinality(On(s, Ours))' = Cardinality(On(s, Ours))
                  /\ Cardinality(On(s, Ours))' <= Cardinality(On(s, Ours)) + 1
  <2>1. next \notin live /\ live \subseteq live'
    BY <1>0, <1>b, <1>j DEF Threading
  <2>2. \A n \in DOMAIN handles : handles[n] \in Ids /\ handles[n] # next
    BY <1>0, <1>b DEF Beliefs, For
  <2>3. QED
    BY <1>0, <1>j, <2>1, <2>2, Watching
<1>7. ASSUME NEW a \in Actors, Create(a) PROVE Spared'
  <2>0. /\ next \in Ids /\ live' = live \cup {next} /\ next' = next + 1
        /\ resource' = [resource EXCEPT ![next] = stream[a]]
        /\ UNCHANGED <<sent, failures, stream>> /\ Got(a, next)
        /\ pc[a] \in {"create", "recreate"}
    BY <1>7 DEF Create
  <2>1. ASSUME NEW i \in Ids, i # next, known'[i] # {} PROVE known[i] # {}
    BY <1>0, <1>7, <2>1 DEF Create, TypeOK
  <2>2. CASE a = Consumer
    <3>1. /\ signals' = signals \ {task} /\ task \in signals
          /\ UNCHANGED <<handles, fresh, actual>> /\ pc'[Timer] = pc[Timer]
      BY <1>0, <1>a, <2>0, <2>2, GotConsumer DEF TypeOK, Threading
    <3>2. Cardinality(signals') = Cardinality(signals) - 1
      BY <1>c, <3>1
    <3>3. Frugal
      <4>1. ASSUME NEW s \in Streams, NEW k \in {0, 1}, Within(s, k) PROVE Within(s, k)'
        <5>1. /\ Cardinality(On(s, Ours)) \in Nat /\ Cardinality(On(s, Ours))' \in Nat
              /\ Cardinality(On(s, Ours))' <= Cardinality(On(s, Ours)) + 1
          BY <1>j, <2>0
        <5>2. QED
          BY <1>b, <2>0, <3>2, <4>1, <5>1 DEF Within
      <4>2. QED
        BY <4>1 DEF Frugal
    <3>4. \A n \in DOMAIN handles : known'[handles[n]] # {} => known[handles[n]] # {}
      BY <1>j, <2>0, <2>1
    <3>5. QED
      BY <1>h, <1>j, <2>0, <2>2, <3>1, <3>3, <3>4
  <2>3. CASE a = Timer
    <3>1. PICK d \in Streams : d = Due
      BY <1>i
    <3>2. stream[Timer] = d /\ signals' = signals /\ pc[Timer] \in {"create", "recreate"}
      BY <1>0, <2>0, <2>3, <3>1, GotTimer DEF Beliefs
    <3>3. \A s \in Streams \ {d} : \A k \in {0, 1} : Within(s, k) => Within(s, k)'
      <4>1. ASSUME NEW s \in Streams \ {d}, NEW k \in {0, 1}, Within(s, k) PROVE Within(s, k)'
        <5>1. Cardinality(On(s, Ours))' = Cardinality(On(s, Ours))
          BY <1>j, <2>0, <2>3, <3>2
        <5>2. QED
          BY <2>0, <3>2, <4>1, <5>1 DEF Within
      <4>2. QED
        BY <4>1
    <3>4. Within(d, 1)'
      <4>1. Within(d, 0)
        BY <1>0, <3>2 DEF Spared
      <4>2. /\ Cardinality(On(d, Ours)) \in Nat /\ Cardinality(On(d, Ours))' \in Nat
            /\ Cardinality(On(d, Ours))' <= Cardinality(On(d, Ours)) + 1
        BY <1>j, <2>0
      <4>3. QED
        BY <1>b, <2>0, <3>2, <4>1, <4>2 DEF Within
    <3>5. \A s \in Streams : Within(s, 1)'
      BY <1>0, <3>3, <3>4 DEF Spared
    <3>6. \A s \in Streams \ {d} : Carries(s)
      BY <2>0, <3>3 DEF Carries, Covered, StillCovered
    <3>7. StillCovered(next, d)
      BY <2>0 DEF StillCovered
    <3>8. \A n \in DOMAIN handles :
            n # Len(fresh) + 1 /\ known'[handles[n]] # {} => known[handles[n]] # {}
      BY <1>j, <2>0, <2>1
    <3>9. pc[Timer] \in {"patch", "recreate"} => known'[handles[Len(fresh) + 1]] = {}
      <4>1. ASSUME pc[Timer] \in {"patch", "recreate"} PROVE known'[handles[Len(fresh) + 1]] = {}
        <5>1. PICK h \in Ids : h = Target(Timer)
          BY <1>a, <4>1, Aims
        <5>2. Len(fresh) + 1 \in DOMAIN handles /\ h = handles[Len(fresh) + 1] /\ h # next
          BY <1>i, <1>j, <2>0, <4>1, <5>1, Aims
        <5>3. pc[Timer] = "recreate"
          BY <3>2, <4>1
        <5>4. known'[h] = {}
          BY <1>0, <1>7, <2>3, <5>1, <5>2, <5>3 DEF Create, TypeOK
        <5>5. QED
          BY <5>2, <5>4
      <4>2. QED
        BY <4>1
    <3>10. OneMore(next, d)
      BY <3>2, <3>5, <3>6, <3>7, <3>8, <3>9 DEF OneMore
    <3>11. QED
      BY <1>0, <2>0, <2>3, <3>1, <3>10, GotSpared
  <2>4. QED
    BY <2>2, <2>3 DEF Actors
<1>8. ASSUME NEW a \in Actors, CreateUnheard(a) PROVE Spared'
  <2>0. /\ next \in Ids /\ live' = live \cup {next} /\ next' = next + 1
        /\ resource' = [resource EXCEPT ![next] = stream[a]] /\ failures' = failures + 1
        /\ UNCHANGED <<sent, signals, stream, handles, fresh, actual, known>>
    BY <1>8 DEF CreateUnheard
  <2>1. ASSUME NEW s \in Streams, NEW k \in {0, 1}, Within(s, k) PROVE Within(s, k)'
    <3>1. /\ Cardinality(On(s, Ours)) \in Nat /\ Cardinality(On(s, Ours))' \in Nat
          /\ Cardinality(On(s, Ours))' <= Cardinality(On(s, Ours)) + 1
      BY <1>j, <2>0
    <3>2. QED
      BY <1>b, <2>0, <2>1, <3>1 DEF Within
  <2>2. Frugal
    BY <2>1 DEF Frugal
  <2>3. CASE a = Consumer
    <3>1. pc'[Timer] = pc[Timer]
      BY <1>0, <1>8, <1>a, <2>3 DEF CreateUnheard, Goto, TypeOK
    <3>2. QED
      BY <1>h, <2>0, <2>2, <2>3, <3>1
  <2>4. CASE a = Timer
    <3>1. pc'[Timer] = "raise" /\ pc[Timer] \in {"create", "recreate"}
      BY <1>0, <1>8, <1>a, <2>4 DEF CreateUnheard, Goto, TypeOK
    <3>2. \A s \in Streams : Carries(s)
      BY <2>0, <2>2, FrugalCarries
    <3>3. ASSUME NEW s \in Streams PROVE Within(s, 0)'
      <4>1. CASE s = stream[Timer]
        BY <1>0, <2>1, <3>1, <4>1 DEF Spared
      <4>2. CASE s # stream[Timer]
        <5>1. /\ Cardinality(On(s, Ours)) \in Nat
              /\ Cardinality(On(s, Ours))' = Cardinality(On(s, Ours))
          BY <1>j, <2>0, <2>4, <4>2
        <5>2. Within(s, 1)
          BY <1>0 DEF Spared
        <5>3. QED
          BY <1>b, <2>0, <5>1, <5>2 DEF Within
      <4>3. QED
        BY <4>1, <4>2
    <3>4. QED
      BY <1>0, <2>0, <2>2, <3>1, <3>2, <3>3, TimerMoves
  <2>5. QED
    BY <2>3, <2>4 DEF Actors
<1>9. ASSUME NEW a \in Actors, CallFails(a) PROVE Spared'
  <2>0. /\ UNCHANGED <<live, resource, known, handles, fresh, actual, sent, signals, stream>>
        /\ failures' = failures + 1
    BY <1>9 DEF CallFails
  <2>1. CASE a = Consumer
    BY <1>0, <1>9, <1>a, <1>d, <1>f, <2>0, <2>1 DEF CallFails, Goto, TypeOK
  <2>2. CASE a = Timer
    <3>1. pc'[Timer] = "raise"
      BY <1>0, <1>9, <1>a, <2>2 DEF CallFails, Goto, TypeOK
    <3>2. Frugal /\ \A s \in Streams : Carries(s)
      BY <1>d, <1>g, <2>0
    <3>3. ASSUME NEW s \in Streams PROVE Within(s, 0)'
      <4>1. /\ Cardinality(On(s, Ours)) \in Nat /\ Cardinality(On(s, Ours))' \in Nat
            /\ Cardinality(On(s, Ours))' <= Cardinality(On(s, Ours))
        BY <1>0, <2>0, Shrinking
      <4>2. Within(s, 1)
        BY <1>0 DEF Spared
      <4>3. QED
        BY <1>b, <2>0, <4>1, <4>2 DEF Within
    <3>4. QED
      BY <1>0, <2>0, <3>1, <3>2, <3>3, TimerMoves
  <2>3. QED
    BY <2>1, <2>2 DEF Actors
<1>10. ASSUME NEW a \in Actors, Unknown(a) PROVE Spared'
  <2>0. UNCHANGED <<live, resource, known, handles, fresh, actual, sent, signals, stream, failures>>
    BY <1>10 DEF Unknown
  <2>1. CASE a = Consumer
    BY <1>0, <1>10, <1>a, <1>d, <1>f, <2>0, <2>1 DEF Unknown, Goto, TypeOK
  <2>2. CASE a = Timer
    <3>1. pc'[Timer] = "raise" /\ pc[Timer] = "patch"
      BY <1>0, <1>10, <1>a, <2>2 DEF Unknown, Goto, TypeOK
    <3>2. Frugal /\ \A s \in Streams : Carries(s)
      BY <1>d, <1>g, <2>0
    <3>3. QED
      BY <1>0, <2>0, <3>1, <3>2, TimerMoves
  <2>3. QED
    BY <2>1, <2>2 DEF Actors
<1>11. ASSUME NEW a \in Actors, Raise(a) PROVE Spared'
  <2>0. UNCHANGED <<live, resource, known, handles, sent, failures, stream>> /\ signals' \in {signals, signals \ {task}}
    BY <1>11 DEF Raise
  <2>1. CASE a = Consumer
    BY <1>0, <1>11, <1>a, <1>d, <1>f, <2>0, <2>1 DEF Raise, Goto, TypeOK
  <2>2. CASE a = Timer
    <3>1. pc'[Timer] = "idle" /\ pc[Timer] = "raise" /\ fresh' = <<>>
      BY <1>0, <1>11, <1>a, <2>2 DEF Raise, Goto, TypeOK
    <3>2. Frugal /\ \A s \in Streams : Carries(s)
      BY <1>d, <1>g, <2>0
    <3>3. \A s \in Streams : Within(s, 1)'
      BY <1>0, <3>2 DEF Frugal, Spared
    <3>4. \A n \in DOMAIN handles : known[handles[n]] # {} => StillCovered(handles[n], Desired[n])
      BY <1>0, <3>1, <3>2, Lengths DEF Spared, Beliefs, Carries
    <3>5. QED
      BY <2>0, <3>1, <3>3, <3>4 DEF Spared, Covered, StillCovered
  <2>3. QED
    BY <2>1, <2>2 DEF Actors
<1>12. CASE StartReconcile
  <2>0. UNCHANGED <<live, resource, known, handles, fresh, sent, signals, failures>>
    BY <1>12 DEF StartReconcile
  <2>1. Frugal /\ \A s \in Streams : Carries(s)
    BY <1>d, <1>g, <2>0
  <2>2. pc'[Timer] = "place"
    BY <1>0, <1>12, <1>a DEF StartReconcile, Goto, TypeOK
  <2>3. ASSUME NEW s \in Streams PROVE StillCovered(actual'[s], s)
    <3>1. CASE On(s, Ours) = {}
      <4>1. Cardinality(On(s, Ours)) = 0
        BY <3>1, FS_EmptySet
      <4>2. Within(s, 0)
        BY <1>0, <1>b, <4>1 DEF Within, Threading
      <4>3. QED
        BY <2>1, <4>2 DEF Frugal, StillCovered
    <3>2. CASE On(s, Ours) # {}
      <4>1. actual'[s] \in On(s, Ours)
        BY <1>12, <3>2 DEF StartReconcile
      <4>2. QED
        BY <2>0, <4>1 DEF StillCovered, On, Ours
    <3>3. QED
      BY <3>1, <3>2
  <2>4. \A n \in DOMAIN Desired : n > Len(fresh) => StillCovered(actual'[Desired[n]], Desired[n])
    BY <1>0, <2>3, Lengths
  <2>5. QED
    BY <1>0, <2>0, <2>1, <2>2, <2>4, TimerMoves
<1>13. CASE Track
  <2>1. PICK j \in Ids, d \in Streams : j = actual[Due] /\ d = Due
    BY <1>0, <1>13, <1>i DEF Beliefs, For, Track
  <2>2. known' = [known EXCEPT ![j] = {d}] /\ Got(Timer, j) /\ pc[Timer] = "place"
    BY <1>13, <2>1 DEF Track
  <2>3. UNCHANGED <<live, resource, sent, failures, signals>>
    BY <1>0, <1>13, <2>2, GotTimer DEF Track
  <2>4. Frugal /\ \A s \in Streams : Carries(s)
    BY <1>d, <1>g, <2>3
  <2>5. Covered(j, d) /\ For(j, d)
    BY <1>0, <1>b, <1>i, <2>1, <2>2 DEF Spared, Beliefs
  <2>6. StillCovered(j, d)
    BY <2>4, <2>5 DEF Carries
  <2>7. ASSUME NEW n \in DOMAIN handles, n # Len(fresh) + 1, known'[handles[n]] # {}
        PROVE  known[handles[n]] # {}
    <3>1. n \in DOMAIN Desired /\ resource[handles[n]] = Desired[n] /\ handles[n] \in Ids
      BY <1>0, <2>7, Lengths DEF Beliefs, For
    <3>2. Desired[n] # d
      BY <1>i, <2>1, <2>7, <3>1, SubscriptionsAssumption DEF IsInjective
    <3>3. handles[n] # j
      BY <2>5, <3>1, <3>2 DEF For
    <3>4. QED
      BY <1>0, <2>2, <2>7, <3>1, <3>3 DEF TypeOK
  <2>8. \A s \in Streams : Within(s, 1)'
    BY <1>0, <2>4 DEF Frugal, Spared
  <2>9. OneMore(j, d)
    BY <2>2, <2>4, <2>6, <2>7, <2>8 DEF OneMore
  <2>10. QED
    BY <1>0, <2>1, <2>2, <2>9, GotSpared
<1>14. CASE Place
  <2>0. UNCHANGED <<live, resource, known, handles, fresh, actual, sent, signals, failures>>
    BY <1>14 DEF Place
  <2>1. Frugal /\ \A s \in Streams : Carries(s)
    BY <1>d, <1>g, <2>0
  <2>2. PICK d \in Streams : d = Due
    BY <1>i
  <2>3. pc[Timer] = "place" /\ pc'[Timer] = "create" /\ stream'[Timer] = d /\ actual[d] = Nothing
    BY <1>0, <1>14, <1>a, <2>2 DEF Place, Goto, TypeOK
  <2>4. Within(d, 0)'
    BY <1>0, <1>b, <1>i, <2>1, <2>2, <2>3 DEF Spared, Covered, Frugal
  <2>5. \A n \in DOMAIN Desired : n > Len(fresh) => StillCovered(actual[Desired[n]], Desired[n])
    BY <1>0, <2>1, <2>3, Lengths DEF Spared, Carries, Beliefs
  <2>6. QED
    BY <1>0, <2>0, <2>1, <2>3, <2>4, <2>5, TimerMoves
<1>15. CASE StartRenewAll
  <2>0. UNCHANGED <<live, resource, known, handles, fresh, actual, sent, signals, failures>>
    BY <1>15 DEF StartRenewAll
  <2>1. Frugal /\ \A s \in Streams : Carries(s)
    BY <1>d, <1>g, <2>0
  <2>2. pc[Timer] = "idle" /\ pc'[Timer] = "patch"
    BY <1>0, <1>15, <1>a DEF StartRenewAll, Goto, TypeOK
  <2>3. QED
    BY <1>0, <2>0, <2>1, <2>2, TimerMoves
<1>16. CASE Handle
  BY <1>0, <1>16, <1>a, <1>d, <1>f DEF Handle, Goto, TypeOK
<1>17. CASE UNCHANGED vars
  BY <1>17, <1>d, <1>f DEF vars
<1>18. QED
  BY <1>1, <1>2, <1>3, <1>4, <1>5, <1>6, <1>7, <1>8, <1>9, <1>10, <1>11, <1>12, <1>13, <1>14,
     <1>15, <1>16, <1>17 DEF Next, Step, Fault, Reconcile

----------------------------------------------------------------------------
(* The theorems.                                                           *)

LEMMA SubscriptionsInvariant == Spec => []SubscriptionsInv
<1>1. Init => SubscriptionsInv
  <2> SUFFICES ASSUME Init PROVE SubscriptionsInv
    OBVIOUS
  <2>0. /\ Desired[1] \in Streams /\ Len(Desired) \in Nat /\ Len(Desired) > 0
        /\ Foreign \notin Ids /\ Ids \subseteq Nat /\ 1 \in 1 .. Nothing /\ Timer \in Actors /\ Consumer \in Actors
    BY SubscriptionsAssumption DEF Foreign, Ids, Nothing, Actors
  <2>1. TypeOK
    <3>1. /\ resource \in [{Foreign} \cup Ids -> Streams] /\ known \in [{Foreign} \cup Ids -> SUBSET Streams]
          /\ pc \in [Actors -> {"idle", "place", "patch", "create", "recreate", "raise"}]
          /\ stream \in [Actors -> Streams] /\ actual \in [Streams -> Slots]
      BY <2>0 DEF Init, NoneKnown, NoneListed, Slots
    <3>2. /\ handles \in Seq({Foreign} \cup Ids) /\ Len(handles) \in {0, Len(Desired)}
          /\ fresh \in Seq({Foreign} \cup Ids) /\ Len(fresh) < Len(Desired)
      BY <2>0 DEF Init
    <3>3. QED
      BY <2>0, <3>1, <3>2 DEF TypeOK, Init
  <2>2. IsFiniteSet(signals) /\ Cardinality(signals) = 0
    BY FS_EmptySet DEF Init
  <2>3. Threading
    BY <2>0, <2>2 DEF Init, Threading, Foreign
  <2>4. Beliefs
    BY <2>0 DEF Init, Beliefs, KnownTrue, NoneKnown, NoneListed
  <2>5. Remembered
    BY <2>0 DEF Init, Remembered
  <2>6. \A s \in Streams : Within(s, 1)
    <3>1. ASSUME NEW s \in Streams PROVE Cardinality(On(s, Ours)) = 0
      <4>1. On(s, Ours) = {}
        BY DEF Init, On, Ours
      <4>2. QED
        BY <4>1, FS_EmptySet
    <3>2. QED
      BY <2>2, <3>1 DEF Within, Init
  <2>7. Spared
    BY <2>0, <2>6 DEF Init, Spared
  <2>8. QED
    BY <2>1, <2>3, <2>4, <2>5, <2>7 DEF SubscriptionsInv
<1>2. SubscriptionsInv /\ [Next]_vars => SubscriptionsInv'
  BY TypesKept, ThreadingKept, BeliefsKept, RememberedKept, SparedKept DEF SubscriptionsInv
<1>3. QED
  BY <1>1, <1>2, PTL DEF Spec

\* What the manager and the reconciler believe of a handle is what Graph was asked for,
\* neither ever takes up another application's subscription, and nothing but a failed call
\* or a signal makes a tracked handle one whose stream is forgotten (reconciler.py 3-5).
THEOREM BeliefsAreTrue == Spec => []BeliefsTrue
<1>1. SubscriptionsInv => BeliefsTrue
  <2> SUFFICES ASSUME SubscriptionsInv PROVE BeliefsTrue
    OBVIOUS
  <2>1. TypeOK /\ Beliefs /\ KnownTrue /\ Remembered
    BY DEF SubscriptionsInv, Beliefs
  <2>2. ASSUME failures = 0, sent = 0, NEW n \in DOMAIN handles
        PROVE  known[IF n <= Len(fresh) THEN fresh[n] ELSE handles[n]] # {}
    <3>1. n \in Nat /\ Len(fresh) \in Nat /\ (n <= Len(fresh) => n \in DOMAIN fresh)
      BY <2>1 DEF TypeOK
    <3>2. QED
      BY <2>1, <2>2, <3>1 DEF Remembered
  <2>3. TrackedIsKnown
    BY <2>2 DEF TrackedIsKnown
  <2>4. \A n \in DOMAIN handles : handles[n] # Foreign /\ resource[handles[n]] = Desired[n]
    BY <2>1 DEF Beliefs, For, Foreign, Ids
  <2>5. QED
    BY <2>1, <2>3, <2>4 DEF BeliefsTrue, KnownTrue
<1>2. QED
  BY <1>1, SubscriptionsInvariant, PTL

\* Besides the one it needs, a folder has a subscription only for a signal the consumer
\* was sent or a call or process that failed, whatever overlapped (reconciler.py 40-53,
\* lifecycle.py 36-45).
THEOREM SparesArePaidFor == Spec => []SparesPaidFor
<1>1. SubscriptionsInv => SparesPaidFor
  <2> SUFFICES ASSUME SubscriptionsInv, NEW s \in Streams
               PROVE  Cardinality(On(s, Ours)) <= 1 + sent + failures
    BY DEF SparesPaidFor
  <2>1. Within(s, 1) /\ TypeOK /\ Threading
    BY DEF SubscriptionsInv, Spared
  <2>2. Cardinality(signals) \in Nat
    BY <2>1, FS_CardinalityType DEF Threading
  <2>3. Cardinality(On(s, Ours)) \in Nat
    <3>1. On(s, Ours) \subseteq Ids
      BY <2>1 DEF On, Ours, TypeOK
    <3>2. IsFiniteSet(Ids)
      BY FS_Interval, SubscriptionsAssumption DEF Ids
    <3>3. QED
      BY <3>1, <3>2, FS_Subset, FS_CardinalityType
  <2>4. QED
    BY <2>1, <2>2, <2>3 DEF Within, TypeOK
<1>2. QED
  BY <1>1, SubscriptionsInvariant, PTL
============================================================================
