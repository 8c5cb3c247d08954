----------------------------- MODULE StoreProofs -----------------------------
(***************************************************************************)
(* The two stores that callers share beside the dedupe store: dead letters *)
(* under redrive, and the cursor store.                                    *)
(*                                                                         *)
(* A redrive loses a record only by releasing it, and emits one more than  *)
(* once only for what has paid for it, for any number of operators,        *)
(* records and attempts and any mix of failures.                           *)
(***************************************************************************)
EXTENDS Redrive, CursorStore, FiniteSetTheorems, TLAPS

USE RedriveAssumption DEF Records

\* The initial state satisfies the inductive invariant.
LEMMA InvInit == Init => InductiveInv
  BY DEF Init, InductiveInv, TypeOK, LostOnlyByRelease

\* Every step keeps the types.
LEMMA TypeStep ==
  ASSUME TypeOK, [Next]_vars
  PROVE  TypeOK'
<1> USE DEF TypeOK, operators, Goto, Conclude
<1>1. ASSUME NEW r \in Records, DeadLetter(r) PROVE TypeOK'
  BY <1>1 DEF DeadLetter
<1>2. ASSUME NEW o \in Operators, List(o) PROVE TypeOK'
  <2>1. Listing(pending) \subseteq Records
    BY DEF Listing
  <2>2. QED
    BY <1>2, <2>1 DEF List
<1>3. ASSUME NEW o \in Operators, Take(o) PROVE TypeOK'
  <2>1. PICK r \in todo[o] : /\ current' = [current EXCEPT ![o] = r]
                             /\ todo' = [todo EXCEPT ![o] = @ \ {r}]
    BY <1>3 DEF Take
  <2>2. r \in Records
    BY <2>1
  <2>3. current' \in [Operators -> 0 .. NumRecords] /\ todo' \in [Operators -> SUBSET Records]
    BY <2>1, <2>2
  <2>4. pc' \in [Operators -> {"idle", "next", "work", "settle"}]
        /\ \A u \in Operators : pc'[u] \in {"work", "settle"} => current'[u] \in Records
    BY <1>3, <2>1, <2>2 DEF Take
  <2>5. QED
    BY <1>3, <2>3, <2>4 DEF Take
<1>4. ASSUME NEW o \in Operators, Return(o) PROVE TypeOK'
  BY <1>4 DEF Return
<1>5. ASSUME NEW o \in Operators, pc[o] = "work",
             emits' = [emits EXCEPT ![current[o]] = @ + 1]
      PROVE  emits' \in [Records -> Nat]
  <2>1. current[o] \in Records /\ emits[current[o]] \in Nat
    BY <1>5
  <2>2. QED
    BY <1>5, <2>1
<1>6. ASSUME NEW o \in Operators, Emit(o) PROVE TypeOK'
  <2>1. emits' \in [Records -> Nat]
    BY <1>5, <1>6 DEF Emit
  <2>2. QED
    BY <1>6, <2>1 DEF Emit
<1>7. ASSUME NEW o \in Operators, FilterDrop(o) \/ DeadLetterAgain(o) PROVE TypeOK'
  BY <1>7 DEF FilterDrop, DeadLetterAgain
<1>8. ASSUME NEW o \in Operators, Glitch(o) PROVE TypeOK'
  <2>1. emits' \in [Records -> Nat]
    BY <1>5, <1>8 DEF Glitch
  <2>2. glitches' \in Nat
    BY <1>8 DEF Glitch
  <2>3. released' \subseteq Records
    <3>1. current[o] \in Records /\ released \subseteq Records
      BY <1>8 DEF Glitch
    <3>2. released' \subseteq released \cup {current[o]}
      BY <1>8 DEF Glitch
    <3>3. QED
      BY <3>1, <3>2
  <2>4. UNCHANGED <<arrived, pending, dropped, todo, current, aborts>>
        /\ pc' = [pc EXCEPT ![o] = "settle"]
        /\ result' \in [Operators -> {"none", "emitted", "dropped", "dead_lettered", "released"}]
        /\ pc[o] = "work"
    BY <1>8 DEF Glitch
  <2>5. QED
    BY <2>1, <2>2, <2>3, <2>4
<1>9. ASSUME NEW o \in Operators, Settle(o) PROVE TypeOK'
  <2>1. pending' \subseteq Records
    BY <1>9 DEF Settle
  <2>2. QED
    BY <1>9, <2>1 DEF Settle
<1>10. ASSUME NEW o \in Operators, Abort(o) PROVE TypeOK'
  <2>1. aborts' \in Nat
    BY <1>10 DEF Abort
  <2>2. QED
    BY <1>10, <2>1 DEF Abort
<1>11. CASE UNCHANGED vars
  BY <1>11 DEF vars
<1>12. QED
  BY <1>1, <1>2, <1>3, <1>4, <1>6, <1>7, <1>8, <1>9, <1>10, <1>11 DEF Next, Step

\* A record that was resubmitted or released stays so.
LEMMA DealtIsFinal ==
  ASSUME TypeOK, [Next]_vars, NEW r \in Records, Dealt(r)
  PROVE  Dealt(r)'
<1> USE DEF TypeOK, Dealt, Resubmitted, operators
<1>1. ASSUME NEW o \in Operators, emits' = [emits EXCEPT ![current[o]] = @ + 1]
      PROVE  emits[r] > 0 => emits'[r] > 0
  BY <1>1
<1>2. ASSUME NEW o \in Operators, Emit(o) \/ Glitch(o) PROVE Dealt(r)'
  BY <1>1, <1>2 DEF Emit, Glitch
<1>3. ASSUME NEW o \in Operators,
             \/ List(o) \/ Take(o) \/ Return(o) \/ FilterDrop(o) \/ DeadLetterAgain(o)
             \/ Settle(o) \/ Abort(o)
      PROVE  Dealt(r)'
  BY <1>3 DEF List, Take, Return, FilterDrop, DeadLetterAgain, Settle, Abort
<1>4. ASSUME NEW q \in Records, DeadLetter(q) PROVE Dealt(r)'
  BY <1>4 DEF DeadLetter
<1>5. CASE UNCHANGED vars
  BY <1>5 DEF vars
<1>6. QED
  BY <1>2, <1>3, <1>4, <1>5 DEF Next, Step

\* What a worker's run concluded: a dead letter, a resubmission or a release.
LEMMA ConclusionStep ==
  ASSUME InductiveInv, [Next]_vars, NEW o \in Operators, pc'[o] = "settle"
  PROVE  result'[o] = "dead_lettered" \/ Dealt(current[o])'
<1> USE DEF operators, Goto, Conclude
<1>1. TypeOK
  BY DEF InductiveInv
<1>2. CASE pc[o] = "settle" /\ result'[o] = result[o] /\ current'[o] = current[o]
  <2>1. current[o] \in Records
    BY <1>1, <1>2 DEF TypeOK
  <2>2. result[o] = "dead_lettered" \/ Dealt(current[o])
    BY <1>2 DEF InductiveInv
  <2>3. ASSUME NEW r \in Records, r = current[o], Dealt(r)
        PROVE  Dealt(current[o])'
    BY <1>1, <1>2, <2>3, DealtIsFinal DEF Dealt, Resubmitted
  <2>4. QED
    BY <1>2, <2>1, <2>2, <2>3
<1>3. CASE Emit(o)
  <2>1. current[o] \in Records /\ emits[current[o]] \in Nat /\ current' = current
    BY <1>1, <1>3 DEF Emit, TypeOK
  <2>2. emits'[current[o]] > 0
    BY <1>1, <1>3, <2>1 DEF Emit, TypeOK
  <2>3. QED
    BY <2>1, <2>2 DEF Dealt, Resubmitted
<1>4. CASE FilterDrop(o)
  BY <1>4 DEF FilterDrop, Dealt, Resubmitted
<1>5. CASE DeadLetterAgain(o)
  BY <1>1, <1>5 DEF DeadLetterAgain, TypeOK
<1>6. CASE Glitch(o)
  BY <1>1, <1>6 DEF Glitch, TypeOK, Dealt
<1>7. ASSUME List(o) \/ Take(o) \/ Return(o) \/ Settle(o) \/ Abort(o) PROVE FALSE
  BY <1>1, <1>7 DEF List, Take, Return, Settle, Abort, TypeOK
<1>8. ASSUME NEW u \in Operators, u # o, Step(u) \/ Abort(u)
      PROVE  pc[o] = "settle" /\ result'[o] = result[o] /\ current'[o] = current[o]
  BY <1>1, <1>8 DEF Step, List, Take, Return, Emit, FilterDrop, DeadLetterAgain, Glitch,
     Settle, Abort, TypeOK
<1>9. CASE UNCHANGED vars
  BY <1>2, <1>9 DEF vars
<1>10. ASSUME NEW r \in Records, DeadLetter(r)
       PROVE  pc[o] = "settle" /\ result'[o] = result[o] /\ current'[o] = current[o]
  BY <1>10 DEF DeadLetter
<1>11. QED
  BY <1>2, <1>3, <1>4, <1>5, <1>6, <1>7, <1>8, <1>9, <1>10 DEF Next, Step

\* A step that takes a record from the store deletes one that was resubmitted or released.
LEMMA DeleteStep ==
  ASSUME InductiveInv, [Next]_vars, NEW r \in arrived'
  PROVE  r \in pending' \/ Dealt(r)
<1> USE DEF operators
<1>1. TypeOK /\ LostOnlyByRelease
  BY DEF InductiveInv
<1>2. CASE UNCHANGED <<arrived, pending>>
  BY <1>1, <1>2 DEF LostOnlyByRelease, Dealt
<1>3. ASSUME NEW q \in Records, DeadLetter(q) PROVE r \in pending' \/ Dealt(r)
  BY <1>1, <1>3 DEF DeadLetter, LostOnlyByRelease, Dealt
<1>4. ASSUME NEW o \in Operators, Settle(o) PROVE r \in pending' \/ Dealt(r)
  <2>1. arrived' = arrived /\ (result[o] # "dead_lettered" => Dealt(current[o]))
    BY <1>4 DEF Settle, InductiveInv
  <2>2. QED
    BY <1>1, <1>4, <2>1 DEF Settle, LostOnlyByRelease, Dealt
<1>5. ASSUME NEW o \in Operators,
             \/ List(o) \/ Take(o) \/ Return(o) \/ Emit(o) \/ FilterDrop(o)
             \/ DeadLetterAgain(o) \/ Glitch(o) \/ Abort(o)
      PROVE  UNCHANGED <<arrived, pending>>
  BY <1>5 DEF List, Take, Return, Emit, FilterDrop, DeadLetterAgain, Glitch, Abort
<1>6. CASE UNCHANGED vars
  BY <1>2, <1>6 DEF vars
<1>7. QED
  BY <1>2, <1>3, <1>4, <1>5, <1>6 DEF Next, Step

\* Every step keeps the inductive invariant.
LEMMA InvStep == InductiveInv /\ [Next]_vars => InductiveInv'
<1> SUFFICES ASSUME InductiveInv, [Next]_vars PROVE InductiveInv'
  OBVIOUS
<1>1. TypeOK /\ TypeOK'
  BY TypeStep DEF InductiveInv
<1>2. \A r \in arrived' : (r \in pending \/ Dealt(r))'
  <2>1. ASSUME NEW r \in arrived' PROVE (r \in pending \/ Dealt(r))'
    <3>1. r \in Records
      BY <1>1 DEF TypeOK
    <3>2. QED
      BY <1>1, <3>1, DeleteStep, DealtIsFinal
  <2>2. QED
    BY <2>1
<1>3. released' # {} => MaxAttempts > 1 /\ glitches' > 0
  <2>1. released # {} => MaxAttempts > 1 /\ glitches > 0
    BY DEF InductiveInv, LostOnlyByRelease
  <2>2. glitches \in Nat
    BY <1>1 DEF TypeOK
  <2>3. ASSUME NEW o \in Operators, Glitch(o)
        PROVE  glitches' > 0 /\ (released' = released \/ MaxAttempts > 1)
    BY <2>2, <2>3 DEF Glitch
  <2>4. ASSUME NEW o \in Operators,
               \/ List(o) \/ Take(o) \/ Return(o) \/ Emit(o) \/ FilterDrop(o)
               \/ DeadLetterAgain(o) \/ Settle(o) \/ Abort(o)
        PROVE  UNCHANGED <<released, glitches>>
    BY <2>4 DEF List, Take, Return, Emit, FilterDrop, DeadLetterAgain, Settle, Abort
  <2>5. ASSUME NEW r \in Records, DeadLetter(r) PROVE UNCHANGED <<released, glitches>>
    BY <2>5 DEF DeadLetter
  <2>6. CASE UNCHANGED vars
    BY <2>1, <2>6 DEF vars
  <2>7. QED
    BY <2>1, <2>3, <2>4, <2>5, <2>6 DEF Next, Step
<1>4. LostOnlyByRelease'
  BY <1>2, <1>3 DEF LostOnlyByRelease, Dealt
<1>5. QED
  BY <1>1, <1>4, ConclusionStep DEF InductiveInv

\* A dead letter that has left the store undelivered was released by a resubmission that
\* failed with attempts left, for any max_attempts; with at most one there is none.
THEOREM LossesAreReleases == Spec => []LostOnlyByRelease
<1>1. InductiveInv => LostOnlyByRelease
  BY DEF InductiveInv
<1>2. QED
  BY InvInit, InvStep, <1>1, PTL DEF Spec

----------------------------------------------------------------------------
(* What is emitted is paid for.                                            *)

\* The calls that can still emit r, and those that have and are about to delete it.
Holders(r) == {o \in Operators : r \in todo[o] \/ (pc[o] = "work" /\ current[o] = r)}
Settlers(r) == {o \in Operators : pc[o] = "settle" /\ current[o] = r /\ result[o] = "emitted"}

\* A call takes each record of its listing once, and there is none that never arrived.
OnceEach ==
  /\ pending \subseteq arrived
  /\ \A o \in Operators :
       /\ todo[o] \subseteq arrived
       /\ pc[o] = "idle" => todo[o] = {}
       /\ pc[o] \in {"work", "settle"} => current[o] \in arrived \ todo[o]

Gone(r) == r \in arrived \ pending

\* While a record is in the store, each emission but those about to delete it was paid
\* for; when it is gone, those who still hold it are the last to emit it.
Paid(r) ==
  IF Gone(r)
    THEN emits[r] + Cardinality(Holders(r)) <= Cardinality(Operators) + aborts + glitches
    ELSE emits[r] <= aborts + glitches + Cardinality(Settlers(r))

PaidInv == TypeOK /\ OnceEach /\ \A r \in Records : Paid(r)

\* Those who hold a record and those who are about to delete it are operators, and no
\* operator is both.
LEMMA Counts ==
  ASSUME TypeOK, OnceEach, NEW r
  PROVE  /\ IsFiniteSet(Holders(r)) /\ IsFiniteSet(Settlers(r))
         /\ Cardinality(Holders(r)) \in Nat /\ Cardinality(Settlers(r)) \in Nat
         /\ Cardinality(Operators) \in Nat
         /\ \A T \in SUBSET Operators :
              T \cap Settlers(r) = {} =>
                Cardinality(T) + Cardinality(Settlers(r)) <= Cardinality(Operators)
<1>1. Holders(r) \subseteq Operators /\ Settlers(r) \subseteq Operators
  BY DEF Holders, Settlers
<1>2. IsFiniteSet(Holders(r)) /\ IsFiniteSet(Settlers(r))
  BY <1>1, FiniteOperators, FS_Subset
<1>3. Cardinality(Holders(r)) \in Nat /\ Cardinality(Settlers(r)) \in Nat
      /\ Cardinality(Operators) \in Nat
  BY <1>2, FiniteOperators, FS_CardinalityType
<1>4. ASSUME NEW T \in SUBSET Operators, T \cap Settlers(r) = {}
      PROVE  Cardinality(T) + Cardinality(Settlers(r)) <= Cardinality(Operators)
  <2>1. IsFiniteSet(T) /\ Cardinality(T) \in Nat
    BY FiniteOperators, FS_Subset, FS_CardinalityType
  <2>2. Cardinality(T \cup Settlers(r)) = Cardinality(T) + Cardinality(Settlers(r))
    <3>1. PICK S : S = Settlers(r)
      OBVIOUS
    <3>2. Cardinality(T \cap S) = 0
      BY <1>4, <3>1, FS_EmptySet
    <3>3. Cardinality(T \cup S) = Cardinality(T) + Cardinality(S) - Cardinality(T \cap S)
      BY <1>2, <2>1, <3>1, FS_Union
    <3>4. Cardinality(T) \in Nat /\ Cardinality(S) \in Nat
      BY <1>3, <2>1, <3>1
    <3>5. QED
      BY <3>1, <3>2, <3>3, <3>4
  <2>3. T \cup Settlers(r) \in SUBSET Operators
    BY <1>1
  <2>4. Cardinality(T \cup Settlers(r)) <= Cardinality(Operators)
    BY <2>3, FiniteOperators, FS_Subset
  <2>5. QED
    BY <2>2, <2>4
<1>5. QED
  BY <1>2, <1>3, <1>4

\* A record that stays where it is, with nothing emitted that was not paid for.
LEMMA StillGone ==
  ASSUME TypeOK, OnceEach, TypeOK', OnceEach', NEW r \in Records, Gone(r), Gone(r)', Paid(r),
         Holders(r)' \subseteq Holders(r),
         emits'[r] + aborts + glitches <= emits[r] + aborts' + glitches'
  PROVE  Paid(r)'
<1>1. Cardinality(Holders(r)') <= Cardinality(Holders(r))
  BY Counts, FS_Subset
<1>2. Cardinality(Holders(r)) \in Nat /\ Cardinality(Holders(r)') \in Nat
      /\ Cardinality(Operators) \in Nat
  BY <1>1, Counts, FS_Subset, FS_CardinalityType
<1>3. emits[r] \in Nat /\ emits'[r] \in Nat /\ aborts \in Nat /\ aborts' \in Nat
      /\ glitches \in Nat /\ glitches' \in Nat
  BY DEF TypeOK
<1>4. emits[r] + Cardinality(Holders(r)) <= Cardinality(Operators) + aborts + glitches
  BY DEF Paid, Gone
<1>5. emits'[r] + Cardinality(Holders(r)') <= Cardinality(Operators) + aborts' + glitches'
  BY <1>1, <1>2, <1>3, <1>4
<1>6. QED
  BY <1>5 DEF Paid, Gone

LEMMA StillThere ==
  ASSUME TypeOK, OnceEach, TypeOK', OnceEach', NEW r \in Records, ~Gone(r), ~Gone(r)', Paid(r),
         Settlers(r) \subseteq Settlers(r)',
         emits'[r] + aborts + glitches <= emits[r] + aborts' + glitches'
  PROVE  Paid(r)'
<1>1. IsFiniteSet(Settlers(r)') /\ Cardinality(Settlers(r)') \in Nat
  <2>1. Settlers(r)' \in SUBSET Operators
    BY DEF Settlers
  <2>2. QED
    BY <2>1, FiniteOperators, FS_Subset, FS_CardinalityType
<1>2. Cardinality(Settlers(r)) <= Cardinality(Settlers(r)') /\ Cardinality(Settlers(r)) \in Nat
  BY <1>1, Counts, FS_Subset
<1>3. emits[r] \in Nat /\ emits'[r] \in Nat /\ aborts \in Nat /\ aborts' \in Nat
      /\ glitches \in Nat /\ glitches' \in Nat
  BY DEF TypeOK
<1>4. emits[r] <= aborts + glitches + Cardinality(Settlers(r))
  BY DEF Paid, Gone
<1>5. emits'[r] <= aborts' + glitches' + Cardinality(Settlers(r)')
  BY <1>1, <1>2, <1>3, <1>4
<1>6. QED
  BY <1>5 DEF Paid, Gone

\* A listing holds what has arrived, and a record in hand has left it.
LEMMA OnceEachStep ==
  ASSUME TypeOK, OnceEach, [Next]_vars
  PROVE  OnceEach'
<1> USE DEF TypeOK, OnceEach, operators, Goto, Conclude
<1>1. ASSUME NEW r \in Records, DeadLetter(r) PROVE OnceEach'
  BY <1>1 DEF DeadLetter
<1>2. ASSUME NEW o \in Operators, List(o) PROVE OnceEach'
  <2>1. Listing(pending) \subseteq arrived
    BY DEF Listing
  <2>2. QED
    BY <1>2, <2>1 DEF List
<1>3. ASSUME NEW o \in Operators, Take(o) PROVE OnceEach'
  <2>1. PICK r \in todo[o] : /\ current' = [current EXCEPT ![o] = r]
                             /\ todo' = [todo EXCEPT ![o] = @ \ {r}]
    BY <1>3 DEF Take
  <2>2. ASSUME NEW u \in Operators
        PROVE  /\ todo'[u] \subseteq arrived
               /\ pc'[u] = "idle" => todo'[u] = {}
               /\ pc'[u] \in {"work", "settle"} => current'[u] \in arrived \ todo'[u]
    <3>1. CASE u = o
      BY <1>3, <2>1, <3>1 DEF Take
    <3>2. CASE u # o
      BY <1>3, <2>1, <3>2 DEF Take
    <3>3. QED
      BY <3>1, <3>2
  <2>3. QED
    BY <1>3, <2>2 DEF Take
<1>4. ASSUME NEW o \in Operators, Return(o) PROVE OnceEach'
  BY <1>4 DEF Return
<1>5. ASSUME NEW o \in Operators,
             \/ Emit(o) \/ FilterDrop(o) \/ DeadLetterAgain(o) \/ Glitch(o) \/ Settle(o)
      PROVE  OnceEach'
  <2>1. pc[o] \in {"work", "settle"} /\ UNCHANGED <<arrived, todo, current>>
        /\ pending' \subseteq pending
        /\ \E l \in {"settle", "next"} : pc' = [pc EXCEPT ![o] = l]
    BY <1>5 DEF Emit, FilterDrop, DeadLetterAgain, Glitch, Settle
  <2>2. \A u \in Operators : pc'[u] \in {"work", "settle"} => pc[u] \in {"work", "settle"}
    BY <2>1
  <2>3. \A u \in Operators : pc'[u] = "idle" => pc[u] = "idle"
    BY <2>1
  <2>4. QED
    BY <2>1, <2>2, <2>3
<1>6. ASSUME NEW o \in Operators, Abort(o) PROVE OnceEach'
  BY <1>6 DEF Abort
<1>7. CASE UNCHANGED vars
  BY <1>7 DEF vars
<1>8. QED
  BY <1>1, <1>2, <1>3, <1>4, <1>5, <1>6, <1>7 DEF Next, Step

\* The types, the listings and the payments, before and after a step.
Settled == TypeOK /\ OnceEach /\ TypeOK' /\ OnceEach'

LEMMA DeadLetterPays ==
  ASSUME Settled, NEW q \in Records, DeadLetter(q), NEW r \in Records, Paid(r)
  PROVE  Paid(r)'
<1>1. Holders(r)' = Holders(r) /\ Settlers(r)' = Settlers(r)
  BY DEF DeadLetter, operators, Holders, Settlers
<1>2. Gone(r) = Gone(r)'
  BY DEF Gone, DeadLetter, Settled, OnceEach
<1>3. emits'[r] = emits[r] /\ aborts' = aborts /\ glitches' = glitches
  BY DEF DeadLetter
<1>4. emits[r] \in Nat /\ aborts \in Nat /\ glitches \in Nat
  BY DEF Settled, TypeOK
<1>5. CASE Gone(r)
  <2>1. Gone(r)' /\ emits'[r] + aborts + glitches <= emits[r] + aborts' + glitches'
    BY <1>2, <1>3, <1>4, <1>5
  <2>2. QED
    BY <1>1, <1>5, <2>1, StillGone DEF Settled
<1>6. CASE ~Gone(r)
  BY <1>1, <1>2, <1>3, <1>4, <1>6, StillThere DEF Settled
<1>7. QED
  BY <1>5, <1>6

\* Steps that emit nothing and delete nothing.
LEMMA QuietPays ==
  ASSUME Settled, NEW o \in Operators, NEW r \in Records, Paid(r),
         \/ List(o) \/ Take(o) \/ Return(o) \/ FilterDrop(o) \/ DeadLetterAgain(o)
  PROVE  Paid(r)'
<1> USE DEF operators, Goto, Conclude
<1>1. /\ emits' = emits /\ aborts' = aborts /\ glitches' = glitches
      /\ arrived' = arrived /\ pending' = pending
  BY DEF List, Take, Return, FilterDrop, DeadLetterAgain
<1>2. emits[r] \in Nat /\ aborts \in Nat /\ glitches \in Nat
  BY DEF Settled, TypeOK
<1>3. Gone(r) = Gone(r)'
  BY <1>1 DEF Gone
<1>4. Settlers(r) \subseteq Settlers(r)'
  <2>1. ASSUME NEW u \in Settlers(r) PROVE u # o
    BY DEF Settlers, List, Take, Return, FilterDrop, DeadLetterAgain
  <2>2. ASSUME NEW u \in Operators, u # o
        PROVE  pc'[u] = pc[u] /\ current'[u] = current[u] /\ result'[u] = result[u]
    BY <2>2 DEF List, Take, Return, FilterDrop, DeadLetterAgain, Settled, TypeOK
  <2>3. QED
    BY <2>1, <2>2 DEF Settlers
<1>5. ASSUME Gone(r) PROVE Holders(r)' \subseteq Holders(r)
  <2> SUFFICES ASSUME NEW u \in Holders(r)' PROVE u \in Holders(r)
    OBVIOUS
  <2>1. CASE u # o
    BY <2>1 DEF Holders, List, Take, Return, FilterDrop, DeadLetterAgain, Settled, TypeOK
  <2>2. CASE u = o /\ List(o)
    <3>1. r \notin Listing(pending)
      BY <1>5 DEF Gone, Listing
    <3>2. QED
      BY <2>2, <3>1 DEF Holders, List, Settled, TypeOK
  <2>3. CASE u = o /\ Take(o)
    <3>1. PICK q \in todo[o] : /\ current' = [current EXCEPT ![o] = q]
                               /\ todo' = [todo EXCEPT ![o] = @ \ {q}]
      BY <2>3 DEF Take
    <3>2. r \in todo[o]
      BY <2>3, <3>1 DEF Holders, Settled, TypeOK
    <3>3. QED
      BY <2>3, <3>2 DEF Holders
  <2>4. CASE u = o /\ (Return(o) \/ FilterDrop(o) \/ DeadLetterAgain(o))
    BY <2>4 DEF Holders, Return, FilterDrop, DeadLetterAgain, Settled, TypeOK
  <2>5. QED
    BY <2>1, <2>2, <2>3, <2>4
<1>6. CASE Gone(r)
  <2>1. Gone(r)' /\ emits'[r] + aborts + glitches <= emits[r] + aborts' + glitches'
    BY <1>1, <1>2, <1>3, <1>6
  <2>2. QED
    BY <1>5, <1>6, <2>1, StillGone DEF Settled
<1>7. CASE ~Gone(r)
  BY <1>1, <1>2, <1>3, <1>4, <1>7, StillThere DEF Settled
<1>8. QED
  BY <1>6, <1>7

\* A lost acknowledgement pays for what it may have emitted.
LEMMA GlitchPays ==
  ASSUME Settled, NEW o \in Operators, Glitch(o), NEW r \in Records, Paid(r)
  PROVE  Paid(r)'
<1> USE DEF operators, Goto, Conclude
<1>1. emits[r] \in Nat /\ emits'[r] \in Nat /\ aborts \in Nat /\ glitches \in Nat
  BY DEF Settled, TypeOK
<1>2. /\ emits'[r] <= emits[r] + 1 /\ aborts' = aborts /\ glitches' = glitches + 1
      /\ arrived' = arrived /\ pending' = pending
  <2>1. emits' = emits \/ emits' = [emits EXCEPT ![current[o]] = @ + 1]
    BY DEF Glitch
  <2>2. emits'[r] \in {emits[r], emits[r] + 1}
    BY <2>1 DEF Settled, TypeOK
  <2>3. emits'[r] <= emits[r] + 1
    BY <1>1, <2>2
  <2>4. QED
    BY <2>3 DEF Glitch
<1>3. Gone(r) = Gone(r)'
  BY <1>2 DEF Gone
<1>4. Settlers(r) \subseteq Settlers(r)'
  BY DEF Glitch, Settlers, Settled, TypeOK
<1>5. Holders(r)' \subseteq Holders(r)
  BY DEF Glitch, Holders, Settled, TypeOK
<1>6. CASE Gone(r)
  <2>1. Gone(r)' /\ emits'[r] + aborts + glitches <= emits[r] + aborts' + glitches'
    BY <1>2, <1>1, <1>3, <1>6
  <2>2. QED
    BY <1>5, <1>6, <2>1, StillGone DEF Settled
<1>7. CASE ~Gone(r)
  BY <1>2, <1>1, <1>3, <1>4, <1>7, StillThere DEF Settled
<1>8. QED
  BY <1>6, <1>7

\* Who emits a record that is in the store is about to delete it; who emits one that is
\* gone holds it no longer.
LEMMA EmitPays ==
  ASSUME Settled, NEW o \in Operators, Emit(o), NEW r \in Records, Paid(r)
  PROVE  Paid(r)'
<1> USE DEF operators, Goto, Conclude
<1>1. aborts' = aborts /\ glitches' = glitches /\ arrived' = arrived /\ pending' = pending
  BY DEF Emit
<1>2. emits[r] \in Nat /\ emits'[r] \in Nat /\ aborts \in Nat /\ glitches \in Nat
  BY DEF Settled, TypeOK
<1>3. Gone(r) = Gone(r)'
  BY <1>1 DEF Gone
<1>4. Settlers(r) \subseteq Settlers(r)' /\ Holders(r)' \subseteq Holders(r)
  BY DEF Emit, Settlers, Holders, Settled, TypeOK
<1>5. CASE current[o] # r
  <2>1. emits'[r] = emits[r]
    BY <1>5 DEF Emit, Settled, TypeOK
  <2>2. QED
    BY <1>1, <1>2, <1>3, <1>4, <2>1, StillGone, StillThere DEF Settled
<1>6. CASE current[o] = r
  <2>1. emits'[r] = emits[r] + 1
    BY <1>6 DEF Emit, Settled, TypeOK
  <2>2. Cardinality(Settlers(r)) \in Nat /\ Cardinality(Holders(r)) \in Nat
        /\ IsFiniteSet(Settlers(r)) /\ IsFiniteSet(Holders(r)) /\ Cardinality(Operators) \in Nat
    BY Counts DEF Settled
  <2>3. CASE Gone(r)
    <3>1. o \in Holders(r) /\ Holders(r)' \subseteq Holders(r) \ {o}
      BY <1>4, <1>6 DEF Emit, Holders, Settled, TypeOK, OnceEach
    <3>2. IsFiniteSet(Holders(r) \ {o})
          /\ Cardinality(Holders(r) \ {o}) = Cardinality(Holders(r)) - 1
      BY <2>2, <3>1, FS_RemoveElement
    <3>3. Cardinality(Holders(r)') <= Cardinality(Holders(r)) - 1
      BY <3>1, <3>2, FS_Subset
    <3>4. Cardinality(Holders(r)') \in Nat
      BY <3>1, <3>2, FS_Subset, FS_CardinalityType
    <3>5. emits[r] + Cardinality(Holders(r)) <= Cardinality(Operators) + aborts + glitches
      BY <2>3 DEF Paid, Gone
    <3>6. emits'[r] + Cardinality(Holders(r)') <= Cardinality(Operators) + aborts' + glitches'
      BY <1>1, <1>2, <2>1, <2>2, <3>3, <3>4, <3>5
    <3>7. QED
      BY <1>3, <2>3, <3>6 DEF Paid, Gone
  <2>4. CASE ~Gone(r)
    <3>1. o \notin Settlers(r) /\ Settlers(r)' = Settlers(r) \cup {o}
      BY <1>6 DEF Emit, Settlers, Settled, TypeOK
    <3>2. Cardinality(Settlers(r)') = Cardinality(Settlers(r)) + 1
      BY <2>2, <3>1, FS_AddElement
    <3>3. emits[r] <= aborts + glitches + Cardinality(Settlers(r))
      BY <2>4 DEF Paid, Gone
    <3>4. emits'[r] <= aborts' + glitches' + Cardinality(Settlers(r)')
      BY <1>1, <1>2, <2>1, <2>2, <3>2, <3>3
    <3>5. QED
      BY <1>3, <2>4, <3>4 DEF Paid, Gone
  <2>5. QED
    BY <2>3, <2>4
<1>7. QED
  BY <1>5, <1>6

\* Each of those who emitted a record before it was deleted was one operator.
LEMMA SettlePays ==
  ASSUME Settled, NEW o \in Operators, Settle(o), NEW r \in Records, Paid(r)
  PROVE  Paid(r)'
<1> USE DEF operators, Goto, Conclude
<1>1. emits' = emits /\ aborts' = aborts /\ glitches' = glitches /\ arrived' = arrived
  BY DEF Settle
<1>2. emits[r] \in Nat /\ aborts \in Nat /\ glitches \in Nat
  BY DEF Settled, TypeOK
<1>3. Holders(r)' \subseteq Holders(r)
  BY DEF Settle, Holders, Settled, TypeOK
<1>4. CASE Gone(r)
  <2>1. Gone(r)'
    BY <1>4 DEF Settle, Gone
  <2>2. QED
    BY <1>1, <1>2, <1>3, <1>4, <2>1, StillGone DEF Settled
<1>5. CASE ~Gone(r) /\ Gone(r)'
  <2>1. Holders(r)' \subseteq Operators /\ Holders(r)' \cap Settlers(r) = {}
    BY <1>3 DEF Holders, Settlers, Settled, OnceEach
  <2>2. PICK T \in SUBSET Operators : T = Holders(r)'
    BY <2>1
  <2>3. Cardinality(T) + Cardinality(Settlers(r)) <= Cardinality(Operators)
    BY <2>1, <2>2, Counts DEF Settled
  <2>4. Cardinality(T) \in Nat
    BY FiniteOperators, FS_Subset, FS_CardinalityType
  <2>5. Cardinality(Settlers(r)) \in Nat /\ Cardinality(Operators) \in Nat
    BY Counts DEF Settled
  <2>6. emits[r] <= aborts + glitches + Cardinality(Settlers(r))
    BY <1>5 DEF Paid, Gone
  <2>7. emits[r] + Cardinality(T) <= Cardinality(Operators) + aborts + glitches
    BY <1>2, <2>3, <2>4, <2>5, <2>6
  <2>8. QED
    BY <1>1, <1>5, <2>2, <2>7 DEF Paid, Gone
<1>6. CASE ~Gone(r) /\ ~Gone(r)'
  <2>1. o \notin Settlers(r)
    BY <1>6 DEF Settle, Gone, Settlers, Settled, OnceEach
  <2>2. Settlers(r) \subseteq Settlers(r)'
    BY <2>1 DEF Settle, Settlers, Settled, TypeOK
  <2>3. QED
    BY <1>1, <1>2, <1>6, <2>2, StillThere DEF Settled
<1>7. QED
  BY <1>4, <1>5, <1>6

\* A call that is cut short pays for the record it was about to delete.
LEMMA AbortPays ==
  ASSUME Settled, NEW o \in Operators, Abort(o), NEW r \in Records, Paid(r)
  PROVE  Paid(r)'
<1> USE DEF operators, Goto
<1>1. emits' = emits /\ aborts' = aborts + 1 /\ glitches' = glitches /\ arrived' = arrived
      /\ pending' = pending
  BY DEF Abort
<1>2. emits[r] \in Nat /\ aborts \in Nat /\ glitches \in Nat
  BY DEF Settled, TypeOK
<1>3. Gone(r) = Gone(r)'
  BY <1>1 DEF Gone
<1>4. CASE Gone(r)
  <2>1. Holders(r)' \subseteq Holders(r)
    BY DEF Abort, Holders, Settled, TypeOK
  <2>2. QED
    <3>1. Gone(r)' /\ emits'[r] + aborts + glitches <= emits[r] + aborts' + glitches'
      BY <1>1, <1>2, <1>3, <1>4
    <3>2. QED
      BY <1>4, <2>1, <3>1, StillGone DEF Settled
<1>5. CASE ~Gone(r)
  <2>1. Settlers(r) \ {o} \subseteq Settlers(r)' /\ Settlers(r)' \in SUBSET Operators
    BY DEF Abort, Settlers, Settled, TypeOK
  <2>2. IsFiniteSet(Settlers(r)') /\ Cardinality(Settlers(r)') \in Nat
    BY <2>1, FiniteOperators, FS_Subset, FS_CardinalityType
  <2>3. Cardinality(Settlers(r)) \in Nat /\ IsFiniteSet(Settlers(r))
    BY Counts DEF Settled
  <2>4. Cardinality(Settlers(r) \ {o}) >= Cardinality(Settlers(r)) - 1
    <3>1. PICK S : S = Settlers(r)
      OBVIOUS
    <3>2. Cardinality(S \ {o}) = IF o \in S THEN Cardinality(S) - 1 ELSE Cardinality(S)
      BY <2>3, <3>1, FS_RemoveElement
    <3>3. QED
      BY <2>3, <3>1, <3>2
  <2>5. Cardinality(Settlers(r) \ {o}) <= Cardinality(Settlers(r)')
    BY <2>1, <2>2, FS_Subset
  <2>6. Cardinality(Settlers(r) \ {o}) \in Nat
    BY <2>3, FS_RemoveElement, FS_CardinalityType
  <2>7. emits[r] <= aborts + glitches + Cardinality(Settlers(r))
    BY <1>5 DEF Paid, Gone
  <2>8. emits'[r] <= aborts' + glitches' + Cardinality(Settlers(r)')
    BY <1>1, <1>2, <2>2, <2>3, <2>4, <2>5, <2>6, <2>7
  <2>9. QED
    BY <1>3, <1>5, <2>8 DEF Paid, Gone
<1>6. QED
  BY <1>4, <1>5

LEMMA PaidStep == PaidInv /\ [Next]_vars => PaidInv'
<1> SUFFICES ASSUME PaidInv, [Next]_vars PROVE PaidInv'
  OBVIOUS
<1>1. Settled
  BY TypeStep, OnceEachStep DEF PaidInv, Settled
<1>2. ASSUME NEW r \in Records PROVE Paid(r)'
  <2>1. Paid(r)
    BY DEF PaidInv
  <2>2. CASE UNCHANGED vars
    BY <2>1, <2>2 DEF vars, operators, Paid, Gone, Holders, Settlers
  <2>3. ASSUME NEW q \in Records, DeadLetter(q) PROVE Paid(r)'
    BY <1>1, <2>1, <2>3, DeadLetterPays
  <2>4. ASSUME NEW o \in Operators, Step(o) \/ Abort(o) PROVE Paid(r)'
    BY <1>1, <2>1, <2>4, QuietPays, GlitchPays, EmitPays, SettlePays, AbortPays DEF Step
  <2>5. QED
    BY <2>2, <2>3, <2>4 DEF Next
<1>3. QED
  BY <1>1, <1>2 DEF PaidInv, Settled

\* At-least-once is paid for, whatever the number of operators, records and failures, and
\* with any number of attempts (core/redrive.py 8-9).
THEOREM EveryEmissionIsPaidFor == Spec => []DeliveriesPaidFor
<1>1. Init => PaidInv
  <2> SUFFICES ASSUME Init PROVE PaidInv
    OBVIOUS
  <2>1. TypeOK /\ OnceEach
    BY InvInit DEF InductiveInv, Init, OnceEach
  <2>2. \A r \in Records : Cardinality(Settlers(r)) \in Nat
    BY <2>1, Counts
  <2>3. QED
    BY <2>1, <2>2 DEF Init, PaidInv, Paid, Gone
<1>2. PaidInv => DeliveriesPaidFor
  <2> SUFFICES ASSUME PaidInv, NEW r \in Records
               PROVE  emits[r] <= Cardinality(Operators) + aborts + glitches
    BY DEF DeliveriesPaidFor
  <2>1. TypeOK /\ OnceEach /\ Paid(r)
    BY DEF PaidInv
  <2>2. /\ Cardinality(Holders(r)) \in Nat /\ Cardinality(Settlers(r)) \in Nat
        /\ Cardinality(Operators) \in Nat
    BY <2>1, Counts
  <2>3. Cardinality(Settlers(r)) <= Cardinality(Operators)
    <3>1. Settlers(r) \in SUBSET Operators
      BY DEF Settlers
    <3>2. QED
      BY <3>1, FiniteOperators, FS_Subset
  <2>4. emits[r] \in Nat /\ aborts \in Nat /\ glitches \in Nat
    BY <2>1 DEF TypeOK
  <2>5. QED
    BY <2>1, <2>2, <2>3, <2>4 DEF Paid
<1>3. QED
  BY <1>1, <1>2, PaidStep, PTL DEF Spec

----------------------------------------------------------------------------
(* The cursor store is monotonic, for any number of callers and orders,    *)
(* when a call is serialised: with postgres always, with sqlite when the   *)
(* callers share one process's store object.                               *)

USE CursorStoreAssumption DEF Orders

\* The initial state satisfies the inductive invariant.
LEMMA CursorInvInit == CursorInit => CursorInv
  BY DEF CursorInit, CursorInv, CursorTypeOK, UsesStatement, MutualExclusion, InCriticalSection,
     AnsweredSoundly

\* A serialised step never lowers the stored order.
LEMMA CursorForward ==
  ASSUME CursorInv, [CursorNext]_cursorVars
  PROVE  order <= order'
<1> USE DEF CursorInv, CursorTypeOK
<1>1. ASSUME NEW t \in Threads, Statement(t) PROVE order <= order'
  BY <1>1 DEF Statement, Ahead
<1>2. ASSUME NEW t \in Threads, Upsert(t) PROVE order <= order'
  BY <1>2 DEF Upsert, Ahead
<1>3. ASSUME NEW t \in Threads, Call(t) \/ Lock(t) \/ Select(t) \/ Reject(t)
      PROVE  order' = order
  BY <1>3 DEF Call, Lock, Select, Reject
<1>4. CASE UNCHANGED cursorVars
  BY <1>4 DEF cursorVars
<1>5. QED
  BY <1>1, <1>2, <1>3, <1>4 DEF CursorNext

\* Every step keeps the types.
LEMMA CursorTypeStep ==
  ASSUME CursorTypeOK, [CursorNext]_cursorVars
  PROVE  CursorTypeOK'
<1> USE DEF CursorTypeOK
<1>1. ASSUME NEW t \in Threads, Call(t) PROVE CursorTypeOK'
  BY <1>1 DEF Call
<1>2. ASSUME NEW t \in Threads, Statement(t) PROVE CursorTypeOK'
  <2>1. Ahead(offer[t], order) \in BOOLEAN
    BY DEF Ahead
  <2>2. order' \in 0 .. MaxOrder
    BY <1>2 DEF Statement
  <2>3. QED
    BY <1>2, <2>1, <2>2 DEF Statement, Answer
<1>3. ASSUME NEW t \in Threads, Lock(t) PROVE CursorTypeOK'
  BY <1>3 DEF Lock
<1>4. ASSUME NEW t \in Threads, Select(t) PROVE CursorTypeOK'
  BY <1>4 DEF Select
<1>5. ASSUME NEW t \in Threads, Reject(t) PROVE CursorTypeOK'
  BY <1>5 DEF Reject, Answer
<1>6. ASSUME NEW t \in Threads, Upsert(t) PROVE CursorTypeOK'
  BY <1>6 DEF Upsert, Answer
<1>7. CASE UNCHANGED cursorVars
  BY <1>7 DEF cursorVars
<1>8. QED
  BY <1>1, <1>2, <1>3, <1>4, <1>5, <1>6, <1>7 DEF CursorNext

\* A call stays on its backend's path.
LEMMA CursorPathStep ==
  ASSUME CursorInv, [CursorNext]_cursorVars
  PROVE  UsesStatement'
<1> USE DEF CursorInv, CursorTypeOK, UsesStatement
<1>1. ASSUME NEW t \in Threads, Call(t) \/ Lock(t) \/ Select(t) PROVE UsesStatement'
  BY <1>1 DEF Call, Lock, Select
<1>2. ASSUME NEW t \in Threads, Statement(t) \/ Reject(t) \/ Upsert(t) PROVE UsesStatement'
  BY <1>2 DEF Statement, Reject, Upsert, Answer
<1>3. CASE UNCHANGED cursorVars
  BY <1>3 DEF cursorVars
<1>4. QED
  BY <1>1, <1>2, <1>3 DEF CursorNext

\* The lock admits one thread at a time, and postgres needs no lock.
LEMMA CursorExclusionStep ==
  ASSUME Serialised, CursorInv, [CursorNext]_cursorVars
  PROVE  MutualExclusion'
<1> USE DEF CursorInv, CursorTypeOK, MutualExclusion, InCriticalSection
<1>1. ASSUME NEW t \in Threads, Lock(t) PROVE MutualExclusion'
  <2>1. at[t] = "lock" /\ at' = [at EXCEPT ![t] = "select"] /\ LockFree(t)
    BY <1>1 DEF Lock
  <2>2. CASE backend = "sqlite"
    <3>1. \A u \in Threads : ~InCriticalSection(u)
      BY <2>1, <2>2 DEF LockFree, Serialised, OneProcess
    <3>2. QED
      BY <2>1, <3>1
  <2>3. CASE backend # "sqlite"
    <3>1. \A u \in Threads : at[u] # "lock"
      BY <2>3 DEF Serialised, UsesStatement
    <3>2. QED
      BY <2>1, <3>1
  <2>4. QED
    BY <2>2, <2>3
<1>2. ASSUME NEW t \in Threads, Select(t) PROVE MutualExclusion'
  BY <1>2 DEF Select
<1>3. ASSUME NEW t \in Threads, Call(t) \/ Statement(t) \/ Reject(t) \/ Upsert(t)
      PROVE  MutualExclusion'
  BY <1>3 DEF Call, Statement, Reject, Upsert, Answer
<1>4. CASE UNCHANGED cursorVars
  BY <1>4 DEF cursorVars
<1>5. QED
  BY <1>1, <1>2, <1>3, <1>4 DEF CursorNext

\* What a thread has selected is still there when it compares and upserts.
LEMMA CursorSeenStep ==
  ASSUME CursorInv, [CursorNext]_cursorVars, NEW t \in Threads, at'[t] = "upsert"
  PROVE  seen'[t] = order'
<1> USE DEF CursorInv, CursorTypeOK
<1>1. ASSUME NEW u \in Threads, Select(u) PROVE seen'[t] = order'
  BY <1>1 DEF Select, MutualExclusion, InCriticalSection
<1>2. ASSUME NEW u \in Threads, Upsert(u) PROVE seen'[t] = order'
  BY <1>2 DEF Upsert, Answer, MutualExclusion, InCriticalSection
<1>3. ASSUME NEW u \in Threads, Statement(u) PROVE seen'[t] = order'
  BY <1>3 DEF Statement, Answer, UsesStatement
<1>4. ASSUME NEW u \in Threads, Call(u) \/ Lock(u) \/ Reject(u) PROVE seen'[t] = order'
  BY <1>4 DEF Call, Lock, Reject, Answer
<1>5. CASE UNCHANGED cursorVars
  BY <1>5 DEF cursorVars
<1>6. QED
  BY <1>1, <1>2, <1>3, <1>4, <1>5 DEF CursorNext

\* A returned call's offer is covered, at its return and ever after.
LEMMA CursorAnswerStep ==
  ASSUME CursorInv, [CursorNext]_cursorVars
  PROVE  AnsweredSoundly'
<1> SUFFICES ASSUME NEW t \in Threads, at'[t] = "returned" PROVE order' >= offer'[t]
  BY DEF AnsweredSoundly
<1>1. CursorTypeOK /\ order <= order' /\ order' \in 0 .. MaxOrder
  BY CursorForward, CursorTypeStep DEF CursorInv, CursorTypeOK
<1>2. CASE at[t] = "returned" /\ offer'[t] = offer[t]
  BY <1>1, <1>2 DEF CursorInv, AnsweredSoundly, CursorTypeOK
<1>3. CASE Statement(t)
  BY <1>1, <1>3 DEF Statement, Ahead, CursorTypeOK
<1>4. CASE Reject(t)
  BY <1>1, <1>4 DEF Reject, Ahead, CursorInv, CursorTypeOK
<1>5. CASE Upsert(t)
  BY <1>1, <1>5 DEF Upsert, CursorTypeOK
<1>6. ASSUME NEW u \in Threads, Call(u) \/ Lock(u) \/ Select(u)
      PROVE  at[t] = "returned" /\ offer'[t] = offer[t]
  BY <1>1, <1>6 DEF Call, Lock, Select, CursorTypeOK
<1>7. ASSUME NEW u \in Threads, u # t, Statement(u) \/ Reject(u) \/ Upsert(u)
      PROVE  at[t] = "returned" /\ offer'[t] = offer[t]
  BY <1>1, <1>7 DEF Statement, Reject, Upsert, Answer, CursorTypeOK
<1>8. CASE UNCHANGED cursorVars
  BY <1>2, <1>8 DEF cursorVars
<1>9. QED
  BY <1>2, <1>3, <1>4, <1>5, <1>6, <1>7, <1>8 DEF CursorNext

\* Every serialised step keeps the inductive invariant.
LEMMA CursorInvStep == Serialised /\ CursorInv /\ [CursorNext]_cursorVars => CursorInv'
  BY CursorTypeStep, CursorPathStep, CursorExclusionStep, CursorSeenStep, CursorAnswerStep
  DEF CursorInv

\* The inductive invariant of a serialised store.
THEOREM SerialisedInvariant == Serialised => (CursorSpec => []CursorInv)
<1> SUFFICES ASSUME Serialised PROVE CursorSpec => []CursorInv
  OBVIOUS
<1>1. CursorInv /\ [CursorNext]_cursorVars => CursorInv'
  BY CursorInvStep
<1>2. QED
  BY CursorInvInit, <1>1, PTL DEF CursorSpec

\* commit_if_ahead is a monotonic compare-and-set when its calls are serialised.
THEOREM SerialisedNeverBackwards == Serialised => (CursorSpec => NeverBackwards)
<1> SUFFICES ASSUME Serialised PROVE CursorSpec => NeverBackwards
  OBVIOUS
<1>1. CursorInv /\ [CursorNext]_cursorVars => [order <= order']_cursorVars
  BY CursorForward
<1>2. CursorSpec => []CursorInv
  BY SerialisedInvariant
<1>3. QED
  BY <1>1, <1>2, PTL DEF CursorSpec, NeverBackwards

\* What a call answered about its own offer stays true.
THEOREM SerialisedAnswers == Serialised => (CursorSpec => []AnsweredSoundly)
<1> SUFFICES ASSUME Serialised PROVE CursorSpec => []AnsweredSoundly
  OBVIOUS
<1>1. CursorInv => AnsweredSoundly
  BY DEF CursorInv
<1>2. CursorSpec => []CursorInv
  BY SerialisedInvariant
<1>3. QED
  BY <1>1, <1>2, PTL

----------------------------------------------------------------------------
(* A serialised call is one step: what Pipeline, GmailIngest and           *)
(* GraphIngest take commit_if_ahead to be.                                 *)

\* The compare-and-set of thread t, in one step.
CompareAndSet(t) ==
  /\ order' = IF Ahead(offer[t], order) THEN offer[t] ELSE order
  /\ answer' = [answer EXCEPT ![t] = Ahead(offer[t], order)]

Returns(t) == at[t] # "returned" /\ at'[t] = "returned"

\* A call takes effect at its return, against the row of that moment, and at no other step.
EffectAtReturn ==
  \/ \E t \in Threads : Returns(t) /\ CompareAndSet(t)
  \/ UNCHANGED <<order, answer>> /\ \A t \in Threads : ~Returns(t)

\* What was SELECTed is still the row, so comparing with it is comparing with the row.
LEMMA CursorEffect ==
  ASSUME CursorInv, [CursorNext]_cursorVars
  PROVE  EffectAtReturn
<1> USE DEF CursorInv, CursorTypeOK
<1>1. ASSUME NEW t \in Threads, Statement(t) \/ Reject(t) \/ Upsert(t) PROVE Returns(t)
  BY <1>1 DEF Statement, Reject, Upsert, Answer, Returns
<1>2. ASSUME NEW t \in Threads, Statement(t) PROVE CompareAndSet(t)
  BY <1>2 DEF Statement, Answer, CompareAndSet
<1>3. ASSUME NEW t \in Threads, Reject(t) PROVE CompareAndSet(t)
  <2>1. seen[t] = order /\ Ahead(offer[t], order) = FALSE
    BY <1>3 DEF Reject, Ahead
  <2>2. QED
    BY <1>3, <2>1 DEF Reject, Answer, CompareAndSet
<1>4. ASSUME NEW t \in Threads, Upsert(t) PROVE CompareAndSet(t)
  <2>1. seen[t] = order /\ Ahead(offer[t], order) = TRUE
    BY <1>4 DEF Upsert, Ahead
  <2>2. QED
    BY <1>4, <2>1 DEF Upsert, Answer, CompareAndSet
<1>5. ASSUME NEW t \in Threads, Call(t) \/ Lock(t) \/ Select(t)
      PROVE  UNCHANGED <<order, answer>> /\ \A u \in Threads : ~Returns(u)
  BY <1>5 DEF Call, Lock, Select, Returns
<1>6. CASE UNCHANGED cursorVars
  BY <1>6 DEF cursorVars, Returns, EffectAtReturn
<1>7. QED
  BY <1>1, <1>2, <1>3, <1>4, <1>5, <1>6 DEF CursorNext, EffectAtReturn

\* A serialised commit_if_ahead is one atomic compare-and-set, however many statements it
\* takes (stores/postgres.py 74-82, stores/sqlite.py 72-87).
THEOREM SerialisedIsAtomic == Serialised => (CursorSpec => [][EffectAtReturn]_cursorVars)
<1> SUFFICES ASSUME Serialised PROVE CursorSpec => [][EffectAtReturn]_cursorVars
  OBVIOUS
<1>1. CursorInv /\ [CursorNext]_cursorVars => [EffectAtReturn]_cursorVars
  BY CursorEffect
<1>2. CursorSpec => []CursorInv
  BY SerialisedInvariant
<1>3. QED
  BY <1>1, <1>2, PTL DEF CursorSpec

============================================================================
