-------------------------- MODULE GraphIngestProofs --------------------------
(***************************************************************************)
(* Theorems about GraphIngest, for any number of streams, mails, events,   *)
(* crashes and errors, over either transport, with durable or in-memory    *)
(* stores.                                                                 *)
(*                                                                         *)
(* Notes and streams are kept in lists that are filtered and joined; what  *)
(* these operations keep is proved first, by induction on positions.       *)
(***************************************************************************)
EXTENDS GraphIngest, FiniteSetTheorems, WellFoundedInduction, TLAPS

----------------------------------------------------------------------------
(* The inductive invariants.                                               *)

\* A stream is open: the run draws mail from it.
Opened == pc \in {"note", "delta", "swept", "claim", "work", "commit"}

\* The mail in hand comes from the notes, from a sweep.
Noting   == pc \in {"note", "claim", "work", "commit"} /\ link = 0
Sweeping == pc \in {"delta", "swept"} \/ link > 0

\* What a run holds at each point of it.
ControlInv ==
  /\ start \in [order: Nat, link: 0 .. NumMails]
  /\ pc = "idle" => ev = 0 /\ ~open
  /\ pc # "idle" => up /\ ev \in DOMAIN log
  /\ pc \in {"idle", "ack"} => todo = <<>>
  /\ Opened => todo # <<>>
  /\ pc \in {"claim", "work", "commit"} => hand # <<>>
  /\ pc \in {"idle", "stream", "delta", "ack"} => hand = <<>> /\ link = 0
  /\ pc = "note" => link = 0
  /\ pc = "swept" /\ link = 0 => hand = <<>>
  /\ pc = "ack" => ~HeldBack

\* A row says done of settled mail only, and what is committed is settled or was refused.
RowsInv ==
  /\ \A m \in Mails : claims[m].done => m \in settled
  /\ pc = "commit" => Mail \in settled \cup skipped

\* Mail nobody need look at again.
Past == settled \cup gone \cup released \cup skipped

\* A note of the event in work: dealt with, in hand, or pending for a stream yet to come.
Kept(m) ==
  \/ m \in Past
  \/ Noting /\ m \in ToSet(hand)
  \/ /\ m \in ToSet(pending) /\ StreamOf[m] \in ToSet(todo)
     /\ Opened => StreamOf[m] # Stream

\* Unless the run will be held back.
KeptInv ==
  pc # "idle" /\ (transport = "hub" \/ ~open) => \A m \in Notes(log[ev]) : Kept(m)

\* On Event Hubs the consumer has dealt with every event it was handed before this one.
BehindInv ==
  transport = "hub" =>
    /\ \E k \in 0 .. Len(log) : acked = 1 .. k
    /\ pc # "idle" => read = ev
    /\ up => \A e \in 1 .. read : e # ev => Notes(log[e]) \subseteq Past

\* On Service Bus a run for notes makes no sweep: no sweep is ever left over.
SweepsInv ==
  transport = "bus" =>
    /\ ToSet(wanted) \subseteq ToSet(IF Sweeping THEN Tail(todo) ELSE todo)
    /\ pc # "idle" /\ Notes(log[ev]) # {} => wanted = <<>> /\ ~Sweeping

\* Mail that a stored deltaLink may pass.
Excused == settled \cup released \cup skipped \cup cut

\* The stored links, the one the run started from, and the one it has in hand.
LinksInv ==
  /\ \A s \in Streams : \A m \in 1 .. cursor[s].link :
       StreamOf[m] = s => m \in Excused \cup CutShort
  /\ Opened => \A m \in 1 .. start.link : StreamOf[m] = Stream => m \in Excused
  /\ Opened => \A m \in 1 .. link : StreamOf[m] = Stream => m \in Excused \cup ToSet(hand)

\* The inductive invariant.
Inv ==
  /\ TypeOK /\ ControlInv
  /\ RowsInv /\ KeptInv /\ BehindInv /\ AckedIsSettled
  /\ SweepsInv /\ LinksInv

----------------------------------------------------------------------------
(* Induction.  The library states it with an operator as parameter; here    *)
(* it is for a set, from the well-foundedness of <.                         *)

\* Less-than on Nat, as a relation.
LEMMA LessThan ==
  \E R : IsWellFoundedOn(R, Nat) /\ \A x, y \in Nat : <<y, x>> \in R <=> y < x
<1>1. \A x, y \in Nat : <<y, x>> \in OpToRel(<,Nat) <=> y < x
  BY DEF OpToRel
<1>2. QED
  BY <1>1, NatLessThanWellFounded

\* A set of numbers has a least one.
LEMMA LeastNumber ==
  ASSUME NEW T \in SUBSET Nat, T # {}
  PROVE  \E x \in T : \A y \in T : x <= y
<1>1. PICK R : IsWellFoundedOn(R, Nat) /\ \A x, y \in Nat : <<y, x>> \in R <=> y < x
  BY LessThan
<1>2. PICK x \in T : \A y \in T : ~ (<<y, x>> \in R)
  BY <1>1, WFMin
<1>3. ASSUME NEW y \in T PROVE x <= y
  <2>1. x \in Nat /\ y \in Nat
    OBVIOUS
  <2>2. ~(y < x)
    BY <1>1, <1>2, <2>1
  <2>3. QED
    BY <2>1, <2>2
<1>4. QED
  BY <1>3

\* What holds of 0, and of k + 1 when it holds of k, holds of every number.
LEMMA Induction ==
  ASSUME NEW T, 0 \in T, \A k \in Nat : k \in T => k + 1 \in T
  PROVE  Nat \subseteq T
<1> SUFFICES ASSUME Nat \ T # {} PROVE FALSE
  OBVIOUS
<1>1. PICK x \in Nat \ T : \A y \in Nat \ T : x <= y
  BY LeastNumber
<1>2. x - 1 \in Nat /\ x - 1 \in T
  BY <1>1
<1>3. QED
  BY <1>1, <1>2

\* A set of positions has a last one.
LEMMA LastPosition ==
  ASSUME NEW n \in Nat, NEW I \in SUBSET (1 .. n), I # {}
  PROVE  Max(I) \in I /\ \A i \in I : i <= Max(I)
<1> DEFINE Bounds == {k \in Nat : \A i \in I : i <= k}
<1>1. n \in Bounds
  OBVIOUS
<1>2. PICK k \in Bounds : \A j \in Bounds : k <= j
  BY <1>1, LeastNumber
<1>3. k \in I
  <2> SUFFICES ASSUME k \notin I PROVE FALSE
    OBVIOUS
  <2>1. \A i \in I : i \in Nat /\ 1 <= i /\ i <= k - 1
    BY <1>2
  <2>2. k - 1 \in Nat
    <3>1. PICK i \in I : TRUE
      OBVIOUS
    <3>2. i \in Nat /\ 1 <= i /\ i <= k /\ k \in Nat
      BY <1>2, <2>1, <3>1
    <3>3. QED
      BY <3>2
  <2>3. k - 1 \in Bounds
    BY <2>1, <2>2
  <2>4. QED
    BY <1>2, <2>3
<1>4. \E x \in I : \A y \in I : x >= y
  BY <1>2, <1>3
<1>5. Max(I) \in I /\ \A i \in I : Max(I) >= i
  BY <1>4 DEF Max
<1>6. QED
  BY <1>5

----------------------------------------------------------------------------
(* Folds over lists.  A fold is a function on the sets of positions, which  *)
(* takes off the last position first.                                       *)

\* The fold of op, a function, over the first n elements of seq.
IsFold(fold, op, base, seq, n) ==
  fold = [I \in SUBSET (1 .. n) |->
            IF I = {} THEN base ELSE op[<<fold[I \ {Max(I)}], seq[Max(I)]>>]]

\* A fold over one element more, from the fold without it.
LEMMA LongerFold ==
  ASSUME NEW op, NEW base, NEW seq, NEW n \in Nat, NEW V, NEW X,
         op \in [V \X X -> V], base \in V, seq[n + 1] \in X,
         NEW fold \in [SUBSET (1 .. n) -> V], IsFold(fold, op, base, seq, n)
  PROVE  \E longer \in [SUBSET (1 .. n + 1) -> V] : IsFold(longer, op, base, seq, n + 1)
<1> DEFINE last == n + 1
           longer == [I \in SUBSET (1 .. last) |->
                        IF last \in I THEN op[<<fold[I \ {last}], seq[last]>>] ELSE fold[I]]
<1>0. last \in Nat
  OBVIOUS
<1>1. ASSUME NEW I \in SUBSET (1 .. last)
      PROVE  longer[I] =
               IF I = {} THEN base ELSE op[<<longer[I \ {Max(I)}], seq[Max(I)]>>]
  <2>1. CASE I = {}
    <3>1. longer[I] = fold[I]
      BY <2>1
    <3>2. fold[I] = base
      BY <2>1 DEF IsFold
    <3>3. QED
      BY <2>1, <3>1, <3>2
  <2>2. CASE I # {}
    <3>1. Max(I) \in I /\ \A i \in I : i <= Max(I)
      <4> HIDE DEF last, longer
      <4>1. QED
        BY <1>0, <2>2, LastPosition
    <3>2. CASE last \in I
      <4>1. Max(I) = last
        <5> HIDE DEF last, longer
        <5>1. Max(I) \in 1 .. last
          BY <3>1
        <5>2. last <= Max(I)
          BY <3>1, <3>2
        <5>3. QED
          BY <1>0, <5>1, <5>2
      <4>2. I \ {last} \in SUBSET (1 .. last) /\ last \notin I \ {last}
        OBVIOUS
      <4>3. longer[I \ {last}] = fold[I \ {last}]
        BY <4>2
      <4>4. QED
        BY <2>2, <3>2, <4>1, <4>3
    <3>3. CASE last \notin I
      <4>1. I \in SUBSET (1 .. n)
        BY <3>3
      <4>2. fold[I] = op[<<fold[I \ {Max(I)}], seq[Max(I)]>>]
        BY <2>2, <4>1 DEF IsFold
      <4>3. longer[I \ {Max(I)}] = fold[I \ {Max(I)}]
        BY <3>3, <4>1
      <4>4. longer[I] = fold[I]
        BY <3>3
      <4>5. QED
        BY <2>2, <4>2, <4>3, <4>4
    <3>4. QED
      BY <3>2, <3>3
  <2>3. QED
    BY <2>1, <2>2
<1>2. IsFold(longer, op, base, seq, last)
  <2> HIDE DEF longer
  <2>1. longer = [I \in SUBSET (1 .. last) |-> longer[I]]
    BY DEF longer
  <2>2. QED
    BY <1>1, <2>1 DEF IsFold
<1>3. longer \in [SUBSET (1 .. last) -> V]
  <2>1. ASSUME NEW I \in SUBSET (1 .. last), last \notin I PROVE I \in SUBSET (1 .. n)
    BY <2>1
  <2>2. \A I \in SUBSET (1 .. last) : I \ {last} \in SUBSET (1 .. n)
    OBVIOUS
  <2>3. ASSUME NEW I \in SUBSET (1 .. last)
        PROVE  (IF last \in I THEN op[<<fold[I \ {last}], seq[last]>>] ELSE fold[I]) \in V
    <3>1. fold[I \ {last}] \in V /\ (last \notin I => fold[I] \in V)
      BY <2>1, <2>2
    <3>2. QED
      BY <3>1
  <2>4. QED
    BY <2>3
<1>4. QED
  BY <1>2, <1>3

\* There is a fold over any number of elements.
LEMMA FoldExists ==
  ASSUME NEW n \in Nat, NEW seq, NEW V, NEW X, NEW op \in [V \X X -> V], NEW base \in V,
         \A i \in 1 .. n : seq[i] \in X
  PROVE  \E fold \in [SUBSET (1 .. n) -> V] : IsFold(fold, op, base, seq, n)
<1> DEFINE Has(k) == \E fold \in [SUBSET (1 .. k) -> V] : IsFold(fold, op, base, seq, k)
           T == {k \in Nat : k <= n => Has(k)}
<1>1. Has(0)
  <2> DEFINE fold == [I \in SUBSET (1 .. 0) |-> base]
  <2>1. \A I \in SUBSET (1 .. 0) : I = {}
    OBVIOUS
  <2>2. IsFold(fold, op, base, seq, 0)
    BY <2>1 DEF IsFold
  <2>3. QED
    BY <2>2
<1>2. ASSUME NEW k \in Nat, Has(k), k + 1 <= n PROVE Has(k + 1)
  <2>1. seq[k + 1] \in X
    BY <1>2
  <2>2. QED
    BY <1>2, <2>1, LongerFold
<1> HIDE DEF Has
<1>3. \A k \in Nat : k \in T => k + 1 \in T
  BY <1>2
<1>4. 0 \in T
  BY <1>1
<1> HIDE DEF T
<1>5. Nat \subseteq T
  BY <1>3, <1>4, Induction
<1>6. n \in T
  BY <1>5
<1>7. Has(n)
  BY <1>6 DEF T
<1>8. QED
  BY <1>7 DEF Has

\* The last of the first k + 1 positions, and what is left without it.
LEMMA PrefixPositions ==
  ASSUME NEW k \in Nat
  PROVE  Max(1 .. k + 1) = k + 1 /\ (1 .. k + 1) \ {k + 1} = 1 .. k
<1>1. PICK I : I = 1 .. k + 1
  OBVIOUS
<1>2. PICK n : n = k + 1
  OBVIOUS
<1>3. n \in Nat /\ I \in SUBSET (1 .. n) /\ n \in I
  BY <1>1, <1>2
<1>4. Max(I) \in I /\ \A i \in I : i <= Max(I)
  BY <1>3, LastPosition
<1>5. Max(I) \in 1 .. n /\ n <= Max(I)
  BY <1>3, <1>4
<1>6. Max(I) = n
  BY <1>3, <1>5
<1>7. QED
  BY <1>1, <1>2, <1>6

\* What a list holds after one element more.
LEMMA ToSetAppend ==
  ASSUME NEW X, NEW seq \in Seq(X), NEW x \in X
  PROVE  /\ Append(seq, x) \in Seq(X)
         /\ ToSet(Append(seq, x)) = ToSet(seq) \cup {x}
<1> DEFINE longer == Append(seq, x)
           n == Len(seq)
<1>1. /\ longer \in Seq(X) /\ n \in Nat /\ DOMAIN seq = 1 .. n /\ DOMAIN longer = 1 .. n + 1
      /\ \A i \in 1 .. n : longer[i] = seq[i]
      /\ longer[n + 1] = x
  OBVIOUS
<1> HIDE DEF longer, n
<1>2. ToSet(longer) \subseteq ToSet(seq) \cup {x}
  <2> SUFFICES ASSUME NEW i \in 1 .. n + 1 PROVE longer[i] \in ToSet(seq) \cup {x}
    BY <1>1 DEF ToSet
  <2>1. i \in 1 .. n \/ i = n + 1
    BY <1>1
  <2>2. QED
    BY <1>1, <2>1 DEF ToSet
<1>3. ToSet(seq) \cup {x} \subseteq ToSet(longer)
  <2>1. n + 1 \in 1 .. n + 1 /\ 1 .. n \subseteq 1 .. n + 1
    BY <1>1
  <2>2. QED
    BY <1>1, <2>1 DEF ToSet
<1>4. QED
  BY <1>1, <1>2, <1>3 DEF longer

\* The elements of a list that are in `keep`.
LEMMA AmongElements ==
  ASSUME NEW X, NEW seq \in Seq(X), NEW keep
  PROVE  Among(seq, keep) \in Seq(X) /\ ToSet(Among(seq, keep)) = ToSet(seq) \cap keep
<1> DEFINE n == Len(seq)
           op == [p \in Seq(X) \X X |->
                    IF p[2] \in keep THEN Append(p[1], p[2]) ELSE p[1]]
           Fold(f) == f = [I \in SUBSET DOMAIN seq |->
                            IF I = {} THEN <<>>
                            ELSE IF seq[Max(I)] \in keep
                                   THEN Append(f[I \ {Max(I)}], seq[Max(I)])
                                   ELSE f[I \ {Max(I)}]]
<1>1. Among(seq, keep) = (CHOOSE f : Fold(f))[DOMAIN seq]
  BY DEF Among, FoldLeft, MapThenFoldSet
<1>2. n \in Nat /\ DOMAIN seq = 1 .. n /\ <<>> \in Seq(X) /\ \A i \in 1 .. n : seq[i] \in X
  OBVIOUS
<1>3. op \in [Seq(X) \X X -> Seq(X)]
  OBVIOUS
<1>4. \A kept \in Seq(X), x \in X :
        op[<<kept, x>>] = IF x \in keep THEN Append(kept, x) ELSE kept
  OBVIOUS
<1> HIDE DEF n, op
<1>5. ASSUME NEW I \in SUBSET (1 .. n), I # {}
      PROVE  seq[Max(I)] \in X /\ I \ {Max(I)} \in SUBSET (1 .. n)
  BY <1>2, <1>5, LastPosition
<1>6. PICK fold \in [SUBSET (1 .. n) -> Seq(X)] : IsFold(fold, op, <<>>, seq, n)
  BY <1>2, <1>3, FoldExists
<1>7. Fold(fold)
  BY <1>2, <1>4, <1>5, <1>6 DEF IsFold
<1>8. PICK f : f = CHOOSE g : Fold(g)
  OBVIOUS
<1>9. Fold(f)
  BY <1>7, <1>8
<1>10. Among(seq, keep) = f[1 .. n]
  BY <1>1, <1>2, <1>8
<1>11. f[1 .. 0] = <<>>
  BY <1>2, <1>9
<1>12. ASSUME NEW k \in Nat, k + 1 <= n
       PROVE  f[1 .. k + 1] = IF seq[k + 1] \in keep THEN Append(f[1 .. k], seq[k + 1])
                                                     ELSE f[1 .. k]
  <2>1. PICK I : I = 1 .. k + 1
    OBVIOUS
  <2>2. I \in SUBSET DOMAIN seq /\ I # {}
    <3>1. I \subseteq 1 .. n /\ k + 1 \in I
      BY <1>2, <1>12, <2>1
    <3>2. QED
      BY <1>2, <3>1
  <2>3. Max(I) = k + 1 /\ I \ {k + 1} = 1 .. k
    BY <2>1, PrefixPositions
  <2>4. QED
    BY <1>9, <2>1, <2>2, <2>3
<1> HIDE DEF Fold
<1> DEFINE Right(k) == /\ f[1 .. k] \in Seq(X)
                       /\ ToSet(f[1 .. k]) = {seq[i] : i \in 1 .. k} \cap keep
           T == {k \in Nat : k <= n => Right(k)}
<1>13. Right(0)
  BY <1>2, <1>11 DEF ToSet
<1>14. ASSUME NEW k \in Nat, k + 1 <= n, Right(k) PROVE Right(k + 1)
  <2>1. seq[k + 1] \in X
    BY <1>2, <1>14
  <2>2. {seq[i] : i \in 1 .. k + 1} = {seq[i] : i \in 1 .. k} \cup {seq[k + 1]}
    OBVIOUS
  <2>3. CASE seq[k + 1] \in keep
    <3>1. f[1 .. k + 1] = Append(f[1 .. k], seq[k + 1])
      BY <1>12, <1>14, <2>3
    <3>2. f[1 .. k + 1] \in Seq(X) /\ ToSet(f[1 .. k + 1]) = ToSet(f[1 .. k]) \cup {seq[k + 1]}
      BY <1>14, <2>1, <3>1, ToSetAppend
    <3>3. QED
      BY <1>14, <2>2, <2>3, <3>2
  <2>4. CASE seq[k + 1] \notin keep
    <3>1. f[1 .. k + 1] = f[1 .. k]
      BY <1>12, <1>14, <2>4
    <3>2. QED
      BY <1>14, <2>2, <2>4, <3>1
  <2>5. QED
    BY <2>3, <2>4
<1> HIDE DEF Right
<1>15. \A k \in Nat : k \in T => k + 1 \in T
  BY <1>2, <1>14
<1>16. 0 \in T
  BY <1>13
<1> HIDE DEF T
<1>17. n \in T
  BY <1>2, <1>15, <1>16, Induction
<1>18. Right(n)
  BY <1>2, <1>17 DEF T
<1>19. ToSet(seq) = {seq[i] : i \in 1 .. n}
  BY <1>2 DEF ToSet
<1>20. QED
  BY <1>10, <1>18, <1>19 DEF Right

\* Adjoin adds an element that is not there yet.
LEMMA AdjoinElement ==
  ASSUME NEW X, NEW seq \in Seq(X), NEW x \in X
  PROVE  Adjoin(seq, x) \in Seq(X) /\ ToSet(Adjoin(seq, x)) = ToSet(seq) \cup {x}
  BY ToSetAppend DEF Adjoin

\* Adjoining the elements of a list to another one.
LEMMA AdjoinedElements ==
  ASSUME NEW X, NEW base \in Seq(X), NEW seq \in Seq(X)
  PROVE  /\ AdjoinAll(base, seq) \in Seq(X)
         /\ ToSet(AdjoinAll(base, seq)) = ToSet(base) \cup ToSet(seq)
<1> DEFINE n == Len(seq)
           op == [p \in Seq(X) \X X |->
                    Adjoin(p[1], p[2])]
           Fold(f) == f = [I \in SUBSET DOMAIN seq |->
                            IF I = {} THEN base
                            ELSE Adjoin(f[I \ {Max(I)}], seq[Max(I)])]
<1>1. AdjoinAll(base, seq) = (CHOOSE f : Fold(f))[DOMAIN seq]
  BY DEF AdjoinAll, FoldLeft, MapThenFoldSet
<1>2. n \in Nat /\ DOMAIN seq = 1 .. n /\ \A i \in 1 .. n : seq[i] \in X
  OBVIOUS
<1>3. op \in [Seq(X) \X X -> Seq(X)]
  BY AdjoinElement
<1>4. \A kept \in Seq(X), x \in X :
        op[<<kept, x>>] = Adjoin(kept, x)
  OBVIOUS
<1> HIDE DEF n, op
<1>5. ASSUME NEW I \in SUBSET (1 .. n), I # {}
      PROVE  seq[Max(I)] \in X /\ I \ {Max(I)} \in SUBSET (1 .. n)
  BY <1>2, <1>5, LastPosition
<1>6. PICK fold \in [SUBSET (1 .. n) -> Seq(X)] : IsFold(fold, op, base, seq, n)
  BY <1>2, <1>3, FoldExists
<1>7. Fold(fold)
  BY <1>2, <1>4, <1>5, <1>6 DEF IsFold
<1>8. PICK f : f = CHOOSE g : Fold(g)
  OBVIOUS
<1>9. Fold(f)
  BY <1>7, <1>8
<1>10. AdjoinAll(base, seq) = f[1 .. n]
  BY <1>1, <1>2, <1>8
<1>11. f[1 .. 0] = base
  BY <1>2, <1>9
<1>12. ASSUME NEW k \in Nat, k + 1 <= n
       PROVE  f[1 .. k + 1] = Adjoin(f[1 .. k], seq[k + 1])
  <2>1. PICK I : I = 1 .. k + 1
    OBVIOUS
  <2>2. I \in SUBSET DOMAIN seq /\ I # {}
    <3>1. I \subseteq 1 .. n /\ k + 1 \in I
      BY <1>2, <1>12, <2>1
    <3>2. QED
      BY <1>2, <3>1
  <2>3. Max(I) = k + 1 /\ I \ {k + 1} = 1 .. k
    BY <2>1, PrefixPositions
  <2>4. QED
    BY <1>9, <2>1, <2>2, <2>3
<1> HIDE DEF Fold
<1> DEFINE Right(k) == /\ f[1 .. k] \in Seq(X)
                       /\ ToSet(f[1 .. k]) = ToSet(base) \cup {seq[i] : i \in 1 .. k}
           T == {k \in Nat : k <= n => Right(k)}
<1>13. Right(0)
  BY <1>2, <1>11 DEF ToSet
<1>14. ASSUME NEW k \in Nat, k + 1 <= n, Right(k) PROVE Right(k + 1)
  <2>1. seq[k + 1] \in X
    BY <1>2, <1>14
  <2>2. {seq[i] : i \in 1 .. k + 1} = {seq[i] : i \in 1 .. k} \cup {seq[k + 1]}
    OBVIOUS
  <2>3. f[1 .. k + 1] = Adjoin(f[1 .. k], seq[k + 1])
    BY <1>12, <1>14
  <2>4. f[1 .. k + 1] \in Seq(X) /\ ToSet(f[1 .. k + 1]) = ToSet(f[1 .. k]) \cup {seq[k + 1]}
    <3>1. PICK part \in Seq(X) : part = f[1 .. k]
      BY <1>14
    <3>2. PICK x \in X : x = seq[k + 1]
      BY <2>1
    <3>3. Adjoin(part, x) \in Seq(X) /\ ToSet(Adjoin(part, x)) = ToSet(part) \cup {x}
      BY AdjoinElement
    <3>4. QED
      BY <2>3, <3>1, <3>2, <3>3
  <2>5. QED
    BY <1>14, <2>2, <2>4
<1> HIDE DEF Right
<1>15. \A k \in Nat : k \in T => k + 1 \in T
  BY <1>2, <1>14
<1>16. 0 \in T
  BY <1>13
<1> HIDE DEF T
<1>17. n \in T
  BY <1>2, <1>15, <1>16, Induction
<1>18. Right(n)
  BY <1>2, <1>17 DEF T
<1>19. ToSet(seq) = {seq[i] : i \in 1 .. n}
  BY <1>2 DEF ToSet
<1>20. QED
  BY <1>10, <1>18, <1>19 DEF Right

----------------------------------------------------------------------------
(* What the lists of the model hold.                                       *)

\* The list of a finite set holds its elements.
LEMMA SetToSeqElements ==
  ASSUME NEW S, IsFiniteSet(S)
  PROVE  SetToSeq(S) \in Seq(S) /\ ToSet(SetToSeq(S)) = S
<1>1. PICK n : n = Cardinality(S) /\ n \in Nat /\ ExistsBijection(1 .. n, S)
  BY FS_CardinalityType
<1>2. PICK g : g \in Injection(1 .. n, S)
  BY <1>1 DEF ExistsBijection, Bijection
<1>3. g \in [1 .. n -> S] /\ IsInjective(g)
  BY <1>2 DEF Injection, IsInjective
<1>4. PICK f : f = SetToSeq(S)
  OBVIOUS
<1>5. f \in [1 .. n -> S] /\ IsInjective(f)
  BY <1>1, <1>3, <1>4 DEF SetToSeq
<1>6. f \in Injection(1 .. n, S)
  BY <1>5 DEF Injection, IsInjective
<1>7. IsFiniteSet(1 .. n) /\ Cardinality(1 .. n) = n
  BY <1>1, FS_Interval
<1>8. f \in Surjection(1 .. n, S)
  BY <1>1, <1>6, <1>7, FS_Injection
<1>9. f \in Seq(S)
  BY <1>1, <1>5
<1>10. ToSet(f) = S
  BY <1>5, <1>8 DEF Surjection, ToSet
<1>11. QED
  BY <1>4, <1>9, <1>10

\* An empty list holds nothing, and only an empty list does.
LEMMA EmptyList ==
  ASSUME NEW X, NEW seq \in Seq(X)
  PROVE  (seq = <<>>) <=> (ToSet(seq) = {})
<1>1. seq = <<>> => ToSet(seq) = {}
  BY DEF ToSet
<1>2. seq # <<>> => seq[1] \in ToSet(seq)
  BY DEF ToSet
<1>3. QED
  BY <1>1, <1>2

\* A list holds its head and what its tail holds.
LEMMA HeadAndTail ==
  ASSUME NEW X, NEW seq \in Seq(X), seq # <<>>
  PROVE  /\ Head(seq) \in X /\ Tail(seq) \in Seq(X)
         /\ ToSet(seq) = {Head(seq)} \cup ToSet(Tail(seq))
<1>1. PICK n, rest : n = Len(seq) /\ rest = Tail(seq)
  OBVIOUS
<1>2. n \in Nat /\ n > 0 /\ rest \in Seq(X) /\ DOMAIN seq = 1 .. n /\ DOMAIN rest = 1 .. n - 1
  BY <1>1
<1>3. \A i \in 1 .. n - 1 : rest[i] = seq[i + 1]
  BY <1>1
<1>4. Head(seq) = seq[1] /\ seq[1] \in X
  OBVIOUS
<1>5. ASSUME NEW i \in 1 .. n PROVE seq[i] = seq[1] \/ \E j \in 1 .. n - 1 : seq[i] = rest[j]
  <2>1. CASE i = 1
    BY <2>1
  <2>2. CASE i # 1
    <3>1. i - 1 \in 1 .. n - 1 /\ (i - 1) + 1 = i
      BY <1>2, <2>2
    <3>2. QED
      BY <1>3, <3>1
  <2>3. QED
    BY <2>1, <2>2
<1>6. ASSUME NEW j \in 1 .. n - 1 PROVE \E i \in 1 .. n : rest[j] = seq[i]
  <2>1. j + 1 \in 1 .. n
    BY <1>2
  <2>2. QED
    BY <1>3, <2>1
<1>7. ToSet(seq) = {seq[1]} \cup ToSet(rest)
  <2>1. ToSet(seq) \subseteq {seq[1]} \cup ToSet(rest)
    BY <1>2, <1>5 DEF ToSet
  <2>2. ToSet(rest) \subseteq ToSet(seq)
    BY <1>2, <1>6 DEF ToSet
  <2>3. 1 \in 1 .. n
    BY <1>2
  <2>4. seq[1] \in ToSet(seq)
    BY <1>2, <2>3 DEF ToSet
  <2>5. QED
    BY <2>1, <2>2, <2>4
<1>8. QED
  BY <1>1, <1>2, <1>4, <1>7

\* One list after another.
LEMMA JoinedElements ==
  ASSUME NEW X, NEW first \in Seq(X), NEW second \in Seq(X)
  PROVE  first \o second \in Seq(X) /\ ToSet(first \o second) = ToSet(first) \cup ToSet(second)
<1>1. PICK m, n, both : m = Len(first) /\ n = Len(second) /\ both = first \o second
  OBVIOUS
<1>2. /\ m \in Nat /\ n \in Nat /\ both \in Seq(X)
      /\ DOMAIN first = 1 .. m /\ DOMAIN second = 1 .. n /\ DOMAIN both = 1 .. m + n
  BY <1>1
<1>3. \A i \in 1 .. m + n : both[i] = IF i <= m THEN first[i] ELSE second[i - m]
  BY <1>1
<1>4. ASSUME NEW i \in 1 .. m + n PROVE both[i] \in ToSet(first) \cup ToSet(second)
  <2>1. CASE i <= m
    <3>1. i \in 1 .. m
      BY <1>2, <2>1
    <3>2. QED
      BY <1>2, <1>3, <2>1, <3>1 DEF ToSet
  <2>2. CASE ~(i <= m)
    <3>1. i - m \in 1 .. n
      BY <1>2, <2>2
    <3>2. QED
      BY <1>2, <1>3, <2>2, <3>1 DEF ToSet
  <2>3. QED
    BY <2>1, <2>2
<1>5. ASSUME NEW i \in 1 .. m PROVE first[i] \in ToSet(both)
  <2>1. i \in 1 .. m + n /\ i <= m
    BY <1>2
  <2>2. QED
    BY <1>2, <1>3, <2>1 DEF ToSet
<1>6. ASSUME NEW i \in 1 .. n PROVE second[i] \in ToSet(both)
  <2>1. i + m \in 1 .. m + n /\ ~(i + m <= m) /\ (i + m) - m = i
    BY <1>2
  <2>2. both[i + m] = second[i]
    BY <1>3, <2>1
  <2>3. QED
    BY <1>2, <2>1, <2>2 DEF ToSet
<1>7. ToSet(both) \subseteq ToSet(first) \cup ToSet(second)
  BY <1>2, <1>4 DEF ToSet
<1>8. ToSet(first) \subseteq ToSet(both) /\ ToSet(second) \subseteq ToSet(both)
  BY <1>2, <1>5, <1>6 DEF ToSet
<1>9. QED
  BY <1>1, <1>2, <1>7, <1>8

\* The run goes through the folders of all pending notes, and those to sweep.
LEMMA SyncStreamsElements ==
  ASSUME NEW notes \in Seq(Mails), NEW sweeps \in Seq(Streams)
  PROVE  /\ SyncStreams(notes, sweeps) \in Seq(Streams)
         /\ ToSet(SyncStreams(notes, sweeps))
              = {StreamOf[m] : m \in ToSet(notes)} \cup ToSet(sweeps)
<1>1. PICK folders : folders = [i \in DOMAIN notes |-> StreamOf[notes[i]]]
  OBVIOUS
<1>2. folders \in Seq(Streams)
  <2>1. \A i \in 1 .. Len(notes) : StreamOf[notes[i]] \in Streams
    BY GraphAssumption
  <2>2. Len(notes) \in Nat /\ DOMAIN notes = 1 .. Len(notes)
    OBVIOUS
  <2>3. QED
    BY <1>1, <2>1, <2>2
<1>3. ToSet(folders) = {StreamOf[m] : m \in ToSet(notes)}
  BY <1>1 DEF ToSet
<1>4. PICK all : all = folders \o sweeps /\ all \in Seq(Streams)
                 /\ ToSet(all) = ToSet(folders) \cup ToSet(sweeps)
  BY <1>2, JoinedElements
<1>5. <<>> \in Seq(Streams) /\ ToSet(<<>>) = {}
  BY DEF ToSet
<1>6. PICK none \in Seq(Streams) : none = <<>> /\ ToSet(none) = {}
  BY <1>5
<1>7. AdjoinAll(none, all) \in Seq(Streams) /\ ToSet(AdjoinAll(none, all)) = ToSet(all)
  <2>1. none \in Seq(Streams) /\ all \in Seq(Streams)
    BY <1>4, <1>6
  <2>2. /\ AdjoinAll(none, all) \in Seq(Streams)
        /\ ToSet(AdjoinAll(none, all)) = ToSet(none) \cup ToSet(all)
    BY <2>1, AdjoinedElements
  <2>3. QED
    BY <1>6, <2>2
<1>8. SyncStreams(notes, sweeps) = AdjoinAll(none, all)
  BY <1>1, <1>4, <1>6 DEF SyncStreams
<1>9. QED
  BY <1>3, <1>4, <1>7, <1>8

\* The notes of a folder, and of the others.
LEMMA NotesOfStream ==
  ASSUME NEW notes \in Seq(Mails), NEW s
  PROVE  /\ OfStream(notes, s) \in Seq(Mails)
         /\ ToSet(OfStream(notes, s)) = {m \in ToSet(notes) : StreamOf[m] = s}
         /\ OfOthers(notes, s) \in Seq(Mails)
         /\ ToSet(OfOthers(notes, s)) = {m \in ToSet(notes) : StreamOf[m] # s}
<1>1. ToSet(notes) \subseteq Mails
  BY DEF ToSet
<1>2. QED
  BY <1>1, AmongElements DEF OfStream, OfOthers, MailsOf

\* What a delta query returns.
LEMMA ChangedElements ==
  ASSUME head \in 0 .. NumMails, NEW s, NEW from \in Nat
  PROVE  /\ Changed(s, from) \in Seq(Mails)
         /\ ToSet(Changed(s, from)) = {m \in from + 1 .. head : StreamOf[m] = s}
<1>1. NumMails \in Nat /\ head \in Nat /\ head <= NumMails
  BY GraphAssumption
<1>2. PICK n : n = IF from <= head THEN head - from ELSE 0
  OBVIOUS
<1>3. n \in Nat /\ 1 .. (head - from) = 1 .. n
  BY <1>1, <1>2
<1>4. PICK news : news = [i \in 1 .. n |-> from + i]
  OBVIOUS
<1>5. \A i \in 1 .. n : from + i \in from + 1 .. head /\ from + i \in Mails
  BY <1>1, <1>2 DEF Mails
<1>6. news \in Seq(Mails) /\ DOMAIN news = 1 .. n
  <2>1. news \in [1 .. n -> Mails]
    BY <1>4, <1>5
  <2>2. QED
    BY <1>3, <2>1
<1>7. ToSet(news) = from + 1 .. head
  <2>1. ToSet(news) \subseteq from + 1 .. head
    BY <1>4, <1>5, <1>6 DEF ToSet
  <2>2. ASSUME NEW m \in from + 1 .. head PROVE m \in ToSet(news)
    <3>1. m - from \in 1 .. n /\ from + (m - from) = m
      BY <1>1, <1>2
    <3>2. QED
      BY <1>4, <1>6, <3>1 DEF ToSet
  <2>3. QED
    BY <2>1, <2>2
<1>8. Changed(s, from) = OfStream(news, s)
  BY <1>3, <1>4 DEF Changed
<1>9. QED
  BY <1>6, <1>7, <1>8, NotesOfStream

----------------------------------------------------------------------------
(* Types and control.                                                      *)

\* The mail in hand and the stream that is open.
LEMMA HandAndTodo ==
  ASSUME TypeOK
  PROVE  /\ hand # <<>> => /\ Mail \in Mails /\ Tail(hand) \in Seq(Mails)
                           /\ ToSet(hand) = {Mail} \cup ToSet(Tail(hand))
         /\ todo # <<>> => /\ Stream \in Streams /\ Tail(todo) \in Seq(Streams)
                           /\ ToSet(todo) = {Stream} \cup ToSet(Tail(todo))
<1>1. hand \in Seq(Mails) /\ todo \in Seq(Streams)
  BY DEF TypeOK
<1>2. QED
  BY <1>1, HeadAndTail DEF Mail, Stream

\* Empty lists have every type and hold nothing.
LEMMA Nothing ==
  /\ <<>> \in Seq(Mails) /\ <<>> \in Seq(Streams)
  /\ ToSet(<<>>) = {}
  BY DEF ToSet

\* Every operation of the store yields a row.
LEMMA RowOperations ==
  ASSUME NEW row \in Row
  PROVE  /\ Attempted(Claimed(row)) \in Row
         /\ MarkedDone(row) \in Row
         /\ Released(row) \in Row
         /\ [row EXCEPT !.fresh = FALSE] \in Row
<1>1. Claimed(row) \in Row /\ MarkedDone(row) \in Row
  BY DEF Row, Claimed, MarkedDone
<1>2. \A r \in Row : Attempted(r) \in Row
  BY DEF Row, Attempted
<1>3. Released(row) \in Row /\ [row EXCEPT !.fresh = FALSE] \in Row
  BY DEF Row, Released
<1>4. QED
  BY <1>1, <1>2, <1>3

\* What never changes, and what only grows.
LEMMA Lasting ==
  ASSUME TypeOK, [Next]_vars
  PROVE  /\ transport' = transport /\ gone' = gone
         /\ settled \subseteq settled' /\ released \subseteq released' /\ cut \subseteq cut'
         /\ skipped \subseteq skipped'
<1> USE DEF broker, ack, stores, provider, run, history
<1>1. CASE Arrive \/ (\E s \in Streams : SignalMissed(s)) \/ (\E m \in Mails : LeaseElapses(m))
  BY <1>1 DEF Arrive, SignalMissed, LeaseElapses
<1>2. CASE Crash \/ BootHub \/ BootBus \/ RunRaises \/ Release
  BY <1>2 DEF Crash, BootHub, BootBus, RunRaises, Release
<1>3. CASE (\E e \in DOMAIN log : Receive(e)) \/ RunReturns \/ Ack \/ OpenStream \/ GetMessage
  BY <1>3 DEF Receive, RunReturns, Ack, OpenStream, GetMessage
<1>4. CASE NotesDone \/ DeltaSweep \/ SweptMessage \/ Claim \/ Duplicate \/ Settle \/ Commit
  BY <1>4 DEF NotesDone, DeltaSweep, SweptMessage, Claim, Duplicate, Settle, Commit
<1>5. CASE UNCHANGED vars
  BY <1>5 DEF vars
<1>6. QED
  BY <1>1, <1>2, <1>3, <1>4, <1>5 DEF Next, Step

\* Only Graph publishes.
LEMMA OnlyGraphPublishes ==
  ASSUME [Next]_vars, ~Arrive, \A s \in Streams : ~SignalMissed(s)
  PROVE  log' = log /\ head' = head
<1> USE DEF broker, ack, stores, provider, run, history
<1>1. CASE Crash \/ BootHub \/ BootBus \/ RunRaises \/ Release \/ \E m \in Mails : LeaseElapses(m)
  BY <1>1 DEF Crash, BootHub, BootBus, RunRaises, Release, LeaseElapses
<1>2. CASE (\E e \in DOMAIN log : Receive(e)) \/ RunReturns \/ Ack \/ OpenStream \/ GetMessage
  BY <1>2 DEF Receive, RunReturns, Ack, OpenStream, GetMessage
<1>3. CASE NotesDone \/ DeltaSweep \/ SweptMessage \/ Claim \/ Duplicate \/ Settle \/ Commit
  BY <1>3 DEF NotesDone, DeltaSweep, SweptMessage, Claim, Duplicate, Settle, Commit
<1>4. CASE UNCHANGED vars
  BY <1>4 DEF vars
<1>5. QED
  BY <1>1, <1>2, <1>3, <1>4 DEF Next, Step

\* An event, once published, stays what it is.
LEMMA LogGrows ==
  ASSUME TypeOK, [Next]_vars
  PROVE  /\ log' \in Seq(Event) /\ head' \in 0 .. NumMails
         /\ Len(log) \in Nat /\ Len(log) <= Len(log') /\ Len(log') \in Nat
         /\ DOMAIN log = 1 .. Len(log) /\ DOMAIN log' = 1 .. Len(log')
         /\ DOMAIN log \subseteq DOMAIN log'
         /\ \A e \in DOMAIN log : log'[e] = log[e]
<1>1. log \in Seq(Event) /\ head \in 0 .. NumMails
  BY DEF TypeOK
<1>2. ASSUME NEW event \in Event, log' = Append(log, event)
      PROVE  /\ log' \in Seq(Event) /\ Len(log') = Len(log) + 1
             /\ \A e \in 1 .. Len(log) : log'[e] = log[e]
  BY <1>1, <1>2
<1>3. CASE head' \in 0 .. NumMails /\ (log' = log \/ \E event \in Event : log' = Append(log, event))
  <2>1. CASE log' = log
    BY <1>1, <1>3, <2>1
  <2>2. CASE \E event \in Event : log' = Append(log, event)
    BY <1>1, <1>2, <1>3, <2>2
  <2>3. QED
    BY <1>3, <2>1, <2>2
<1>4. CASE Arrive
  <2>1. PICK upto \in head + 1 .. NumMails :
          /\ head' = upto
          /\ \/ log' = Append(log, [mails |-> head + 1 .. upto, missed |-> {}, genuine |-> TRUE])
             \/ UNCHANGED log
    BY <1>4 DEF Arrive
  <2>2. [mails |-> head + 1 .. upto, missed |-> {}, genuine |-> TRUE] \in Event
    <3>1. head + 1 .. upto \subseteq Mails
      BY <1>1, <2>1, GraphAssumption DEF Mails
    <3>2. QED
      BY <3>1 DEF Event
  <2>3. head' \in 0 .. NumMails
    BY <1>1, <2>1, GraphAssumption
  <2>4. log' = log \/ \E event \in Event : log' = Append(log, event)
    BY <2>1, <2>2
  <2>5. QED
    BY <1>3, <2>3, <2>4
<1>5. ASSUME NEW s \in Streams, SignalMissed(s)
      PROVE  head' = head /\ \E event \in Event : log' = Append(log, event)
  <2>1. [mails |-> {}, missed |-> {s}, genuine |-> TRUE] \in Event
    BY DEF Event
  <2>2. QED
    BY <1>5, <2>1 DEF SignalMissed
<1>6. QED
  BY <1>1, <1>3, <1>4, <1>5, OnlyGraphPublishes

\* What the transport and the stores hold is of their type.
TypeStores ==
  /\ acked \subseteq DOMAIN log /\ read \in 0 .. Len(log)
  /\ cursor \in [Streams -> [order: Nat, link: 0 .. NumMails]]
  /\ claims \in [Mails -> Row] /\ settled \subseteq Mails

\* What the process holds is of its type.
TypeProcess ==
  /\ up \in BOOLEAN /\ pending \in Seq(Mails) /\ wanted \in Seq(Streams) /\ order \in Nat
  /\ pc \in {"idle", "stream", "note", "delta", "swept", "claim", "work", "commit", "ack"}
  /\ ev \in {0} \cup DOMAIN log /\ todo \in Seq(Streams)
  /\ hand \in Seq(Mails) /\ link \in 0 .. NumMails
  /\ blocked \in BOOLEAN /\ open \in BOOLEAN

\* Types, and what a run holds.
TypeInv == TypeOK /\ ControlInv

\* The checkpoint is an event of the partition.
LEMMA CheckpointIsLast ==
  ASSUME NEW k \in Nat, acked = 1 .. k
  PROVE  Checkpoint = k
<1>1. CASE k = 0
  BY <1>1 DEF Checkpoint
<1>2. CASE k # 0
  <2>1. k \in acked /\ acked # {} /\ \A f \in acked : f <= k
    BY <1>2
  <2>2. PICK c : c = Checkpoint
    OBVIOUS
  <2>3. c \in acked /\ \A f \in acked : f <= c
    BY <2>1, <2>2 DEF Checkpoint
  <2>4. c \in Nat /\ c <= k /\ k <= c
    BY <2>1, <2>3
  <2>5. QED
    BY <2>2, <2>4
<1>3. QED
  BY <1>1, <1>2

\* On Event Hubs it is one the log holds.
LEMMA CheckpointInLog ==
  ASSUME TypeOK, BehindInv, transport = "hub"
  PROVE  /\ Checkpoint \in 0 .. Len(log)
         /\ acked = 1 .. Checkpoint
<1>1. PICK k \in 0 .. Len(log) : acked = 1 .. k
  BY DEF BehindInv
<1>2. Len(log) \in Nat
  BY DEF TypeOK
<1>3. k \in Nat
  BY <1>2
<1>4. QED
  BY <1>1, <1>3, CheckpointIsLast

\* What the stores hold when the process has gone: the same, or nothing.
LEMMA Forgotten ==
  ASSUME ForgetStores \/ UNCHANGED <<cursor, claims>>,
         cursor \in [Streams -> [order: Nat, link: 0 .. NumMails]], claims \in [Mails -> Row]
  PROVE  /\ cursor' \in [Streams -> [order: Nat, link: 0 .. NumMails]]
         /\ claims' \in [Mails -> Row]
         /\ \A s \in Streams : cursor'[s] = cursor[s] \/ cursor'[s].link = 0
         /\ \A m \in Mails : claims'[m] = claims[m] \/ ~claims'[m].done
<1>1. /\ NoCursor \in [order: Nat, link: 0 .. NumMails] /\ NoCursor.link = 0
      /\ NoRow \in Row /\ ~NoRow.done
  BY GraphAssumption DEF NoCursor, NoRow, Row
<1>2. CASE UNCHANGED <<cursor, claims>>
  BY <1>2
<1>3. CASE cursor' = [s \in Streams |-> NoCursor] /\ claims' = [m \in Mails |-> NoRow]
  BY <1>1, <1>3
<1>4. QED
  BY <1>2, <1>3 DEF ForgetStores

\* The stores keep their types.
LEMMA TypeStoresStep ==
  ASSUME TypeInv, BehindInv, [Next]_vars
  PROVE  TypeStores'
<1> USE DEF broker, ack, stores, provider, run, history
<1>1. TypeOK /\ ControlInv
  BY DEF TypeInv
<1>2. /\ Len(log) \in Nat /\ Len(log) <= Len(log') /\ Len(log') \in Nat
      /\ DOMAIN log = 1 .. Len(log) /\ DOMAIN log' = 1 .. Len(log')
      /\ DOMAIN log \subseteq DOMAIN log'
  BY <1>1, LogGrows
<1>3. TypeStores
  BY <1>1 DEF TypeOK, TypeStores
<1>4. CASE UNCHANGED <<acked, read, cursor, claims, settled>>
  BY <1>2, <1>3, <1>4 DEF TypeStores
<1>5. ASSUME NEW m \in Mails, LeaseElapses(m) PROVE TypeStores'
  <2>1. [claims[m] EXCEPT !.fresh = FALSE] \in Row
    BY <1>3, RowOperations DEF TypeStores
  <2>2. claims' = [claims EXCEPT ![m] = [claims[m] EXCEPT !.fresh = FALSE]]
        /\ UNCHANGED <<acked, read, cursor, settled>>
    BY <1>5 DEF LeaseElapses
  <2>3. QED
    BY <1>2, <1>3, <2>1, <2>2 DEF TypeStores
<1>6. CASE BootHub
  <2>1. read' \in 0 .. Len(log)
    BY <1>1, <1>6, CheckpointInLog DEF BootHub
  <2>2. UNCHANGED <<acked, cursor, claims, settled>>
    BY <1>6 DEF BootHub
  <2>3. QED
    BY <1>2, <1>3, <2>1, <2>2 DEF TypeStores
<1>7. ASSUME NEW e \in DOMAIN log, Receive(e) PROVE TypeStores'
  <2>1. read' \in 0 .. Len(log) /\ UNCHANGED <<acked, cursor, claims, settled>>
    BY <1>2, <1>3, <1>7 DEF Receive, TypeStores
  <2>2. QED
    BY <1>2, <1>3, <2>1 DEF TypeStores
<1>8. CASE Ack
  <2>1. ev \in DOMAIN log
    BY <1>1, <1>8 DEF Ack, ControlInv
  <2>2. 1 .. ev \subseteq DOMAIN log
    BY <1>2, <2>1
  <2>3. acked' \subseteq DOMAIN log /\ UNCHANGED <<read, cursor, claims, settled>>
    BY <1>3, <1>8, <2>1, <2>2 DEF Ack, TypeStores
  <2>4. QED
    BY <1>2, <1>3, <2>3 DEF TypeStores
<1>9. CASE RunRaises
  <2>1. read' \in 0 .. Len(log)
    <3>1. CASE transport = "hub"
      BY <1>1, <1>9, <3>1, CheckpointInLog DEF RunRaises
    <3>2. CASE transport # "hub"
      BY <1>3, <1>9, <3>2 DEF RunRaises, TypeStores
    <3>3. QED
      BY <3>1, <3>2
  <2>2. UNCHANGED <<acked, settled>> /\ (UNCHANGED <<cursor, claims>> \/ ForgetStores)
    BY <1>9 DEF RunRaises
  <2>3. cursor' \in [Streams -> [order: Nat, link: 0 .. NumMails]] /\ claims' \in [Mails -> Row]
    BY <1>3, <2>2, Forgotten DEF TypeStores
  <2>4. QED
    BY <1>2, <1>3, <2>1, <2>2, <2>3 DEF TypeStores
<1>10. CASE Claim \/ Settle \/ Release
  <2>1. Mail \in Mails
    BY <1>1, <1>10, HandAndTodo DEF Claim, Settle, Release, ControlInv
  <2>2. PICK row \in Row : row = claims[Mail]
    BY <1>3, <2>1 DEF TypeStores
  <2>3. \E new \in Row : claims' = [claims EXCEPT ![Mail] = new]
    BY <1>10, <2>2, RowOperations DEF Claim, Settle, Release
  <2>4. settled' \subseteq Mails /\ UNCHANGED <<acked, read, cursor>>
    BY <1>3, <1>10, <2>1 DEF Claim, Settle, Release, TypeStores
  <2>5. claims' \in [Mails -> Row]
    BY <1>3, <2>3 DEF TypeStores
  <2>6. QED
    BY <1>2, <1>3, <2>4, <2>5 DEF TypeStores
<1>11. CASE Commit
  <2>1. Stream \in Streams
    BY <1>1, <1>11, HandAndTodo DEF Commit, ControlInv, Opened
  <2>2. NewCursor \in [order: Nat, link: 0 .. NumMails]
    BY <1>1 DEF NewCursor, TypeOK
  <2>3. cursor' \in [Streams -> [order: Nat, link: 0 .. NumMails]]
    BY <1>3, <1>11, <2>1, <2>2 DEF Commit, TypeStores
  <2>4. UNCHANGED <<acked, read, claims, settled>>
    BY <1>11 DEF Commit
  <2>5. QED
    BY <1>2, <1>3, <2>3, <2>4 DEF TypeStores
<1>12. CASE Arrive \/ (\E s \in Streams : SignalMissed(s)) \/ BootBus
  BY <1>4, <1>12 DEF Arrive, SignalMissed, BootBus
<1>16. CASE Crash
  <2>1. UNCHANGED <<acked, read, settled>> /\ ForgetStores
    BY <1>16 DEF Crash
  <2>2. cursor' \in [Streams -> [order: Nat, link: 0 .. NumMails]] /\ claims' \in [Mails -> Row]
    BY <1>3, <2>1, Forgotten DEF TypeStores
  <2>3. QED
    BY <1>2, <1>3, <2>1, <2>2 DEF TypeStores
<1>13. CASE RunReturns \/ OpenStream \/ GetMessage \/ NotesDone \/ DeltaSweep \/ SweptMessage
            \/ Duplicate
  BY <1>4, <1>13 DEF RunReturns, OpenStream, GetMessage, NotesDone, DeltaSweep, SweptMessage,
     Duplicate
<1>14. CASE UNCHANGED vars
  BY <1>4, <1>14 DEF vars
<1>15. QED
  BY <1>5, <1>6, <1>7, <1>8, <1>9, <1>10, <1>11, <1>12, <1>13, <1>14, <1>16 DEF Next, Step

\* What an event tells of.
LEMMA EventParts ==
  ASSUME TypeOK, NEW e \in DOMAIN log
  PROVE  /\ Notes(log[e]) \subseteq Mails /\ IsFiniteSet(Notes(log[e]))
         /\ Signals(log[e]) \subseteq Streams /\ IsFiniteSet(Signals(log[e]))
<1>1. log[e] \in Event
  BY DEF TypeOK
<1>2. IsFiniteSet(Mails) /\ IsFiniteSet(Streams)
  BY GraphAssumption, FS_Interval DEF Mails
<1>3. Notes(log[e]) \subseteq Mails /\ Signals(log[e]) \subseteq Streams
  BY <1>1 DEF Notes, Signals, Event
<1>4. QED
  BY <1>2, <1>3, FS_Subset

\* An event is received: its notes are pending, a signal's folder is wanted, and the run,
\* if there is one, goes through all of them.
LEMMA Received ==
  ASSUME TypeOK, NEW e \in DOMAIN log, Receive(e)
  PROVE  /\ pending' \in Seq(Mails) /\ ToSet(pending') = ToSet(pending) \cup Notes(log[e])
         /\ wanted' \in Seq(Streams)
         /\ Notes(log[e]) # {} => ToSet(wanted') = ToSet(wanted)
         /\ \/ /\ pc' = "ack" /\ todo' = todo /\ Notes(log[e]) = {}
               /\ ToSet(wanted') = ToSet(wanted)
            \/ /\ pc' = "stream" /\ todo' \in Seq(Streams)
               /\ ToSet(todo') = {StreamOf[m] : m \in ToSet(pending')} \cup ToSet(wanted')
<1>1. PICK notes : notes = SetToSeq(Notes(log[e]))
  OBVIOUS
<1>2. PICK signals :
        signals = IF notes = <<>> /\ HasLifecycle THEN SetToSeq(Signals(log[e])) ELSE <<>>
  OBVIOUS
<1>3. /\ pending' = pending \o notes
      /\ wanted' = AdjoinAll(wanted, signals)
      /\ IF notes \o signals = <<>>
           THEN pc' = "ack" /\ UNCHANGED todo
           ELSE pc' = "stream" /\ todo' = SyncStreams(pending', wanted')
  BY <1>1, <1>2 DEF Receive
<1>4. PICK N : N = Notes(log[e]) /\ N \subseteq Mails /\ IsFiniteSet(N)
  BY EventParts
<1>5. notes \in Seq(N) /\ ToSet(notes) = N
  BY <1>1, <1>4, SetToSeqElements
<1>6. notes \in Seq(Mails)
  BY <1>4, <1>5
<1>7. signals \in Seq(Streams)
  <2>1. PICK S : S = Signals(log[e]) /\ S \subseteq Streams /\ IsFiniteSet(S)
    BY EventParts
  <2>2. SetToSeq(S) \in Seq(S)
    BY <2>1, SetToSeqElements
  <2>3. SetToSeq(S) \in Seq(Streams)
    BY <2>1, <2>2
  <2>4. QED
    BY <1>2, <2>1, <2>3, Nothing
<1>8. pending \in Seq(Mails) /\ wanted \in Seq(Streams)
  BY DEF TypeOK
<1>9. pending' \in Seq(Mails) /\ ToSet(pending') = ToSet(pending) \cup N
  BY <1>3, <1>5, <1>6, <1>8, JoinedElements
<1>10. wanted' \in Seq(Streams) /\ ToSet(wanted') = ToSet(wanted) \cup ToSet(signals)
  BY <1>3, <1>7, <1>8, AdjoinedElements
<1>11. (notes = <<>>) <=> (N = {})
  BY <1>5, EmptyList
<1>12. N # {} => ToSet(wanted') = ToSet(wanted)
  BY <1>2, <1>10, <1>11, Nothing
<1>13. CASE notes \o signals = <<>>
  <2>1. notes = <<>> /\ signals = <<>>
    BY <1>6, <1>7, <1>13
  <2>2. N = {} /\ ToSet(wanted') = ToSet(wanted)
    BY <1>10, <1>11, <2>1, Nothing
  <2>3. QED
    BY <1>3, <1>4, <1>9, <1>10, <1>13, <2>2
<1>14. CASE notes \o signals # <<>>
  <2>1. pc' = "stream" /\ todo' = SyncStreams(pending', wanted')
    BY <1>3, <1>14
  <2>2. PICK p \in Seq(Mails), w \in Seq(Streams) : p = pending' /\ w = wanted'
    BY <1>9, <1>10
  <2>3. /\ SyncStreams(p, w) \in Seq(Streams)
        /\ ToSet(SyncStreams(p, w)) = {StreamOf[m] : m \in ToSet(p)} \cup ToSet(w)
    BY SyncStreamsElements
  <2>4. todo' \in Seq(Streams)
        /\ ToSet(todo') = {StreamOf[m] : m \in ToSet(pending')} \cup ToSet(wanted')
    BY <2>1, <2>2, <2>3
  <2>5. QED
    BY <1>4, <1>9, <1>10, <1>12, <2>1, <2>4
<1>15. QED
  BY <1>13, <1>14

\* The run and the provider keep their types.
LEMMA TypeProcessStep ==
  ASSUME TypeInv, [Next]_vars
  PROVE  TypeProcess'
<1> USE DEF broker, ack, stores, provider, run, history
<1>1. TypeOK /\ ControlInv
  BY DEF TypeInv
<1>2. DOMAIN log \subseteq DOMAIN log' /\ head \in 0 .. NumMails
  BY <1>1, LogGrows DEF TypeOK
<1>3. TypeProcess
  BY <1>1 DEF TypeOK, TypeProcess
<1>4. <<>> \in Seq(Mails) /\ <<>> \in Seq(Streams) /\ 0 \in 0 .. NumMails
  BY Nothing, GraphAssumption
<1>5. /\ hand # <<>> => Tail(hand) \in Seq(Mails)
      /\ todo # <<>> => Tail(todo) \in Seq(Streams)
  BY <1>1, HandAndTodo
<1>6. CASE UNCHANGED <<provider, pc, run>>
  BY <1>2, <1>3, <1>6 DEF TypeProcess
<1>7. CASE NoRun /\ (UNCHANGED provider \/ ForgetProvider)
  <2>1. /\ up' \in BOOLEAN /\ pending' \in Seq(Mails) /\ wanted' \in Seq(Streams)
        /\ order' \in Nat
    <3>1. CASE ForgetProvider
      BY <1>4, <3>1 DEF ForgetProvider
    <3>2. CASE UNCHANGED provider
      BY <1>3, <3>2 DEF TypeProcess
    <3>3. QED
      BY <1>7, <3>1, <3>2
  <2>2. QED
    BY <1>4, <1>7, <2>1 DEF NoRun, TypeProcess
<1>8. CASE BootHub \/ BootBus
  BY <1>2, <1>3, <1>8 DEF BootHub, BootBus, TypeProcess
<1>9. ASSUME NEW e \in DOMAIN log, Receive(e) PROVE TypeProcess'
  <2>1. /\ pending' \in Seq(Mails) /\ wanted' \in Seq(Streams) /\ todo' \in Seq(Streams)
        /\ pc' \in {"ack", "stream"}
    BY <1>1, <1>3, <1>9, Received DEF TypeProcess
  <2>2. ev' \in DOMAIN log' /\ open' \in BOOLEAN /\ UNCHANGED <<up, order, hand, link, blocked>>
    BY <1>2, <1>9 DEF Receive
  <2>3. QED
    BY <1>2, <1>3, <2>1, <2>2 DEF TypeProcess
<1>10. CASE OpenStream
  <2>1. OfStream(pending, Stream) \in Seq(Mails)
    BY <1>3, NotesOfStream DEF TypeProcess
  <2>2. QED
    BY <1>2, <1>3, <1>10, <2>1 DEF OpenStream, TypeProcess
<1>11. CASE GetMessage
  <2>1. order' \in Nat
    BY <1>3, <1>11 DEF GetMessage, TypeProcess
  <2>2. hand' \in Seq(Mails) /\ pc' \in {"note", "claim"}
    BY <1>3, <1>5, <1>11 DEF GetMessage, TypeProcess
  <2>3. UNCHANGED <<up, pending, wanted, ev, todo, link, blocked, open>>
    BY <1>11 DEF GetMessage
  <2>4. QED
    BY <1>2, <1>3, <2>1, <2>2, <2>3 DEF TypeProcess
<1>12. CASE NotesDone
  <2>1. /\ OfOthers(pending, Stream) \in Seq(Mails)
        /\ Among(wanted, Streams \ {Stream}) \in Seq(Streams)
    BY <1>3, NotesOfStream, AmongElements DEF TypeProcess
  <2>2. Tail(todo) \in Seq(Streams)
    BY <1>1, <1>5, <1>12 DEF NotesDone, ControlInv, Opened
  <2>3. pc' \in {"delta", "stream"} /\ todo' \in Seq(Streams) /\ link' \in 0 .. NumMails
    BY <1>3, <1>4, <1>12, <2>2 DEF NotesDone, NextStream, TypeProcess
  <2>4. pending' \in Seq(Mails) /\ wanted' \in Seq(Streams)
    BY <1>12, <2>1 DEF NotesDone
  <2>5. UNCHANGED <<up, order, ev, hand, blocked, open>>
    BY <1>12 DEF NotesDone
  <2>6. QED
    BY <1>2, <1>3, <2>3, <2>4, <2>5 DEF TypeProcess
<1>13. CASE DeltaSweep
  <2>1. PICK from \in Nat : from = start.link
    BY <1>1 DEF ControlInv
  <2>2. Changed(Stream, from) \in Seq(Mails)
    BY <1>2, ChangedElements
  <2>3. QED
    BY <1>2, <1>3, <1>13, <2>1, <2>2 DEF DeltaSweep, TypeProcess
<1>14. CASE SweptMessage
  <2>1. Tail(todo) \in Seq(Streams)
    BY <1>1, <1>5, <1>14 DEF SweptMessage, ControlInv, Opened
  <2>2. QED
    <3>1. order' \in Nat
      BY <1>3, <1>14 DEF SweptMessage, TypeProcess
    <3>2. pc' \in {"stream", "claim"} /\ todo' \in Seq(Streams) /\ link' \in 0 .. NumMails
      BY <1>3, <1>4, <1>14, <2>1 DEF SweptMessage, NextStream, TypeProcess
    <3>3. UNCHANGED <<up, pending, wanted, ev, hand, blocked, open>>
      BY <1>14 DEF SweptMessage
    <3>4. QED
      BY <1>2, <1>3, <3>1, <3>2, <3>3 DEF TypeProcess
<1>15. CASE Claim \/ Duplicate \/ Settle \/ Commit \/ Release
  <2>1. Tail(hand) \in Seq(Mails)
    BY <1>1, <1>5, <1>15 DEF Claim, Duplicate, Settle, Commit, Release, ControlInv
  <2>2. hand' \in Seq(Mails)
        /\ pc' \in {"idle", "stream", "note", "delta", "swept", "claim", "work", "commit", "ack"}
    BY <1>3, <1>15, <2>1 DEF Claim, Duplicate, Settle, Commit, Release, Terminal, Drawn,
       TypeProcess
  <2>3. blocked' \in BOOLEAN /\ open' \in BOOLEAN
    BY <1>3, <1>15 DEF Claim, Duplicate, Settle, Commit, Release, TypeProcess
  <2>4. UNCHANGED <<up, pending, wanted, order, ev, todo, link>>
    BY <1>15 DEF Claim, Duplicate, Settle, Commit, Release
  <2>5. QED
    BY <1>2, <1>3, <2>2, <2>3, <2>4 DEF TypeProcess
<1>16. CASE RunReturns
  BY <1>2, <1>3, <1>7, <1>16 DEF RunReturns, TypeProcess
<1>17. CASE Crash \/ Ack \/ RunRaises
  BY <1>7, <1>17 DEF Crash, Ack, RunRaises
<1>18. CASE Arrive \/ (\E s \in Streams : SignalMissed(s)) \/ (\E m \in Mails : LeaseElapses(m))
  BY <1>6, <1>18 DEF Arrive, SignalMissed, LeaseElapses
<1>19. CASE UNCHANGED vars
  BY <1>6, <1>19 DEF vars
<1>20. QED
  BY <1>8, <1>9, <1>10, <1>11, <1>12, <1>13, <1>14, <1>15, <1>16, <1>17, <1>18, <1>19
  DEF Next, Step

\* The world keeps its types.
LEMMA TypeStep ==
  ASSUME TypeInv, BehindInv, [Next]_vars
  PROVE  TypeOK'
<1>1. TypeOK
  BY DEF TypeInv
<1>2. log' \in Seq(Event) /\ head' \in 0 .. NumMails
  BY <1>1, LogGrows
<1>3. transport' \in Transports /\ gone' \subseteq Movable
  BY <1>1, Lasting DEF TypeOK
<1>4. QED
  BY <1>2, <1>3, TypeStoresStep, TypeProcessStep DEF TypeOK, TypeStores, TypeProcess

\* What was read from a cursor, and where the run stands in its lists.
LEMMA ControlStep ==
  ASSUME TypeInv, [Next]_vars
  PROVE  ControlInv'
<1> USE DEF broker, ack, stores, provider, run, history
<1>1. TypeOK /\ ControlInv
  BY DEF TypeInv
<1>2. DOMAIN log \subseteq DOMAIN log' /\ \A e \in DOMAIN log : log'[e] = log[e]
  BY <1>1, LogGrows
<1>3. pc = "ack" => Notes(log'[ev]) = Notes(log[ev])
  BY <1>1, <1>2 DEF ControlInv
<1>4. CASE UNCHANGED <<pc, run>> /\ up' = up
  BY <1>1, <1>2, <1>3, <1>4 DEF ControlInv, HeldBack, Opened, Notes
<1>5. CASE NoRun
  <2>1. NoCursor \in [order: Nat, link: 0 .. NumMails]
    BY GraphAssumption DEF NoCursor
  <2>2. QED
    BY <1>5, <2>1 DEF NoRun, ControlInv, Opened
<1>6. CASE BootHub \/ BootBus
  BY <1>1, <1>6 DEF BootHub, BootBus, ControlInv, Opened
<1>7. ASSUME NEW e \in DOMAIN log, Receive(e) PROVE ControlInv'
  <2>1. (pc' = "ack" /\ todo' = todo) \/ pc' = "stream"
    BY <1>1, <1>7, Received
  <2>2. /\ up /\ pc = "idle" /\ ev' = e /\ ~open'
        /\ UNCHANGED <<up, start, hand, link, blocked>>
    BY <1>7 DEF Receive
  <2>3. QED
    BY <1>1, <1>2, <2>1, <2>2 DEF ControlInv, HeldBack, Opened
<1>8. CASE RunReturns
  <2>1. pc = "stream" /\ todo = <<>> /\ (NoRun \/ (pc' = "ack" /\ ~HeldBack /\ UNCHANGED run))
    BY <1>8 DEF RunReturns
  <2>2. UNCHANGED <<broker, provider>>
    BY <1>8 DEF RunReturns
  <2>3. QED
    BY <1>1, <1>2, <1>5, <2>1, <2>2 DEF ControlInv, HeldBack, Opened, Notes
<1>9. CASE OpenStream
  <2>1. cursor[Stream] \in [order: Nat, link: 0 .. NumMails]
    BY <1>1, <1>9, HandAndTodo DEF OpenStream, TypeOK
  <2>2. QED
    BY <1>1, <1>2, <1>9, <2>1 DEF OpenStream, ControlInv, Opened
<1>10. CASE GetMessage \/ NotesDone
  BY <1>1, <1>2, <1>10 DEF GetMessage, NotesDone, NextStream, ControlInv, Opened
<1>11. CASE DeltaSweep
  <2>1. head = 0 => Changed(Stream, start.link) = <<>>
    <3>1. PICK from, s : from = start.link /\ from \in Nat /\ s = Stream
      BY <1>1 DEF ControlInv
    <3>2. /\ Changed(s, from) \in Seq(Mails)
          /\ ToSet(Changed(s, from)) = {m \in from + 1 .. head : StreamOf[m] = s}
      BY <1>1, <3>1, ChangedElements DEF TypeOK
    <3>3. head = 0 => ToSet(Changed(s, from)) = {}
      BY <3>1, <3>2
    <3>4. QED
      BY <3>1, <3>2, <3>3, EmptyList
  <2>2. QED
    BY <1>1, <1>2, <1>11, <2>1 DEF DeltaSweep, ControlInv, Opened
<1>12. CASE SweptMessage
  BY <1>1, <1>2, <1>12 DEF SweptMessage, NextStream, ControlInv, Opened
<1>13. CASE Claim \/ Duplicate \/ Settle \/ Commit \/ Release
  <2>1. UNCHANGED <<up, ev, todo, start, link, log>> /\ pc \in {"claim", "work", "commit"}
    BY <1>13 DEF Claim, Duplicate, Settle, Commit, Release
  <2>2. \/ pc' = "work" /\ hand' = hand
        \/ pc' = "commit" /\ hand' = hand
        \/ pc' = (IF link > 0 THEN "swept" ELSE "note")
    BY <1>13 DEF Claim, Duplicate, Settle, Commit, Release, Terminal, Drawn
  <2>3. link \in Nat
    BY <1>1, GraphAssumption DEF TypeOK
  <2>4. QED
    BY <1>1, <1>2, <2>1, <2>2, <2>3 DEF ControlInv, Opened
<1>14. CASE Crash \/ Ack \/ RunRaises
  BY <1>5, <1>14 DEF Crash, Ack, RunRaises
<1>15. CASE Arrive \/ (\E s \in Streams : SignalMissed(s)) \/ (\E m \in Mails : LeaseElapses(m))
  BY <1>4, <1>15 DEF Arrive, SignalMissed, LeaseElapses
<1>16. CASE UNCHANGED vars
  BY <1>4, <1>16 DEF vars
<1>17. QED
  BY <1>6, <1>7, <1>8, <1>9, <1>10, <1>11, <1>12, <1>13, <1>14, <1>15, <1>16 DEF Next, Step

----------------------------------------------------------------------------
(* The rows of the dedupe store.                                           *)

\* A claim that bars others.
Barred(row) == ~row.done /\ ~Claimable(row)

\* What the operations make of a row.
LEMMA RowMeaning ==
  ASSUME NEW row \in Row
  PROVE  /\ Attempted(Claimed(row)).done = row.done
         /\ MarkedDone(row).done
         /\ Released(row).done = row.done /\ ~Barred(Released(row))
         /\ LET stale == [row EXCEPT !.fresh = FALSE]
            IN stale.done = row.done /\ (Barred(stale) => Barred(row))
         /\ ~Barred(NoRow)
<1>1. PICK a, b, c, d : row = [claimed |-> a, done |-> b, attempts |-> c, fresh |-> d]
                        /\ a \in BOOLEAN /\ b \in BOOLEAN /\ c \in Nat /\ d \in BOOLEAN
  BY DEF Row
<1>2. QED
  BY <1>1 DEF Attempted, Claimed, MarkedDone, Released, Barred, Claimable, ClaimableLeased,
     ClaimableUntimed, NoRow

\* A mail's row, when the one of the mail in hand is written.
LEMMA RowsWritten ==
  ASSUME TypeOK, NEW mail \in Mails, NEW row \in Row, claims' = [claims EXCEPT ![mail] = row]
  PROVE  /\ claims'[mail] = row
         /\ \A m \in Mails : m # mail => claims'[m] = claims[m]
  BY DEF TypeOK

\* The row of the mail in hand is claimed, marked done or released.
LEMMA RowOfMail ==
  ASSUME TypeOK, ControlInv, Claim \/ Settle \/ Release
  PROVE  \E mail \in Mails, row \in Row, new \in Row :
           /\ mail = Mail /\ row = claims[mail] /\ claims'[mail] = new
           /\ \A m \in Mails : m # mail => claims'[m] = claims[m]
           /\ \/ Claim /\ new = Attempted(Claimed(row))
              \/ Settle /\ new = MarkedDone(row)
              \/ Release /\ new = Released(row)
<1>1. PICK mail \in Mails : mail = Mail
  BY HandAndTodo DEF Claim, Settle, Release, ControlInv
<1>2. PICK row \in Row : row = claims[mail]
  BY DEF TypeOK
<1>3. PICK new \in Row : /\ claims' = [claims EXCEPT ![mail] = new]
                         /\ \/ Claim /\ new = Attempted(Claimed(row))
                            \/ Settle /\ new = MarkedDone(row)
                            \/ Release /\ new = Released(row)
  <2>1. CASE Claim
    BY <1>1, <1>2, <2>1, RowOperations DEF Claim
  <2>2. CASE Settle
    BY <1>1, <1>2, <2>2, RowOperations DEF Settle
  <2>3. CASE Release
    BY <1>1, <1>2, <2>3, RowOperations DEF Release
  <2>4. QED
    BY <2>1, <2>2, <2>3
<1>4. claims'[mail] = new /\ \A m \in Mails : m # mail => claims'[m] = claims[m]
  BY <1>3, RowsWritten
<1>5. QED
  BY <1>1, <1>2, <1>3, <1>4

\* A row whose lease has elapsed.
LEMMA RowElapsed ==
  ASSUME TypeOK, NEW m \in Mails, LeaseElapses(m)
  PROVE  /\ claims'[m].done = claims[m].done
         /\ Barred(claims'[m]) => Barred(claims[m])
         /\ \A n \in Mails : n # m => claims'[n] = claims[n]
<1>1. PICK row \in Row : row = claims[m]
  BY DEF TypeOK
<1>2. PICK stale \in Row : stale = [row EXCEPT !.fresh = FALSE]
  BY RowOperations
<1>3. claims' = [claims EXCEPT ![m] = stale]
  BY <1>1, <1>2 DEF LeaseElapses
<1>4. stale.done = row.done /\ (Barred(stale) => Barred(row))
  BY <1>1, <1>2, RowMeaning
<1>5. claims'[m] = stale /\ \A n \in Mails : n # m => claims'[n] = claims[n]
  BY <1>3, RowsWritten
<1>6. QED
  BY <1>1, <1>4, <1>5

\* The rows stay true.
LEMMA RowsStep ==
  ASSUME TypeInv, RowsInv, [Next]_vars
  PROVE  RowsInv'
<1> USE DEF broker, ack, stores, provider, run, history
<1>1. TypeOK /\ ControlInv /\ claims \in [Mails -> Row]
      /\ cursor \in [Streams -> [order: Nat, link: 0 .. NumMails]]
  BY DEF TypeInv, TypeOK
<1>2. \A m \in Mails : claims[m].done => m \in settled
  BY DEF RowsInv
<1>3. pc = "commit" => Mail \in settled \cup skipped
  BY DEF RowsInv
<1>4. CASE UNCHANGED <<claims, settled, skipped, pc, hand>>
  BY <1>2, <1>3, <1>4 DEF RowsInv, Mail
<1>5. CASE UNCHANGED <<claims, settled>> /\ pc' # "commit"
  BY <1>2, <1>5 DEF RowsInv
<1>6. CASE Crash \/ RunRaises
  <2>1. settled' = settled /\ pc' # "commit" /\ (ForgetStores \/ UNCHANGED <<cursor, claims>>)
    BY <1>6 DEF Crash, RunRaises, NoRun
  <2>2. \A m \in Mails : claims'[m] = claims[m] \/ ~claims'[m].done
    BY <1>1, <2>1, Forgotten
  <2>3. QED
    BY <1>2, <2>1, <2>2 DEF RowsInv
<1>7. CASE Duplicate
  <2>1. Mail \in Mails
    BY <1>1, <1>7, HandAndTodo DEF Duplicate, ControlInv
  <2>2. UNCHANGED <<claims, settled>> /\ (pc' = "commit" => hand' = hand)
        /\ (claims[Mail].done \/ Mail \in skipped')
    BY <1>7 DEF Duplicate, Terminal, Drawn
  <2>3. QED
    BY <1>2, <2>1, <2>2 DEF RowsInv, Mail
<1>8. CASE Claim \/ Settle \/ Release
  <2>1. PICK mail \in Mails, row \in Row, new \in Row :
           /\ mail = Mail /\ row = claims[mail] /\ claims'[mail] = new
           /\ \A m \in Mails : m # mail => claims'[m] = claims[m]
           /\ \/ Claim /\ new = Attempted(Claimed(row))
              \/ Settle /\ new = MarkedDone(row)
              \/ Release /\ new = Released(row)
    BY <1>1, <1>8, RowOfMail
  <2>2. CASE Settle
    <3>1. settled' = settled \cup {mail} /\ (pc' = "commit" => hand' = hand)
      BY <2>1, <2>2 DEF Settle, Terminal, Drawn
    <3>2. QED
      BY <1>2, <2>1, <3>1 DEF RowsInv, Mail
  <2>3. CASE ~Settle
    <3>1. settled' = settled /\ pc' # "commit"
      BY <2>1, <2>3 DEF Claim, Release, Drawn
    <3>2. new.done = row.done
      BY <2>1, <2>3, RowMeaning
    <3>3. QED
      BY <1>2, <2>1, <3>1, <3>2 DEF RowsInv
  <2>4. QED
    BY <2>2, <2>3
<1>9. ASSUME NEW m \in Mails, LeaseElapses(m) PROVE RowsInv'
  <2>1. \A n \in Mails : claims'[n].done = claims[n].done
    BY <1>1, <1>9, RowElapsed
  <2>2. UNCHANGED <<settled, skipped, pc, hand>>
    BY <1>9 DEF LeaseElapses
  <2>3. QED
    BY <1>2, <1>3, <2>1, <2>2 DEF RowsInv, Mail
<1>10. CASE RunReturns \/ Ack \/ OpenStream \/ GetMessage \/ NotesDone \/ DeltaSweep
            \/ SweptMessage
  BY <1>5, <1>10 DEF RunReturns, NoRun, Ack, OpenStream, GetMessage, NotesDone, NextStream,
     DeltaSweep, SweptMessage
<1>11. ASSUME NEW e \in DOMAIN log, Receive(e) PROVE RowsInv'
  BY <1>5, <1>11 DEF Receive
<1>12. CASE Commit
  BY <1>5, <1>12 DEF Commit, Drawn
<1>13. CASE BootHub \/ BootBus \/ Arrive \/ \E s \in Streams : SignalMissed(s)
  BY <1>4, <1>13 DEF BootHub, BootBus, Arrive, SignalMissed
<1>14. CASE UNCHANGED vars
  BY <1>4, <1>14 DEF vars
<1>15. QED
  BY <1>6, <1>7, <1>8, <1>9, <1>10, <1>11, <1>12, <1>13, <1>14 DEF Next, Step

----------------------------------------------------------------------------
(* The notes of the event in work.                                         *)

\* A mail stays accounted for when the run and the pending notes stay.
LEMMA KeptFrame ==
  ASSUME TypeInv, [Next]_vars, UNCHANGED <<pending, todo, hand, link, pc>>, NEW m, Kept(m)
  PROVE  Kept(m)'
<1>1. Past \subseteq Past'
  BY Lasting DEF TypeInv, Past
<1>2. QED
  BY <1>1 DEF Kept, Noting, Opened, Stream

\* The notes of an event are the same after a step.
LEMMA SameNotes ==
  ASSUME TypeInv, [Next]_vars
  PROVE  /\ \A e \in DOMAIN log : e \in DOMAIN log' /\ Notes(log'[e]) = Notes(log[e])
         /\ pc # "idle" => ev \in DOMAIN log
<1>1. TypeOK /\ ControlInv
  BY DEF TypeInv
<1>2. QED
  BY <1>1, LogGrows DEF ControlInv, Notes

\* The mail in hand is let go: of the notes, only it may be lost sight of.
LEMMA KeptDrawn ==
  ASSUME TypeInv, [Next]_vars, hand # <<>>, pc \in {"note", "claim", "work", "commit"},
         pc' \in {"note", "claim", "work", "commit", "swept"}, pc' = "swept" => link > 0,
         hand' = hand \/ (hand' = Tail(hand) /\ Mail \in Past'),
         UNCHANGED <<pending, todo, link>>, NEW m, Kept(m)
  PROVE  Kept(m)'
<1>1. Past \subseteq Past'
  BY Lasting DEF TypeInv, Past
<1>2. ToSet(hand) = {Mail} \cup ToSet(Tail(hand))
  BY HandAndTodo DEF TypeInv
<1>3. m \in ToSet(hand) => m \in ToSet(hand') \/ m \in Past'
  BY <1>2
<1>4. Noting => Noting'
  BY DEF Noting
<1>5. Opened
  BY DEF Opened
<1>6. CASE m \in Past
  BY <1>1, <1>6 DEF Kept
<1>7. CASE Noting /\ m \in ToSet(hand)
  BY <1>3, <1>4, <1>7 DEF Kept
<1>8. CASE m \in ToSet(pending) /\ StreamOf[m] \in ToSet(todo) /\ StreamOf[m] # Stream
  BY <1>8 DEF Kept, Stream
<1>9. QED
  BY <1>5, <1>6, <1>7, <1>8 DEF Kept

\* The pipeline lets go of a mail when it is settled or refused, or else releases it.
LEMMA LetGoSettled ==
  ASSUME TypeInv, RowsInv, Claim \/ Duplicate \/ Settle \/ Commit, hand' # hand
  PROVE  Mail \in settled' \cup skipped'
<1> USE DEF stores
<1>1. TypeOK /\ ControlInv /\ claims \in [Mails -> Row]
  BY DEF TypeInv, TypeOK
<1>2. CASE Claim
  BY <1>2 DEF Claim, run
<1>3. CASE Duplicate
  <2>1. Mail \in Mails
    BY <1>1, <1>3, HandAndTodo DEF Duplicate, ControlInv
  <2>2. QED
    BY <1>3, <2>1 DEF Duplicate, RowsInv
<1>4. CASE Settle
  BY <1>4 DEF Settle
<1>5. CASE Commit
  BY <1>5 DEF Commit, RowsInv, history
<1>6. QED
  BY <1>2, <1>3, <1>4, <1>5

\* The notes of the event in work stay accounted for.
LEMMA KeptStep ==
  ASSUME TypeInv, RowsInv, KeptInv, [Next]_vars
  PROVE  KeptInv'
<1> USE DEF broker, ack, stores, provider, run, history
<1>1. TypeOK /\ ControlInv
  BY DEF TypeInv
<1>2. /\ \A e \in DOMAIN log : e \in DOMAIN log' /\ Notes(log'[e]) = Notes(log[e])
      /\ pc # "idle" => ev \in DOMAIN log
  BY SameNotes
<1>3. transport' = transport /\ Past \subseteq Past'
  BY <1>1, Lasting DEF Past
<1>4. ASSUME pc # "idle", ev' = ev, open => open',
             \A m : Kept(m) => Kept(m)'
      PROVE  KeptInv'
  BY <1>2, <1>3, <1>4 DEF KeptInv
<1>5. CASE UNCHANGED <<pc, run, pending>>
  <2>1. CASE pc = "idle"
    BY <1>5, <2>1 DEF KeptInv
  <2>2. CASE pc # "idle"
    BY <1>4, <1>5, <2>2, KeptFrame
  <2>3. QED
    BY <2>1, <2>2
<1>6. CASE pc' = "idle"
  BY <1>6 DEF KeptInv
<1>7. ASSUME NEW e \in DOMAIN log, Receive(e) PROVE KeptInv'
  <2>1. ev' = e /\ log' = log
    BY <1>7 DEF Receive
  <2>2. ToSet(pending') = ToSet(pending) \cup Notes(log[e])
    BY <1>1, <1>7, Received
  <2>3. \/ Notes(log[e]) = {}
        \/ /\ pc' = "stream"
           /\ ToSet(todo') = {StreamOf[m] : m \in ToSet(pending')} \cup ToSet(wanted')
    BY <1>1, <1>7, Received
  <2>4. QED
    BY <2>1, <2>2, <2>3 DEF KeptInv, Kept, Opened
<1>8. CASE RunReturns
  <2>1. pc = "stream" /\ (pc' = "idle" \/ (pc' = "ack" /\ UNCHANGED <<run, pending>>))
    BY <1>8 DEF RunReturns, NoRun
  <2>2. ASSUME pc' = "ack", UNCHANGED <<run, pending>> PROVE \A m : Kept(m) => Kept(m)'
    BY <1>3, <2>1, <2>2 DEF Kept, Noting, Opened, Stream
  <2>3. QED
    BY <1>4, <1>6, <2>1, <2>2
<1>9. CASE OpenStream
  <2>1. ToSet(OfStream(pending, Stream)) = {m \in ToSet(pending) : StreamOf[m] = Stream}
    BY <1>1, NotesOfStream DEF TypeOK
  <2>2. /\ pc = "stream" /\ pc' = "note" /\ hand' = OfStream(pending, Stream) /\ link = 0
        /\ UNCHANGED <<pending, todo, ev, link, open>>
    BY <1>1, <1>9 DEF OpenStream, ControlInv
  <2>3. \A m : Kept(m) => Kept(m)'
    BY <1>3, <2>1, <2>2 DEF Kept, Noting, Opened, Stream
  <2>4. QED
    BY <1>4, <2>2, <2>3
<1>10. CASE GetMessage
  <2>1. /\ pc = "note" /\ hand # <<>> /\ pc' \in {"note", "claim"}
        /\ hand' = hand \/ (hand' = Tail(hand) /\ Mail \in gone)
        /\ UNCHANGED <<pending, todo, link, ev, open, gone>>
    BY <1>10 DEF GetMessage
  <2>2. Mail \in gone => Mail \in Past'
    BY <1>3 DEF Past
  <2>3. \A m : Kept(m) => Kept(m)'
    BY <2>1, <2>2, KeptDrawn
  <2>4. QED
    BY <1>4, <2>1, <2>3
<1>11. CASE NotesDone
  <2>1. ToSet(OfOthers(pending, Stream)) = {m \in ToSet(pending) : StreamOf[m] # Stream}
    BY <1>1, NotesOfStream DEF TypeOK
  <2>2. todo # <<>> /\ ToSet(todo) = {Stream} \cup ToSet(Tail(todo))
    BY <1>1, <1>11, HandAndTodo DEF NotesDone, ControlInv, Opened
  <2>3. /\ pc = "note" /\ hand = <<>> /\ hand' = hand /\ pending' = OfOthers(pending, Stream)
        /\ \/ pc' = "delta" /\ todo' = todo
           \/ pc' = "stream" /\ todo' = Tail(todo)
        /\ UNCHANGED <<ev, open>>
    BY <1>11 DEF NotesDone, NextStream
  <2>4. ASSUME NEW m, Kept(m) PROVE Kept(m)'
    <3>1. \/ m \in Past
          \/ m \in ToSet(pending) /\ StreamOf[m] \in ToSet(todo) /\ StreamOf[m] # Stream
      BY <2>3, <2>4, Nothing DEF Kept, Opened
    <3>2. QED
      BY <1>3, <2>1, <2>2, <2>3, <3>1 DEF Kept, Opened, Stream
  <2>5. QED
    BY <1>4, <2>3, <2>4
<1>12. CASE DeltaSweep \/ SweptMessage
  <2>1. todo # <<>> /\ ToSet(todo) = {Stream} \cup ToSet(Tail(todo))
    BY <1>1, <1>12, HandAndTodo DEF DeltaSweep, SweptMessage, ControlInv, Opened
  <2>2. /\ pc \in {"delta", "swept"}
        /\ \/ pc' \in {"swept", "claim"} /\ todo' = todo
           \/ pc' = "stream" /\ todo' = Tail(todo)
        /\ UNCHANGED <<pending, ev, open>>
    BY <1>12 DEF DeltaSweep, SweptMessage, NextStream
  <2>3. ASSUME NEW m, Kept(m) PROVE Kept(m)'
    BY <1>3, <2>1, <2>2, <2>3 DEF Kept, Noting, Opened, Stream
  <2>4. QED
    BY <1>4, <2>2, <2>3
<1>13. CASE Claim \/ Duplicate \/ Settle \/ Commit
  <2>1. /\ pc \in {"claim", "work", "commit"} /\ hand # <<>>
        /\ pc' \in {"work", "commit", "note", "swept"} /\ (pc' = "swept" => link > 0)
        /\ hand' = hand \/ hand' = Tail(hand)
        /\ UNCHANGED <<pending, todo, link, ev, open>>
    BY <1>1, <1>13 DEF Claim, Duplicate, Settle, Commit, Terminal, Drawn, ControlInv
  <2>2. hand' # hand => Mail \in Past'
    BY <1>1, <1>13, LetGoSettled DEF Past
  <2>3. \A m : Kept(m) => Kept(m)'
    BY <2>1, <2>2, KeptDrawn
  <2>4. QED
    BY <1>4, <2>1, <2>3
<1>14. CASE Release
  <2>1. /\ pc = "work" /\ hand # <<>> /\ (pc' = "note" \/ (pc' = "swept" /\ link > 0))
        /\ hand' = Tail(hand) /\ open'
        /\ UNCHANGED <<pending, todo, link, ev>>
    BY <1>1, <1>14 DEF Release, Drawn, ControlInv
  <2>2. transport = "hub" => Mail \in Past'
    BY <1>14 DEF Release, Past
  <2>3. transport = "hub" => \A m : Kept(m) => Kept(m)'
    BY <2>1, <2>2, KeptDrawn
  <2>4. QED
    BY <1>2, <1>3, <2>1, <2>3 DEF KeptInv
<1>15. CASE Crash \/ Ack \/ RunRaises
  BY <1>6, <1>15 DEF Crash, Ack, RunRaises, NoRun
<1>16. CASE Arrive \/ (\E s \in Streams : SignalMissed(s)) \/ (\E m \in Mails : LeaseElapses(m))
            \/ BootHub \/ BootBus
  BY <1>5, <1>16 DEF Arrive, SignalMissed, LeaseElapses, BootHub, BootBus
<1>17. CASE UNCHANGED vars
  BY <1>5, <1>17 DEF vars
<1>18. QED
  BY <1>7, <1>8, <1>9, <1>10, <1>11, <1>12, <1>13, <1>14, <1>15, <1>16, <1>17 DEF Next, Step

----------------------------------------------------------------------------
(* The events behind the consumer.                                         *)

\* A run that is over has dealt with the notes of its event.
LEMMA RunOver ==
  ASSUME TypeInv, KeptInv, pc \in {"stream", "ack"}, todo = <<>>,
         transport = "hub" \/ ~HeldBack
  PROVE  Notes(log[ev]) \subseteq Past
<1>1. ToSet(todo) = {} /\ ToSet(hand) = {}
  BY Nothing DEF TypeInv, ControlInv
<1>2. transport \in {"hub", "bus"}
  BY GraphAssumption DEF TypeInv, TypeOK
<1>3. CASE transport = "hub" \/ ~open
  BY <1>1, <1>3 DEF KeptInv, Kept
<1>4. CASE Notes(log[ev]) = {}
  BY <1>4
<1>5. QED
  BY <1>3, <1>4 DEF HeldBack

\* What is dealt with stays so, whatever is published.
LEMMA PastLasts ==
  ASSUME TypeInv, [Next]_vars, NEW e \in DOMAIN log, Notes(log[e]) \subseteq Past
  PROVE  Notes(log'[e]) \subseteq Past'
  BY Lasting, SameNotes DEF TypeInv, Past

\* What is acknowledged has been dealt with.
LEMMA AckedStep ==
  ASSUME TypeInv, KeptInv, BehindInv, AckedIsSettled, [Next]_vars
  PROVE  AckedIsSettled'
<1> USE DEF broker, ack, stores, provider, run, history
<1>1. TypeOK /\ ControlInv /\ acked \subseteq DOMAIN log
  BY DEF TypeInv, TypeOK
<1>2. \A e \in acked : Notes(log[e]) \subseteq Past
  BY DEF AckedIsSettled, Past
<1>3. CASE acked' = acked
  <2>1. \A e \in acked : Notes(log'[e]) \subseteq Past'
    BY <1>1, <1>2, PastLasts
  <2>2. QED
    BY <1>3, <2>1 DEF AckedIsSettled, Past
<1>4. CASE Ack
  <2>1. pc = "ack" /\ todo = <<>> /\ ~HeldBack /\ ev \in DOMAIN log
    BY <1>1, <1>4 DEF Ack, ControlInv
  <2>2. Notes(log[ev]) \subseteq Past
    BY <2>1, RunOver
  <2>3. ASSUME NEW e \in acked' PROVE e \in DOMAIN log /\ Notes(log[e]) \subseteq Past
    <3>1. CASE transport = "hub"
      <4>1. e \in 1 .. ev /\ read = ev /\ up
        BY <1>1, <1>4, <2>1, <3>1, <2>3 DEF Ack, BehindInv, ControlInv
      <4>2. DOMAIN log = 1 .. Len(log) /\ Len(log) \in Nat
        BY <1>1 DEF TypeOK
      <4>3. e \in DOMAIN log
        BY <2>1, <4>1, <4>2
      <4>4. QED
        BY <2>2, <3>1, <4>1, <4>3 DEF BehindInv
    <3>2. CASE transport # "hub"
      BY <1>1, <1>2, <1>4, <2>1, <2>2, <2>3, <3>2 DEF Ack
    <3>3. QED
      BY <3>1, <3>2
  <2>4. \A e \in acked' : Notes(log'[e]) \subseteq Past'
    BY <2>3, PastLasts
  <2>5. QED
    BY <2>4 DEF AckedIsSettled, Past
<1>5. CASE Arrive \/ (\E s \in Streams : SignalMissed(s)) \/ (\E m \in Mails : LeaseElapses(m))
            \/ Crash \/ BootHub \/ BootBus \/ RunRaises \/ Release
  BY <1>3, <1>5 DEF Arrive, SignalMissed, LeaseElapses, Crash, BootHub, BootBus, RunRaises,
     Release
<1>6. CASE (\E e \in DOMAIN log : Receive(e)) \/ RunReturns \/ OpenStream \/ GetMessage
            \/ NotesDone \/ DeltaSweep
  BY <1>3, <1>6 DEF Receive, RunReturns, OpenStream, GetMessage, NotesDone, DeltaSweep
<1>7. CASE SweptMessage \/ Claim \/ Duplicate \/ Settle \/ Commit
  BY <1>3, <1>7 DEF SweptMessage, Claim, Duplicate, Settle, Commit
<1>8. CASE UNCHANGED vars
  BY <1>3, <1>8 DEF vars
<1>9. QED
  BY <1>4, <1>5, <1>6, <1>7, <1>8 DEF Next, Step

\* The consumer of a partition takes the events in their order.
LEMMA BehindStep ==
  ASSUME TypeInv, KeptInv, BehindInv, AckedIsSettled, [Next]_vars
  PROVE  BehindInv'
<1> USE DEF broker, ack, stores, provider, run, history
<1> SUFFICES ASSUME transport' = "hub"
             PROVE  /\ \E k \in 0 .. Len(log') : acked' = 1 .. k
                    /\ pc' # "idle" => read' = ev'
                    /\ up' => \A e \in 1 .. read' : e # ev' => Notes(log'[e]) \subseteq Past'
  BY DEF BehindInv
<1>1. TypeOK /\ ControlInv
  BY DEF TypeInv
<1>2. transport = "hub"
  BY <1>1, Lasting
<1>3. PICK k \in 0 .. Len(log) : acked = 1 .. k
  BY <1>2 DEF BehindInv
<1>4. /\ pc # "idle" => read = ev
      /\ up => \A e \in 1 .. read : e # ev => Notes(log[e]) \subseteq Past
  BY <1>2 DEF BehindInv
<1>5. /\ Len(log) \in Nat /\ Len(log) <= Len(log') /\ Len(log') \in Nat
      /\ DOMAIN log = 1 .. Len(log) /\ read \in 0 .. Len(log)
      /\ k \in Nat /\ k \in 0 .. Len(log')
  BY <1>1, LogGrows DEF TypeOK
<1>6. Checkpoint = k
  BY <1>3, <1>5, CheckpointIsLast
<1>7. \A e \in 1 .. k : Notes(log[e]) \subseteq Past
  BY <1>3 DEF AckedIsSettled, Past
<1>8. \A e \in 1 .. Len(log) : Notes(log[e]) \subseteq Past => Notes(log'[e]) \subseteq Past'
  BY <1>5, PastLasts
<1>9. CASE UNCHANGED <<acked, read, ev, up>> /\ (pc' = "idle" => pc = "idle")
           /\ (pc = "idle" => pc' = "idle")
  BY <1>3, <1>4, <1>5, <1>8, <1>9
<1>10. CASE UNCHANGED <<acked, pc>> /\ pc = "idle" /\ ev' = ev /\ read' = Checkpoint
  BY <1>3, <1>5, <1>6, <1>7, <1>8, <1>10
<1>11. CASE Crash
  BY <1>3, <1>5, <1>11 DEF Crash, NoRun, ForgetProvider
<1>12. CASE BootHub
  BY <1>1, <1>10, <1>12 DEF BootHub, ControlInv
<1>13. CASE RunRaises
  BY <1>2, <1>3, <1>5, <1>6, <1>7, <1>8, <1>13 DEF RunRaises, NoRun
<1>14. ASSUME NEW e \in DOMAIN log, Receive(e)
       PROVE  /\ acked' = acked /\ read' = ev'
              /\ up' => \A f \in 1 .. read' : f # ev' => Notes(log'[f]) \subseteq Past'
  <2>1. /\ up /\ ev = 0 /\ ev' = e /\ e = read + 1 /\ read' = e /\ acked' = acked
    BY <1>1, <1>2, <1>14 DEF Receive, Handed, ControlInv
  <2>2. ASSUME NEW f \in 1 .. e, f # e PROVE f \in 1 .. read /\ f # ev /\ f \in 1 .. Len(log)
    BY <1>5, <2>1, <2>2
  <2>3. QED
    BY <1>4, <1>8, <2>1, <2>2
<1>15. CASE RunReturns
  <2>1. CASE HeldBack
    <3>1. /\ pc = "stream" /\ todo = <<>> /\ NoRun /\ UNCHANGED <<acked, read, up, log>>
      BY <1>15, <2>1 DEF RunReturns
    <3>2. Notes(log[ev]) \subseteq Past
      BY <1>2, <3>1, RunOver
    <3>3. \A e \in 1 .. read : up => Notes(log[e]) \subseteq Past
      BY <1>4, <3>2
    <3>4. \A e \in 1 .. read : e \in 1 .. Len(log)
      BY <1>5
    <3>5. QED
      BY <1>3, <1>5, <1>8, <3>1, <3>3, <3>4 DEF NoRun
  <2>2. CASE ~HeldBack
    BY <1>9, <1>15, <2>2 DEF RunReturns
  <2>3. QED
    BY <2>1, <2>2
<1>16. CASE Ack
  <2>1. pc = "ack" /\ todo = <<>> /\ ~HeldBack /\ ev \in DOMAIN log /\ read = ev /\ up
    BY <1>1, <1>4, <1>16 DEF Ack, ControlInv
  <2>2. Notes(log[ev]) \subseteq Past
    BY <2>1, RunOver
  <2>3. acked' = 1 .. ev /\ ev' = 0 /\ pc' = "idle" /\ UNCHANGED <<read, up, log>>
    BY <1>2, <1>16 DEF Ack, NoRun
  <2>4. ev \in 0 .. Len(log')
    BY <1>5, <2>1, <2>3
  <2>5. \A e \in 1 .. read : e \in 1 .. Len(log) /\ Notes(log[e]) \subseteq Past
    BY <1>4, <1>5, <2>1, <2>2
  <2>6. QED
    BY <1>8, <2>3, <2>4, <2>5
<1>17. CASE Arrive \/ (\E s \in Streams : SignalMissed(s)) \/ (\E m \in Mails : LeaseElapses(m))
  BY <1>9, <1>17 DEF Arrive, SignalMissed, LeaseElapses
<1>18. CASE BootBus
  BY <1>2, <1>18 DEF BootBus
<1>19. CASE OpenStream \/ GetMessage \/ NotesDone \/ DeltaSweep \/ SweptMessage
  BY <1>9, <1>19 DEF OpenStream, GetMessage, NotesDone, NextStream, DeltaSweep, SweptMessage
<1>20. CASE Claim \/ Duplicate \/ Settle \/ Commit \/ Release
  BY <1>9, <1>20 DEF Claim, Duplicate, Settle, Commit, Release, Terminal, Drawn
<1>21. CASE UNCHANGED vars
  BY <1>9, <1>21 DEF vars
<1>22. ASSUME NEW e \in DOMAIN log, Receive(e)
       PROVE  /\ \E i \in 0 .. Len(log') : acked' = 1 .. i
              /\ pc' # "idle" => read' = ev'
              /\ up' => \A f \in 1 .. read' : f # ev' => Notes(log'[f]) \subseteq Past'
  BY <1>3, <1>5, <1>14, <1>22
<1>23. QED
  BY <1>11, <1>12, <1>13, <1>15, <1>16, <1>17, <1>18, <1>19, <1>20, <1>21, <1>22 DEF Next, Step

----------------------------------------------------------------------------
(* Sweeps, and the deltaLinks they store.                                  *)

\* The folders of requested sweeps are still to come, and a run for notes makes none.
LEMMA SweepsStep ==
  ASSUME TypeInv, SweepsInv, [Next]_vars
  PROVE  SweepsInv'
<1> USE DEF broker, ack, stores, provider, run, history
<1> SUFFICES ASSUME transport' = "bus"
             PROVE  /\ ToSet(wanted') \subseteq ToSet(IF Sweeping' THEN Tail(todo') ELSE todo')
                    /\ pc' # "idle" /\ Notes(log'[ev']) # {} => wanted' = <<>> /\ ~Sweeping'
  BY DEF SweepsInv
<1>1. TypeOK /\ ControlInv
  BY DEF TypeInv
<1>2. transport = "bus"
  BY <1>1, Lasting
<1>3. /\ ToSet(wanted) \subseteq ToSet(IF Sweeping THEN Tail(todo) ELSE todo)
      /\ pc # "idle" /\ Notes(log[ev]) # {} => wanted = <<>> /\ ~Sweeping
  BY <1>2 DEF SweepsInv
<1>4. /\ \A e \in DOMAIN log : Notes(log'[e]) = Notes(log[e])
      /\ pc # "idle" => ev \in DOMAIN log
  BY SameNotes
<1>5. pc = "idle" => ~Sweeping /\ wanted = <<>>
  <2>1. pc = "idle" => ~Sweeping /\ todo = <<>>
    BY <1>1 DEF Sweeping, ControlInv
  <2>2. wanted \in Seq(Streams)
    BY <1>1 DEF TypeOK
  <2>3. QED
    BY <1>3, <2>1, <2>2, Nothing, EmptyList
<1>6. CASE wanted' = wanted /\ UNCHANGED <<ev, todo>> /\ Sweeping' = Sweeping
           /\ (pc = "idle" => pc' = "idle")
  BY <1>3, <1>4, <1>6
<1>7. CASE wanted' = <<>> /\ ~Sweeping' /\ pc' = "idle"
  BY <1>7, Nothing
<1>8. ASSUME NEW e \in DOMAIN log, Receive(e)
      PROVE  /\ ToSet(wanted') \subseteq ToSet(todo') /\ ~Sweeping' /\ ev' = e /\ log' = log
             /\ Notes(log[e]) # {} => wanted' = <<>>
  <2>1. /\ pc = "idle" /\ ev' = e /\ log' = log /\ link' = link /\ link = 0 /\ todo = <<>>
        /\ wanted = <<>>
    BY <1>1, <1>5, <1>8 DEF Receive, ControlInv
  <2>2. /\ wanted' \in Seq(Streams)
        /\ Notes(log[e]) # {} => ToSet(wanted') = ToSet(wanted)
        /\ \/ pc' = "ack" /\ ToSet(wanted') = ToSet(wanted)
           \/ pc' = "stream" /\ ToSet(wanted') \subseteq ToSet(todo')
    BY <1>1, <1>8, Received
  <2>3. Notes(log[e]) # {} => wanted' = <<>>
    BY <2>1, <2>2, Nothing, EmptyList
  <2>4. ToSet(wanted') \subseteq ToSet(todo') /\ ~Sweeping'
    BY <2>1, <2>2, Nothing DEF Sweeping
  <2>5. QED
    BY <2>1, <2>3, <2>4
<1>9. ASSUME NEW e \in DOMAIN log, Receive(e)
      PROVE  /\ ToSet(wanted') \subseteq ToSet(IF Sweeping' THEN Tail(todo') ELSE todo')
             /\ pc' # "idle" /\ Notes(log'[ev']) # {} => wanted' = <<>> /\ ~Sweeping'
  BY <1>8, <1>9
<1>10. CASE RunReturns
  <2>1. pc = "stream" /\ todo = <<>> /\ wanted' = wanted
        /\ (NoRun \/ (pc' = "ack" /\ UNCHANGED run))
    <3>1. CASE HeldBack
      BY <1>10, <3>1 DEF RunReturns
    <3>2. CASE ~HeldBack
      BY <1>10, <3>2 DEF RunReturns
    <3>3. QED
      BY <3>1, <3>2
  <2>2. link = 0 /\ ~Sweeping
    BY <1>1, <2>1 DEF ControlInv, Sweeping
  <2>3. ToSet(wanted) = {}
    BY <1>3, <2>1, <2>2, Nothing
  <2>4. wanted = <<>>
    BY <1>1, <2>3, EmptyList DEF TypeOK
  <2>5. QED
    BY <1>6, <1>7, <2>1, <2>2, <2>4 DEF NoRun, Sweeping
<1>11. CASE Ack
  <2>1. pc = "ack" /\ todo = <<>> /\ ~Sweeping /\ wanted' = wanted /\ NoRun
    BY <1>1, <1>11 DEF Ack, ControlInv, Sweeping
  <2>2. ToSet(wanted) = {}
    BY <1>3, <2>1, Nothing
  <2>3. wanted = <<>>
    BY <1>1, <2>2, EmptyList DEF TypeOK
  <2>4. QED
    BY <1>7, <2>1, <2>3 DEF NoRun, Sweeping
<1>12. CASE Crash \/ RunRaises
  BY <1>2, <1>7, <1>12 DEF Crash, RunRaises, NoRun, ForgetProvider, Sweeping
<1>13. CASE NotesDone
  <2>1. todo # <<>> /\ ToSet(todo) = {Stream} \cup ToSet(Tail(todo))
    BY <1>1, <1>13, HandAndTodo DEF NotesDone, ControlInv, Opened
  <2>2. /\ pc = "note" /\ link = 0 /\ wanted' = Among(wanted, Streams \ {Stream})
        /\ UNCHANGED <<ev, log>>
        /\ \/ Stream \in ToSet(wanted) /\ pc' = "delta" /\ UNCHANGED <<todo, link>>
           \/ pc' = "stream" /\ todo' = Tail(todo) /\ link' = 0
    BY <1>1, <1>13 DEF NotesDone, NextStream, ControlInv
  <2>3. wanted' \in Seq(Streams) /\ ToSet(wanted') = ToSet(wanted) \cap (Streams \ {Stream})
    BY <1>1, <2>2, AmongElements DEF TypeOK
  <2>4. ToSet(wanted) \subseteq ToSet(todo)
    BY <1>3, <2>2 DEF Sweeping
  <2>5. ToSet(wanted') \subseteq ToSet(Tail(todo))
    BY <2>1, <2>3, <2>4
  <2>6. wanted = <<>> => wanted' = <<>> /\ pc' = "stream"
    BY <2>2, <2>3, Nothing, EmptyList
  <2>7. CASE pc' = "delta"
    <3>1. Sweeping' /\ todo' = todo /\ wanted # <<>>
      BY <2>2, <2>6, <2>7 DEF Sweeping
    <3>2. Notes(log[ev]) = {}
      BY <1>3, <2>2, <3>1
    <3>3. QED
      BY <2>2, <2>5, <3>1, <3>2
  <2>8. CASE pc' = "stream"
    <3>1. ~Sweeping' /\ todo' = Tail(todo)
      BY <2>2, <2>8 DEF Sweeping
    <3>2. QED
      BY <1>3, <2>2, <2>5, <2>6, <3>1
  <2>9. QED
    BY <2>2, <2>7, <2>8
<1>14. CASE DeltaSweep
  BY <1>6, <1>14 DEF DeltaSweep, Sweeping
<1>15. CASE SweptMessage
  <2>1. pc = "swept" /\ Sweeping /\ UNCHANGED <<wanted, ev, log>>
        /\ (hand = <<>> => pc' = "stream" /\ todo' = Tail(todo) /\ link' = 0)
        /\ (hand # <<>> => pc' = "claim" /\ todo' = todo /\ link' = link /\ link # 0)
    BY <1>1, <1>15 DEF SweptMessage, NextStream, Sweeping, ControlInv
  <2>2. link \in Nat
    BY <1>1, GraphAssumption DEF TypeOK
  <2>3. CASE hand = <<>>
    <3>1. ~Sweeping' /\ todo' = Tail(todo)
      BY <2>1, <2>3 DEF Sweeping
    <3>2. QED
      BY <1>3, <2>1, <3>1
  <2>4. CASE hand # <<>>
    <3>1. Sweeping' /\ todo' = todo
      BY <2>1, <2>2, <2>4 DEF Sweeping
    <3>2. QED
      BY <1>3, <2>1, <3>1
  <2>5. QED
    BY <2>3, <2>4
<1>16. CASE OpenStream \/ GetMessage
  BY <1>6, <1>16 DEF OpenStream, GetMessage, Sweeping
<1>17. CASE Claim \/ Duplicate \/ Settle \/ Commit \/ Release
  BY <1>6, <1>17 DEF Claim, Duplicate, Settle, Commit, Release, Terminal, Drawn, Sweeping
<1>18. CASE Arrive \/ (\E s \in Streams : SignalMissed(s)) \/ (\E m \in Mails : LeaseElapses(m))
            \/ BootHub \/ BootBus
  BY <1>6, <1>18 DEF Arrive, SignalMissed, LeaseElapses, BootHub, BootBus, Sweeping
<1>19. CASE UNCHANGED vars
  BY <1>6, <1>19 DEF vars, Sweeping
<1>20. QED
  BY <1>9, <1>10, <1>11, <1>12, <1>13, <1>14, <1>15, <1>16, <1>17, <1>18, <1>19 DEF Next, Step

\* What a link stands past, of a folder.
Passed(s, upto) == {m \in 1 .. upto : StreamOf[m] = s}

\* The links again, as sets.
LEMMA LinksMeaning ==
  LinksInv <=>
    /\ \A s \in Streams : Passed(s, cursor[s].link) \subseteq Excused \cup CutShort
    /\ Opened => Passed(Stream, start.link) \subseteq Excused
    /\ Opened => Passed(Stream, link) \subseteq Excused \cup ToSet(hand)
  BY DEF LinksInv, Passed

\* No step lets go of swept mail that is not settled, released or cut short, and a sweep
\* starts from a link that covers.
LEMMA LinksStep ==
  ASSUME TypeInv, RowsInv, SweepsInv, LinksInv, [Next]_vars
  PROVE  LinksInv'
<1> USE DEF broker, ack, stores, provider, run, history
<1>1. TypeOK /\ ControlInv
  BY DEF TypeInv
<1>2. /\ \A s \in Streams : Passed(s, cursor[s].link) \subseteq Excused \cup CutShort
      /\ Opened => Passed(Stream, start.link) \subseteq Excused
      /\ Opened => Passed(Stream, link) \subseteq Excused \cup ToSet(hand)
  BY LinksMeaning
<1>3. Excused \subseteq Excused'
  BY <1>1, Lasting DEF Excused
<1> SUFFICES /\ \A s \in Streams : Passed(s, cursor'[s].link) \subseteq Excused' \cup CutShort'
             /\ Opened' => Passed(Stream', start'.link) \subseteq Excused'
             /\ Opened' => Passed(Stream', link') \subseteq Excused' \cup ToSet(hand')
  BY DEF LinksInv, Passed
<1>4. Passed(Stream, 0) = {} /\ \A s \in Streams : Passed(s, 0) = {}
  BY DEF Passed
<1>5. link \in Nat /\ head \in Nat
  BY <1>1, GraphAssumption DEF TypeOK
<1>6. CASE UNCHANGED <<cursor, start, todo, link, hand>> /\ Opened' = Opened
  BY <1>2, <1>3, <1>6 DEF CutShort, Stream
<1>7. CASE cursor' = cursor /\ ~Opened' /\ CutShort \subseteq Excused' \cup CutShort'
  BY <1>2, <1>3, <1>7
<1>8. CASE Crash \/ RunRaises
  <2>1. cut' = cut \cup CutShort /\ pc' = "idle"
        /\ (ForgetStores \/ UNCHANGED <<cursor, claims>>)
    BY <1>8 DEF Crash, RunRaises, NoRun
  <2>2. \A s \in Streams : cursor'[s] = cursor[s] \/ cursor'[s].link = 0
    BY <1>1, <2>1, Forgotten DEF TypeOK
  <2>3. CutShort \subseteq Excused' /\ ~Opened'
    BY <2>1 DEF Excused, Opened
  <2>4. QED
    BY <1>2, <1>3, <1>4, <2>2, <2>3
<1>9. CASE Ack \/ RunReturns \/ \E e \in DOMAIN log : Receive(e)
  <2>1. cursor' = cursor /\ pc' \in {"idle", "ack", "stream"} /\ CutShort = {}
    BY <1>1, <1>9 DEF Ack, RunReturns, Receive, NoRun, ControlInv, CutShort
  <2>2. QED
    BY <1>7, <2>1 DEF Opened
<1>10. CASE OpenStream
  <2>1. /\ start' = cursor[Stream] /\ link' = link /\ link = 0 /\ UNCHANGED <<cursor, todo>>
        /\ Stream \in Streams
    BY <1>1, <1>10, HandAndTodo DEF OpenStream, ControlInv
  <2>2. CutShort = {} /\ Stream' = Stream
    BY <2>1 DEF CutShort, Stream
  <2>3. QED
    BY <1>2, <1>3, <1>4, <2>1, <2>2
<1>11. CASE GetMessage
  <2>1. /\ UNCHANGED <<cursor, start, todo, link>> /\ link = 0 /\ Opened
    BY <1>1, <1>11 DEF GetMessage, ControlInv, Opened
  <2>2. CutShort = {} /\ Stream' = Stream
    BY <2>1 DEF CutShort, Stream
  <2>3. QED
    BY <1>2, <1>3, <1>4, <2>1, <2>2
<1>12. CASE NotesDone
  <2>1. /\ UNCHANGED <<cursor, start>> /\ link = 0 /\ link' = 0 /\ Opened
        /\ (pc' = "stream" \/ todo' = todo)
    BY <1>1, <1>12 DEF NotesDone, NextStream, ControlInv, Opened
  <2>2. CutShort = {}
    BY <2>1 DEF CutShort
  <2>3. QED
    BY <1>2, <1>3, <1>4, <2>1, <2>2 DEF Stream, Opened
<1>13. CASE DeltaSweep
  <2>1. /\ pc = "delta" /\ Opened /\ UNCHANGED <<cursor, start, todo>> /\ link' = head
        /\ link = 0 /\ hand' = Changed(Stream, start.link)
    BY <1>1, <1>13 DEF DeltaSweep, ControlInv, Opened
  <2>2. CutShort = {} /\ Stream' = Stream
    BY <2>1 DEF CutShort, Stream
  <2>3. PICK from, s : from = start.link /\ from \in Nat /\ s = Stream
    BY <1>1 DEF ControlInv
  <2>4. ToSet(Changed(s, from)) = {m \in from + 1 .. head : StreamOf[m] = s}
    BY <1>1, <2>3, ChangedElements DEF TypeOK
  <2>5. Passed(s, head) \subseteq Passed(s, from) \cup ToSet(Changed(s, from))
    BY <1>5, <2>3, <2>4 DEF Passed
  <2>6. QED
    BY <1>2, <1>3, <2>1, <2>2, <2>3, <2>5
<1>14. CASE SweptMessage
  <2>1. \/ UNCHANGED <<cursor, start, todo, link, hand>> /\ Opened' = Opened
        \/ cursor' = cursor /\ ~Opened' /\ hand = <<>>
    BY <1>14 DEF SweptMessage, NextStream, Opened
  <2>2. hand = <<>> => CutShort = {}
    BY Nothing DEF CutShort
  <2>3. QED
    BY <1>6, <1>7, <2>1, <2>2
<1>15. CASE Claim \/ Duplicate \/ Settle \/ Commit \/ Release
  <2>1. /\ hand # <<>> /\ pc \in {"claim", "work", "commit"} /\ Opened /\ Opened'
        /\ UNCHANGED <<start, todo, link>> /\ hand' \in {hand, Tail(hand)}
    BY <1>1, <1>15 DEF Claim, Duplicate, Settle, Commit, Release, Terminal, Drawn, ControlInv,
       Opened
  <2>2. ToSet(hand) = {Mail} \cup ToSet(Tail(hand)) /\ Stream \in Streams
    BY <1>1, <2>1, HandAndTodo DEF ControlInv
  <2>3. link > 0 /\ hand' # hand => Mail \in Excused'
    <3>1. CASE Release
      <4>1. ASSUME link > 0 PROVE transport = "hub" \/ Notes(log[ev]) = {}
        <5>1. transport \in {"hub", "bus"}
          BY <1>1, GraphAssumption DEF TypeOK
        <5>2. QED
          BY <2>1, <4>1, <5>1 DEF SweepsInv, Sweeping
      <4>2. QED
        BY <3>1, <4>1 DEF Release, Excused
    <3>2. CASE ~Release
      BY <1>1, <1>15, <3>2, LetGoSettled DEF Excused
    <3>3. QED
      BY <3>1, <3>2
  <2>4. link > 0 => ToSet(hand) \subseteq Excused' \cup ToSet(hand')
    BY <2>1, <2>2, <2>3
  <2>5. CutShort \subseteq Excused' \cup CutShort' /\ Stream' = Stream
    BY <2>1, <2>4 DEF CutShort, Stream
  <2>6. Passed(Stream, link) \subseteq Excused' \cup ToSet(hand')
    BY <1>2, <1>3, <1>4, <1>5, <2>1, <2>4
  <2>7. Passed(Stream, link) \subseteq Excused' \cup CutShort'
    BY <1>4, <1>5, <2>1, <2>6 DEF CutShort
  <2>8. ASSUME NEW s \in Streams
        PROVE  cursor'[s].link = cursor[s].link \/ (s = Stream /\ cursor'[s].link = link)
    <3>1. CASE Commit
      <4>1. cursor \in [Streams -> [order: Nat, link: 0 .. NumMails]]
        BY <1>1 DEF TypeOK
      <4>2. QED
        BY <2>8, <3>1, <4>1 DEF Commit, NewCursor
    <3>2. CASE ~Commit
      BY <1>15, <3>2 DEF Claim, Duplicate, Settle, Release
    <3>3. QED
      BY <3>1, <3>2
  <2>9. \A s \in Streams : Passed(s, cursor'[s].link) \subseteq Excused' \cup CutShort'
    BY <1>2, <1>3, <2>5, <2>7, <2>8
  <2>10. QED
    BY <1>2, <1>3, <2>1, <2>5, <2>6, <2>9
<1>16. CASE Arrive \/ (\E s \in Streams : SignalMissed(s)) \/ (\E m \in Mails : LeaseElapses(m))
            \/ BootHub \/ BootBus
  BY <1>6, <1>16 DEF Arrive, SignalMissed, LeaseElapses, BootHub, BootBus, Opened
<1>17. CASE UNCHANGED vars
  BY <1>6, <1>17 DEF vars, Opened
<1>18. QED
  BY <1>8, <1>9, <1>10, <1>11, <1>12, <1>13, <1>14, <1>15, <1>16, <1>17 DEF Next, Step

----------------------------------------------------------------------------
(* The theorems.                                                           *)

\* The initial state satisfies the invariant.
LEMMA InvInit == Init => Inv
<1> SUFFICES ASSUME Init PROVE Inv
  OBVIOUS
<1>1. NoRow \in Row /\ NoCursor \in [order: Nat, link: 0 .. NumMails]
  BY GraphAssumption DEF Row, NoRow, NoCursor
<1>2. Validation \in Event /\ log \in Seq(Event) /\ Len(log) = 1 /\ DOMAIN log = 1 .. 1
  BY DEF Validation, Event, Init
<1>3. TypeOK
  <2>1. TypeStores
    BY <1>1, <1>2, Nothing DEF Init, TypeStores
  <2>2. TypeProcess
    <3>1. hand \in Seq(Mails) /\ pending \in Seq(Mails)
      BY Nothing DEF Init
    <3>2. wanted \in Seq(Streams) /\ todo \in Seq(Streams)
      BY Nothing DEF Init
    <3>3. link \in 0 .. NumMails
      BY GraphAssumption DEF Init
    <3>4. QED
      BY <3>1, <3>2, <3>3 DEF Init, TypeProcess
  <2>3. head \in 0 .. NumMails /\ transport \in Transports /\ gone \subseteq Movable
    BY GraphAssumption DEF Init
  <2>4. QED
    BY <1>2, <2>1, <2>2, <2>3 DEF TypeOK, TypeStores, TypeProcess
<1>4. ControlInv
  BY <1>1 DEF Init, ControlInv, Opened
<1>5. RowsInv /\ KeptInv /\ AckedIsSettled
  BY DEF Init, RowsInv, KeptInv, AckedIsSettled, NoRow
<1>6. BehindInv
  BY <1>2 DEF Init, BehindInv
<1>7. SweepsInv
  BY Nothing DEF Init, SweepsInv, Sweeping
<1>8. LinksInv
  BY DEF Init, LinksInv, Opened, NoCursor
<1>9. QED
  BY <1>3, <1>4, <1>5, <1>6, <1>7, <1>8 DEF Inv

\* Every step keeps it.
LEMMA InvStep == Inv /\ [Next]_vars => Inv'
<1> SUFFICES ASSUME Inv, [Next]_vars PROVE Inv'
  OBVIOUS
<1>1. /\ TypeInv /\ RowsInv /\ KeptInv /\ BehindInv /\ AckedIsSettled /\ SweepsInv /\ LinksInv
  BY DEF Inv, TypeInv
<1>2. QED
  BY <1>1, TypeStep, ControlStep, RowsStep, KeptStep, BehindStep, AckedStep, SweepsStep,
     LinksStep DEF Inv

\* Every reachable state satisfies it.
THEOREM GraphInvariant == Spec => []Inv
  BY InvInit, InvStep, PTL DEF Spec

\* An event behind the checkpoint, or completed, has its mails settled or found gone
\* (runtime.py 88-92, servicebus/runtime.py 81-86), for any number of streams, mails, crashes
\* and Graph errors, and restarts at any time; on Event Hubs but for mail that a run released,
\* and but for mail refused because a run that crashed still held its claim.
THEOREM AckedEventsAreSettled == Spec => []AckedIsSettled
<1>1. Inv => AckedIsSettled
  BY DEF Inv
<1>2. QED
  BY <1>1, GraphInvariant, PTL

\* No stored deltaLink passes a mail that is neither settled nor in hand (provider.py
\* 102-113), but for mail released, refused or in a sweep that was cut short, however the
\* orders that guard the commit start over and whatever the sweep started from.
THEOREM StoredLinksCover == Spec => []DeltaLinkCovers
<1>1. Inv => DeltaLinkCovers
  BY DEF Inv, LinksInv, DeltaLinkCovers, Excused, CutShort
<1>2. QED
  BY <1>1, GraphInvariant, PTL

----------------------------------------------------------------------------
(* What a restart within a lease costs, and nothing else does.             *)

\* A process starts only when no earlier one's claim bars it.  Nothing in src/ sees to it.
RestartsWait == [][~up /\ up' => \A m \in Mails : ~Barred(claims[m])]_vars

\* A claim that bars others is that of the run, and nothing was ever refused undone.
OwnClaims ==
  /\ up => \A m \in Mails : Barred(claims[m]) => pc = "work" /\ Mail = m
  /\ skipped = {}

\* If restarts wait, a step keeps to that.
LEMMA OwnStep ==
  ASSUME TypeInv, OwnClaims, [Next]_vars,
         [~up /\ up' => \A m \in Mails : ~Barred(claims[m])]_vars
  PROVE  OwnClaims'
<1> USE DEF broker, ack, stores, provider, run, history
<1>1. TypeOK /\ ControlInv /\ claims \in [Mails -> Row]
  BY DEF TypeInv, TypeOK
<1>2. up => \A m \in Mails : Barred(claims[m]) => pc = "work" /\ Mail = m
  BY DEF OwnClaims
<1>3. skipped = {}
  BY DEF OwnClaims
<1>4. CASE UNCHANGED <<claims, skipped, pc, hand, up>>
  BY <1>2, <1>3, <1>4 DEF OwnClaims, Mail
<1>5. CASE UNCHANGED <<claims, skipped, up>> /\ pc # "work"
  BY <1>2, <1>3, <1>5 DEF OwnClaims
<1>6. CASE Crash \/ RunRaises
  <2>1. skipped' = skipped /\ (~up' \/ (UNCHANGED <<claims, up>> /\ pc # "work"))
    BY <1>6 DEF Crash, RunRaises, ForgetProvider
  <2>2. QED
    BY <1>2, <1>3, <2>1 DEF OwnClaims
<1>7. CASE Duplicate
  <2>1. Mail \in Mails /\ up
    BY <1>1, <1>7, HandAndTodo DEF Duplicate, ControlInv
  <2>2. claims[Mail].done
    BY <1>2, <1>7, <2>1 DEF Duplicate, Barred
  <2>3. skipped' = skipped /\ UNCHANGED <<claims, up>> /\ pc # "work"
    BY <1>7, <2>2 DEF Duplicate
  <2>4. QED
    BY <1>5, <2>3
<1>8. CASE Claim \/ Settle \/ Release
  <2>1. PICK mail \in Mails, row \in Row, new \in Row :
           /\ mail = Mail /\ row = claims[mail] /\ claims'[mail] = new
           /\ \A m \in Mails : m # mail => claims'[m] = claims[m]
           /\ \/ Claim /\ new = Attempted(Claimed(row))
              \/ Settle /\ new = MarkedDone(row)
              \/ Release /\ new = Released(row)
    BY <1>1, <1>8, RowOfMail
  <2>2. UNCHANGED <<up, skipped>>
    BY <1>8 DEF Claim, Settle, Release
  <2>3. CASE Claim
    <3>1. pc' = "work" /\ hand' = hand /\ pc = "claim"
      BY <2>3 DEF Claim
    <3>2. QED
      BY <1>2, <1>3, <2>1, <2>2, <3>1 DEF OwnClaims, Mail
  <2>4. CASE ~Claim
    <3>1. ~Barred(new)
      <4>1. MarkedDone(row).done /\ ~Barred(Released(row))
        BY RowMeaning
      <4>2. ~Barred(MarkedDone(row))
        BY <4>1 DEF Barred
      <4>3. QED
        BY <2>1, <2>4, <4>1, <4>2
    <3>2. QED
      BY <1>2, <1>3, <2>1, <2>2, <3>1 DEF OwnClaims
  <2>5. QED
    BY <2>3, <2>4
<1>9. ASSUME NEW m \in Mails, LeaseElapses(m) PROVE OwnClaims'
  <2>1. \A n \in Mails : Barred(claims'[n]) => Barred(claims[n])
    BY <1>1, <1>9, RowElapsed
  <2>2. UNCHANGED <<up, skipped, pc, hand>>
    BY <1>9 DEF LeaseElapses
  <2>3. QED
    BY <1>2, <1>3, <2>1, <2>2 DEF OwnClaims, Mail
<1>10. CASE RunReturns \/ Ack \/ OpenStream \/ GetMessage \/ NotesDone \/ DeltaSweep
            \/ SweptMessage
  BY <1>5, <1>10 DEF RunReturns, Ack, OpenStream, GetMessage, NotesDone, DeltaSweep,
     SweptMessage
<1>11. ASSUME NEW e \in DOMAIN log, Receive(e) PROVE OwnClaims'
  BY <1>5, <1>11 DEF Receive
<1>12. CASE Commit
  BY <1>5, <1>12 DEF Commit
<1>13. CASE BootHub \/ BootBus
  <2>1. ~up /\ up' /\ UNCHANGED <<claims, skipped>>
    BY <1>13 DEF BootHub, BootBus
  <2>2. \A m \in Mails : ~Barred(claims[m])
    BY <2>1 DEF vars
  <2>3. QED
    BY <1>3, <2>1, <2>2 DEF OwnClaims
<1>14. CASE Arrive \/ \E s \in Streams : SignalMissed(s)
  BY <1>4, <1>14 DEF Arrive, SignalMissed
<1>15. CASE UNCHANGED vars
  BY <1>4, <1>15 DEF vars
<1>16. QED
  BY <1>6, <1>7, <1>8, <1>9, <1>10, <1>11, <1>12, <1>13, <1>14, <1>15 DEF Next, Step

\* No mail is refused undone unless a process starts within the lease of a claim that the one
\* before it left behind (pipeline.py 184): no other interleaving of crashes, errors, releases
\* and redeliveries has that outcome.
THEOREM OnlyEarlyRestartsSkip == Spec /\ RestartsWait => [](skipped = {})
<1>1. Init => OwnClaims
  BY DEF Init, OwnClaims
<1>2. Inv /\ OwnClaims /\ [Next]_vars /\ [~up /\ up' => \A m \in Mails : ~Barred(claims[m])]_vars
        => OwnClaims'
  BY OwnStep DEF Inv, TypeInv
<1>3. OwnClaims => skipped = {}
  BY DEF OwnClaims
<1>4. QED
  BY <1>1, <1>2, <1>3, GraphInvariant, PTL DEF Spec, RestartsWait

============================================================================
