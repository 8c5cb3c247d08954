--------------------------- MODULE DeliveryProofs ---------------------------
(***************************************************************************)
(* Proofs about Delivery: a mail that is marked done has reached the       *)
(* reader or one of the named holes, it is handed out once but for faults, *)
(* what is marked read was shown, and a second copy of an event changes    *)
(* nothing; for any way connect() is called and any number of mails,       *)
(* threads and faults.                                                     *)
(***************************************************************************)
EXTENDS Delivery, FiniteSetTheorems, WellFoundedInduction, TLAPS

----------------------------------------------------------------------------
(* The inductive invariants.                                               *)

\* A mail between its claim and its mark belongs to one thread, unless it is shared.  A
\* drained batch belongs to a thread that runs nothing, and there is none where a live
\* provider runs.
Holding(r) == pc[r] \in {"work", "mark"}

ThreadsInv ==
  /\ \A r \in Runners : pc[r] \in {"create", "reclaim", "work", "mark"} => mail[r] \in Mails
  /\ \A r \in Runners : Holding(r) => mail[r] \in shared \/ claims[mail[r]] = "claimed"
  /\ \A r, q \in Runners :
       Holding(r) /\ Holding(q) /\ mail[r] = mail[q] => r = q \/ mail[r] \in shared
  /\ \A a \in Apps : batch[a] # <<>> => pc[a] = "off" /\ ~Live

\* The queue and the batches hold a mail once, and hold none that is still to be put out.
Once(s) == \A i, j \in DOMAIN s : s[i] = s[j] => i = j
OnceIn(s, m) == \A i, j \in DOMAIN s : s[i] = m /\ s[j] = m => i = j
In(s) == {s[i] : i \in DOMAIN s}

\* The pipeline has put the mail out, or never will.
PutOut(m) == claims[m] = "done" \/ \E r \in Runners : pc[r] = "mark" /\ mail[r] = m

Single(m) ==
  /\ OnceIn(queue, m) /\ \A a \in Apps : OnceIn(batch[a], m)
  /\ m \in In(queue) => \A a \in Apps : m \notin In(batch[a])
  /\ \A a, b \in Apps : m \in In(batch[a]) /\ m \in In(batch[b]) => a = b

BuffersInv == \A m \in Mails \ shared : Single(m) /\ (m \in Buffered => PutOut(m))

\* A mail that is still to be handed out was handed out before only because of faults.
Due(m) == ~PutOut(m) \/ m \in Buffered

HandedInv ==
  \A m \in Mails \ shared : got[m] <= 1 + faults /\ (Due(m) => got[m] <= faults)

\* Where a mail is, or which hole it fell into.
Reached ==
  Delivered \cup dropped \cup Buffered \cup abandoned
    \cup (IF WiredDeadLetters THEN kept ELSE dead)
    \cup (IF config.durable THEN lost ELSE {})
    \cup {m \in Mails : topic[m] > 0} \cup A!Stored \cup unsaved

ReachInv ==
  /\ Done \subseteq Reached
  /\ \A r \in Runners : pc[r] = "mark" => mail[r] \in Reached

\* A callback thread holds one event, of which a copy is not acknowledged; it acknowledges
\* what is saved or was given up.
SaversInv ==
  /\ \A c \in Callbacks : savers[c] = "idle" => hand[c] = {}
  /\ \A c \in Callbacks : savers[c] # "idle" => \E m \in Mails : hand[c] = {m}
  /\ \A c \in Callbacks : savers[c] = "ack" => hand[c] \subseteq A!Stored \cup unsaved
  /\ \A m \in Mails : Cardinality({c \in Callbacks : m \in hand[c]}) <= topic[m]
  /\ Once(rows)

\* The conversation that is being opened is on the page but for what was saved meanwhile.
Tasks == [step : {"none", "get", "render", "post"}, keys : SUBSET Keys, mails : SUBSET Mails]

PageInv ==
  /\ opening \in Tasks /\ polling \in Tasks
  /\ open # {} => \E k \in Keys : open = {k}
  /\ opening.step # "none" => \E k \in Keys : opening.keys = {k}
  /\ opening.step = "render" => \A k \in opening.keys : A!Thread(k) \subseteq opening.mails \cup late
  /\ opening.step = "post" => \A k \in opening.keys : A!Thread(k) \subseteq shown \cup late
  /\ ReadWasShown

DeliveryInv ==
  DeliveryTypeOK /\ ThreadsInv /\ BuffersInv /\ HandedInv /\ ReachInv /\ SaversInv /\ PageInv

----------------------------------------------------------------------------
(* Types.                                                                  *)

LEMMA Heads ==
  ASSUME NEW S, NEW s \in Seq(S), s # <<>>
  PROVE  /\ Head(s) \in S /\ Tail(s) \in Seq(S) /\ Head(s) \in In(s)
         /\ In(s) = {Head(s)} \cup In(Tail(s))
         /\ \A m : OnceIn(s, m) => OnceIn(Tail(s), m)
         /\ OnceIn(s, Head(s)) => Head(s) \notin In(Tail(s))
<1>1. /\ Len(s) \in Nat \ {0} /\ DOMAIN s = 1 .. Len(s) /\ Head(s) = s[1] /\ s[1] \in S
      /\ Tail(s) \in Seq(S) /\ DOMAIN Tail(s) = 1 .. Len(s) - 1
      /\ \A i \in 1 .. Len(s) - 1 : Tail(s)[i] = s[i + 1]
  OBVIOUS
<1>2. \A i \in DOMAIN s : i # 1 => i - 1 \in DOMAIN Tail(s) /\ s[i] = Tail(s)[i - 1]
  BY <1>1
<1>3. \A i \in DOMAIN Tail(s) : i + 1 \in DOMAIN s /\ i + 1 # 1 /\ Tail(s)[i] = s[i + 1]
  BY <1>1
<1>4. In(s) = {Head(s)} \cup In(Tail(s))
  <2>1. ASSUME NEW x \in In(s) PROVE x \in {Head(s)} \cup In(Tail(s))
    <3>1. PICK i \in DOMAIN s : x = s[i]
      BY <2>1 DEF In
    <3>2. QED
      BY <1>1, <1>2, <3>1 DEF In
  <2>2. ASSUME NEW x \in {Head(s)} \cup In(Tail(s)) PROVE x \in In(s)
    BY <1>1, <1>3, <2>2 DEF In
  <2>3. QED
    BY <2>1, <2>2
<1>5. ASSUME NEW m, OnceIn(s, m) PROVE OnceIn(Tail(s), m)
  <2>1. ASSUME NEW i \in DOMAIN Tail(s), NEW j \in DOMAIN Tail(s), Tail(s)[i] = m, Tail(s)[j] = m
        PROVE  i = j
    <3>1. i + 1 \in DOMAIN s /\ j + 1 \in DOMAIN s /\ s[i + 1] = m /\ s[j + 1] = m /\ i \in Int /\ j \in Int
      BY <1>1, <1>3, <2>1
    <3>2. i + 1 = j + 1
      BY <1>5, <3>1 DEF OnceIn
    <3>3. QED
      BY <3>1, <3>2
  <2>2. QED
    BY <2>1 DEF OnceIn
<1>6. ASSUME OnceIn(s, Head(s)) PROVE Head(s) \notin In(Tail(s))
  <2>1. ASSUME NEW i \in DOMAIN Tail(s), Tail(s)[i] = Head(s) PROVE FALSE
    BY <1>1, <1>3, <1>6, <2>1 DEF OnceIn
  <2>2. QED
    BY <2>1 DEF In
<1>7. QED
  BY <1>1, <1>4, <1>5, <1>6 DEF In

LEMMA Appended ==
  ASSUME NEW S, NEW s \in Seq(S), NEW m \in S
  PROVE  /\ Append(s, m) \in Seq(S)
         /\ In(Append(s, m)) = In(s) \cup {m}
         /\ Once(s) /\ m \notin In(s) => Once(Append(s, m))
         /\ \A x : OnceIn(s, x) /\ x # m => OnceIn(Append(s, m), x)
         /\ m \notin In(s) => OnceIn(Append(s, m), m)
<1>1. /\ Len(s) \in Nat /\ DOMAIN s = 1 .. Len(s) /\ Append(s, m) \in Seq(S)
      /\ DOMAIN Append(s, m) = 1 .. Len(s) + 1 /\ Append(s, m)[Len(s) + 1] = m
      /\ \A i \in 1 .. Len(s) : Append(s, m)[i] = s[i]
  OBVIOUS
<1>2. \A i \in 1 .. Len(s) + 1 : i \in 1 .. Len(s) \/ i = Len(s) + 1
  BY <1>1
<1>3. In(Append(s, m)) = In(s) \cup {m}
  BY <1>1, <1>2 DEF In
<1>4. ASSUME Once(s), m \notin In(s) PROVE Once(Append(s, m))
  BY <1>1, <1>2, <1>4 DEF Once, In
<1>5. ASSUME NEW x, OnceIn(s, x), x # m PROVE OnceIn(Append(s, m), x)
  BY <1>1, <1>2, <1>5 DEF OnceIn
<1>6. ASSUME m \notin In(s) PROVE OnceIn(Append(s, m), m)
  BY <1>1, <1>2, <1>6 DEF OnceIn, In
<1>7. QED
  BY <1>1, <1>3, <1>4, <1>5, <1>6

\* The empty list.
LEMMA Empty == Once(<<>>) /\ In(<<>>) = {} /\ (\A m : OnceIn(<<>>, m)) /\ \A S : <<>> \in Seq(S)
BY DEF Once, OnceIn, In

\* Mails arrive in order.
LEMMA NextArrives ==
  ASSUME TypeOK, arrived # Mails
  PROVE  (CHOOSE m \in Mails \ arrived : \A n \in Mails \ arrived : m <= n) \in Mails
<1>1. PICK S : S = Mails \ arrived
  OBVIOUS
<1>2. S # {} /\ S \subseteq Nat
  BY <1>1, FacadeAssumption DEF TypeOK
<1>3. PICK m \in S : \A k \in S : ~ (<<k, m>> \in OpToRel(<, Nat))
  BY <1>2, WFMin, NatLessThanWellFounded
<1>4. ASSUME NEW k \in S PROVE m <= k
  <2>1. <<k, m>> \in Nat \X Nat
    BY <1>2
  <2>2. ~ (k < m)
    BY <1>3, <2>1 DEF OpToRel
  <2>3. QED
    BY <1>2, <2>2
<1>5. QED
  BY <1>1, <1>4

\* What Work() does with the mail in hand, told apart by where it goes.
Withheld(m) ==
  /\ \/ dropped' = dropped \cup {m} /\ UNCHANGED <<dead, kept>>
     \/ /\ dead' = dead \cup {m} /\ UNCHANGED dropped
        /\ kept' = IF WiredDeadLetters THEN kept \cup {m} ELSE kept
  /\ UNCHANGED <<queue, got, topic>>

Queued(m) == queue' = Append(queue, m) /\ UNCHANGED <<got, topic, dropped, dead, kept>>
Called(m) == got' = [got EXCEPT ![m] = @ + 1] /\ UNCHANGED <<queue, topic, dropped, dead, kept>>
Published(m) == topic' = [topic EXCEPT ![m] = @ + 1] /\ UNCHANGED <<queue, got, dropped, dead, kept>>

LEMMA WorkResult ==
  ASSUME TypeOK, ThreadsInv, NEW r \in Runners, Work(r)
  PROVE  /\ mail[r] \in Mails /\ pc[r] = "work" /\ pc' = [pc EXCEPT ![r] = "mark"]
         /\ UNCHANGED <<config, arrived, passed, claims, mail, batch, lost, abandoned, shared, faults>>
         /\ Withheld(mail[r]) \/ Queued(mail[r]) \/ Called(mail[r]) \/ Published(mail[r])
<1>1. config.output \in {"queue", "callback", "topic"}
  BY FacadeAssumption DEF TypeOK, Config
<1>2. /\ mail[r] \in Mails /\ pc[r] = "work" /\ pc' = [pc EXCEPT ![r] = "mark"]
      /\ UNCHANGED <<config, arrived, passed, claims, mail, batch, lost, abandoned, shared, faults>>
  BY DEF Work, Goto, ThreadsInv, Holding, marks
<1>3. Withheld(mail[r]) \/ Queued(mail[r]) \/ Called(mail[r]) \/ Published(mail[r])
  BY <1>1 DEF Work, Withheld, Queued, Called, Published
<1>4. QED
  BY <1>2, <1>3

LEMMA UnlistedMails == TypeOK => Unlisted \subseteq SUBSET Mails
BY DEF TypeOK, Unlisted

LEMMA FacadeTypes == DeliveryInv /\ Next => TypeOK'
<1> SUFFICES ASSUME DeliveryInv, Next PROVE TypeOK'
  OBVIOUS
<1> USE DEF marks, threads, buffers, history, facade
<1>0. TypeOK /\ ThreadsInv
  BY DEF DeliveryInv, DeliveryTypeOK
<1>1. CASE Arrive
  BY <1>0, <1>1, NextArrives DEF TypeOK, Arrive
<1>2. CASE Crash
  <2>1. Buffered \subseteq Mails
    BY <1>0 DEF TypeOK, Buffered
  <2>2. queue' \in Seq(Mails) /\ batch' \in [Apps -> Seq(Mails)]
    BY <1>2, Empty DEF Crash
  <2>3. claims' \in [Mails -> {"absent", "free", "claimed", "expired", "done"}]
    BY <1>0, <1>2 DEF Crash, TypeOK
  <2>4. passed' \subseteq Mails
    BY <1>0, <1>2, UnlistedMails DEF Crash, TypeOK
  <2>5. QED
    BY <1>0, <1>2, <2>1, <2>2, <2>3, <2>4 DEF TypeOK, Crash
<1>3. ASSUME NEW r \in Runners, Claim(r) PROVE TypeOK'
  BY <1>0, <1>3 DEF TypeOK, Claim, Goto
<1>16. ASSUME NEW r \in Runners, Look(r) PROVE TypeOK'
  BY <1>0, <1>16 DEF TypeOK, Look, Goto
<1>17. ASSUME NEW r \in Runners, Set(r) PROVE TypeOK'
  <2>1. mail[r] \in Mails
    BY <1>0, <1>17 DEF Set, ThreadsInv
  <2>2. claims' \in [Mails -> {"absent", "free", "claimed", "expired", "done"}] /\ shared' \subseteq Mails
    BY <1>0, <1>17, <2>1 DEF Set, TypeOK
  <2>3. QED
    BY <1>0, <1>17, <2>2 DEF TypeOK, Set, Goto
<1>18. ASSUME NEW r \in Runners, Refuse(r) PROVE TypeOK'
  BY <1>0, <1>18 DEF TypeOK, Refuse
<1>19. ASSUME NEW m \in Mails, LeaseElapses(m) PROVE TypeOK'
  BY <1>0, <1>19 DEF TypeOK, LeaseElapses
<1>4. ASSUME NEW r \in Runners, Work(r) PROVE TypeOK'
  <2>1. PICK m \in Mails : m = mail[r]
    BY <1>0, <1>4, WorkResult
  <2>2. /\ pc' = [pc EXCEPT ![r] = "mark"]
        /\ UNCHANGED <<config, arrived, passed, claims, mail, batch, lost, abandoned, shared, faults>>
        /\ Withheld(m) \/ Queued(m) \/ Called(m) \/ Published(m)
    BY <1>0, <1>4, <2>1, WorkResult
  <2>3. CASE Withheld(m)
    BY <1>0, <2>2, <2>3 DEF TypeOK, Withheld
  <2>4. CASE Queued(m)
    BY <1>0, <2>2, <2>4, Appended DEF TypeOK, Queued
  <2>5. CASE Called(m)
    BY <1>0, <2>2, <2>5 DEF TypeOK, Called
  <2>6. CASE Published(m)
    BY <1>0, <2>2, <2>6 DEF TypeOK, Published
  <2>7. QED
    BY <2>2, <2>3, <2>4, <2>5, <2>6
<1>5. ASSUME NEW r \in Runners, Mark(r) PROVE TypeOK'
  BY <1>0, <1>5 DEF TypeOK, Mark, Goto
<1>6. ASSUME NEW r \in Runners, EmitRaises(r) PROVE TypeOK'
  <2>1. mail[r] \in Mails
    BY <1>0, <1>6 DEF EmitRaises, ThreadsInv, Holding
  <2>2. passed' \subseteq Mails
    BY <1>0, <1>6, UnlistedMails DEF TypeOK, EmitRaises
  <2>3. QED
    BY <1>0, <1>6, <2>1, <2>2 DEF TypeOK, EmitRaises, Goto
<1>7. ASSUME NEW r \in Runners, PassRaises(r) PROVE TypeOK'
  <2>1. passed' \subseteq Mails
    BY <1>0, <1>7, UnlistedMails DEF TypeOK, PassRaises
  <2>2. QED
    BY <1>0, <1>7, <2>1 DEF TypeOK, PassRaises, Goto
<1>8. ASSUME NEW a \in Apps, StartPass(a) PROVE TypeOK'
  BY <1>0, <1>8 DEF TypeOK, StartPass, Goto
<1>9. ASSUME NEW a \in Apps, EndPass(a) PROVE TypeOK'
  BY <1>0, <1>9, Empty DEF TypeOK, EndPass, Goto
<1>10. ASSUME NEW a \in Apps, NEW l \in Lives, Stream(a, l) PROVE TypeOK'
  BY <1>0, <1>10 DEF TypeOK, Stream
<1>11. ASSUME NEW a \in Apps, Yield(a) PROVE TypeOK'
  <2>1. Head(batch[a]) \in Mails /\ Tail(batch[a]) \in Seq(Mails)
    BY <1>0, <1>11, Heads DEF TypeOK, Yield
  <2>2. QED
    BY <1>0, <1>11, <2>1 DEF TypeOK, Yield
<1>12. ASSUME NEW a \in Apps, Take(a) PROVE TypeOK'
  <2>1. Head(queue) \in Mails /\ Tail(queue) \in Seq(Mails)
    BY <1>0, <1>12, Heads DEF TypeOK, Take
  <2>2. QED
    BY <1>0, <1>12, <2>1 DEF TypeOK, Take
<1>13. ASSUME NEW a \in Apps, Leave(a) PROVE TypeOK'
  <2>1. {batch[a][i] : i \in DOMAIN batch[a]} \subseteq Mails
    BY <1>0 DEF TypeOK
  <2>2. batch' \in [Apps -> Seq(Mails)] /\ abandoned' \subseteq Mails
    BY <1>0, <1>13, <2>1, Empty DEF TypeOK, Leave
  <2>3. faults' \in Nat /\ pc' = [pc EXCEPT ![a] = "off"]
    BY <1>0, <1>13 DEF TypeOK, Leave, Goto
  <2>6. pc' \in [Runners -> {"off", "run", "create", "reclaim", "work", "mark", "wait"}]
    BY <1>0, <2>3 DEF TypeOK
  <2>4. UNCHANGED <<config, topic, marks, mail, queue, got, dropped, dead, kept, lost, shared>>
    BY <1>13 DEF Leave
  <2>5. QED
    BY <1>0, <2>2, <2>3, <2>4, <2>6 DEF TypeOK
<1>14. ASSUME NEW l \in Lives, Run(l) PROVE TypeOK'
  BY <1>0, <1>14 DEF TypeOK, Run, Goto
<1>15. QED
  BY <1>1, <1>2, <1>3, <1>4, <1>5, <1>6, <1>7, <1>8, <1>9, <1>10, <1>11, <1>12, <1>13, <1>14,
     <1>16, <1>17, <1>18, <1>19
     DEF Next, Advance, Consume

----------------------------------------------------------------------------
(* A mail in work belongs to one thread.                                   *)

LEMMA StillThreads == DeliveryInv /\ Next => ThreadsInv'
<1> SUFFICES ASSUME DeliveryInv, Next PROVE ThreadsInv'
  OBVIOUS
<1> USE DEF marks, threads, buffers, history, facade
<1>0. TypeOK /\ ThreadsInv
  BY DEF DeliveryInv, DeliveryTypeOK
<1>a. Apps \cap Lives = {} /\ (config' = config => Live' = Live)
  BY FacadeAssumption DEF Live
<1>1. CASE Arrive
  BY <1>0, <1>a, <1>1 DEF ThreadsInv, Holding, Arrive
<1>2. CASE Crash
  BY <1>0, <1>2 DEF ThreadsInv, Holding, Crash, Runners
\* A thread takes a mail nobody holds.
<1>20. ASSUME NEW r \in Runners, NEW m \in Mails, pc[r] \notin {"off", "work", "mark"},
              pc' = [pc EXCEPT ![r] = "work"],
              mail' = [mail EXCEPT ![r] = m], UNCHANGED <<config, batch>>,
              m \in shared' \/ (claims[m] # "claimed" /\ claims'[m] = "claimed"),
              \A n \in Mails : n # m => claims'[n] = claims[n],
              shared \subseteq shared', shared' \subseteq shared \cup {m}
      PROVE ThreadsInv'
  <2>1. \A q \in Runners : q # r => pc'[q] = pc[q] /\ mail'[q] = mail[q]
    BY <1>0, <1>20 DEF TypeOK
  <2>2. pc'[r] = "work" /\ mail'[r] = m
    BY <1>0, <1>20 DEF TypeOK
  <2>3. \A q \in Runners : q # r /\ Holding(q) =>
          /\ mail[q] \in Mails
          /\ mail[q] = m => m \in shared'
          /\ mail[q] \in shared' \/ claims'[mail[q]] = "claimed"
    BY <1>0, <1>20 DEF ThreadsInv, Holding
  <2>4. \A a \in Apps : batch'[a] # <<>> => pc'[a] = "off" /\ ~Live'
    BY <1>0, <1>a, <1>20, <2>1 DEF ThreadsInv, Runners
  <2>5. \A q \in Runners : pc'[q] \in {"create", "reclaim", "work", "mark"} => mail'[q] \in Mails
    BY <1>0, <1>20, <2>1, <2>2 DEF ThreadsInv
  <2>6. \A q, u \in Runners : Holding(q)' /\ Holding(u)' /\ mail'[q] = mail'[u] => q = u \/ mail'[q] \in shared'
    BY <1>0, <1>20, <2>1, <2>2, <2>3 DEF ThreadsInv, Holding
  <2>7. \A q \in Runners : Holding(q)' => mail'[q] \in shared' \/ claims'[mail'[q]] = "claimed"
    BY <1>20, <2>1, <2>2, <2>3 DEF Holding
  <2>8. QED
    BY <2>4, <2>5, <2>6, <2>7 DEF ThreadsInv
<1>3. ASSUME NEW r \in Runners, Claim(r) PROVE ThreadsInv'
  <2>1. PICK m \in Mails : /\ Claimable(m)
                           /\ claims' = [claims EXCEPT ![m] = "claimed"]
                           /\ mail' = [mail EXCEPT ![r] = m]
    BY <1>3 DEF Claim, IsNext, Fetchable
  <2>2. /\ pc[r] = "run" /\ pc' = [pc EXCEPT ![r] = "work"]
        /\ UNCHANGED <<config, batch, shared>>
    BY <1>3 DEF Claim, Goto, history
  <2>3. claims[m] # "claimed" /\ claims'[m] = "claimed" /\ \A n \in Mails : n # m => claims'[n] = claims[n]
    BY <1>0, <2>1 DEF TypeOK, Claimable
  <2>4. QED
    BY <1>20, <2>1, <2>2, <2>3
<1>16. ASSUME NEW r \in Runners, Look(r) PROVE ThreadsInv'
  <2>1. PICK m \in Mails, p \in {"create", "reclaim"} :
          pc' = [pc EXCEPT ![r] = p] /\ mail' = [mail EXCEPT ![r] = m]
    BY <1>16 DEF Look, Goto
  <2>2. pc[r] = "run" /\ UNCHANGED <<config, batch, claims, shared>>
    BY <1>16 DEF Look, history
  <2>3. \A q \in Runners : q # r => pc'[q] = pc[q] /\ mail'[q] = mail[q]
    BY <1>0, <2>1 DEF TypeOK
  <2>4. pc'[r] = p /\ mail'[r] = m
    BY <1>0, <2>1 DEF TypeOK
  <2>5. \A a \in Apps : batch'[a] # <<>> => pc'[a] = "off" /\ ~Live'
    BY <1>0, <1>a, <2>2, <2>3 DEF ThreadsInv, Runners
  <2>6. QED
    BY <1>0, <2>1, <2>2, <2>3, <2>4, <2>5 DEF ThreadsInv, Holding
<1>17. ASSUME NEW r \in Runners, Set(r) PROVE ThreadsInv'
  <2>1. PICK m \in Mails : m = mail[r]
    BY <1>0, <1>17 DEF Set, ThreadsInv
  <2>2. /\ pc[r] \in {"create", "reclaim"} /\ pc' = [pc EXCEPT ![r] = "work"]
        /\ UNCHANGED <<config, mail, batch>>
    BY <1>17 DEF Set, Goto
  <2>3. /\ claims' = [claims EXCEPT ![m] = IF pc[r] = "reclaim" /\ @ = "done" THEN "done" ELSE "claimed"]
        /\ shared' = IF claims[m] = (IF pc[r] = "create" THEN "absent" ELSE "free")
                       THEN shared ELSE shared \cup {m}
    BY <1>17, <2>1 DEF Set
  <2>4. m \in shared' \/ (claims[m] # "claimed" /\ claims'[m] = "claimed")
    BY <1>0, <2>3 DEF TypeOK
  <2>5. \A n \in Mails : n # m => claims'[n] = claims[n]
    BY <1>0, <2>3 DEF TypeOK
  <2>6. mail' = [mail EXCEPT ![r] = m]
    BY <1>0, <2>1, <2>2 DEF TypeOK
  <2>7. QED
    BY <1>20, <2>2, <2>3, <2>4, <2>5, <2>6
<1>18. ASSUME NEW r \in Runners, Refuse(r) PROVE ThreadsInv'
  BY <1>0, <1>a, <1>18 DEF ThreadsInv, Holding, Refuse, history
<1>19. ASSUME NEW m \in Mails, LeaseElapses(m) PROVE ThreadsInv'
  <2>1. /\ claims' = [claims EXCEPT ![m] = "expired"] /\ UNCHANGED <<config, pc, mail, batch>>
        /\ shared \subseteq shared' /\ (AtWork(m) => m \in shared')
    BY <1>19 DEF LeaseElapses
  <2>2. \A r \in Runners : Holding(r) /\ mail[r] = m => m \in shared'
    BY <2>1 DEF AtWork, Holding
  <2>3. \A n \in Mails : n # m => claims'[n] = claims[n]
    BY <1>0, <2>1 DEF TypeOK
  <2>4. \A r \in Runners : Holding(r) => mail[r] \in shared' \/ claims'[mail[r]] = "claimed"
    BY <1>0, <2>1, <2>2, <2>3 DEF ThreadsInv, Holding
  <2>5. QED
    BY <1>0, <1>a, <2>1, <2>4 DEF ThreadsInv, Holding
<1>4. ASSUME NEW r \in Runners, Work(r) PROVE ThreadsInv'
  <2>1. /\ mail[r] \in Mails /\ pc[r] = "work" /\ pc' = [pc EXCEPT ![r] = "mark"]
        /\ UNCHANGED <<config, claims, mail, batch, shared>>
    BY <1>0, <1>4, WorkResult
  <2>2. QED
    BY <1>0, <1>a, <2>1 DEF ThreadsInv, Holding, TypeOK, Runners
<1>5. ASSUME NEW r \in Runners, pc[r] \in {"work", "mark"}, pc' = [pc EXCEPT ![r] = "run"],
             mail' = [mail EXCEPT ![r] = 0], NEW c, claims' = [claims EXCEPT ![mail[r]] = c],
             UNCHANGED <<config, batch, shared>>
      PROVE ThreadsInv'
  <2>1. \A q \in Runners : q # r => pc'[q] = pc[q] /\ mail'[q] = mail[q]
    BY <1>0, <1>5 DEF TypeOK
  <2>2. pc'[r] = "run" /\ pc[r] # "off"
    BY <1>0, <1>5 DEF TypeOK
  <2>3. \A q \in Runners : q # r /\ Holding(q) => mail[q] \in shared \/ claims'[mail[q]] = "claimed"
    BY <1>0, <1>5 DEF TypeOK, ThreadsInv, Holding
  <2>4. \A a \in Apps : batch'[a] # <<>> => pc'[a] = "off" /\ ~Live'
    BY <1>0, <1>a, <1>5, <2>1, <2>2 DEF ThreadsInv, Runners
  <2>5. \A q \in Runners : pc'[q] \in {"create", "reclaim", "work", "mark"} => mail'[q] \in Mails
    BY <1>0, <2>1, <2>2 DEF ThreadsInv
  <2>6. \A q \in Runners : Holding(q)' => mail'[q] \in shared' \/ claims'[mail'[q]] = "claimed"
    BY <1>0, <1>5, <2>1, <2>2, <2>3 DEF ThreadsInv, Holding
  <2>7. \A q, u \in Runners : Holding(q)' /\ Holding(u)' /\ mail'[q] = mail'[u] => q = u \/ mail'[q] \in shared'
    BY <1>0, <1>5, <2>1, <2>2 DEF ThreadsInv, Holding
  <2>8. QED
    BY <2>4, <2>5, <2>6, <2>7 DEF ThreadsInv
<1>6. ASSUME NEW r \in Runners, Mark(r) \/ EmitRaises(r) PROVE ThreadsInv'
  BY <1>5, <1>6 DEF Mark, EmitRaises, Goto, history
<1>7. ASSUME NEW r \in Runners, PassRaises(r) PROVE ThreadsInv'
  BY <1>0, <1>a, <1>7 DEF ThreadsInv, Holding, TypeOK, PassRaises, Goto, Runners
<1>8. ASSUME NEW a \in Apps, StartPass(a) PROVE ThreadsInv'
  BY <1>0, <1>a, <1>8 DEF ThreadsInv, Holding, TypeOK, StartPass, Goto, Runners
<1>9. ASSUME NEW a \in Apps, EndPass(a) PROVE ThreadsInv'
  BY <1>0, <1>a, <1>9 DEF ThreadsInv, Holding, TypeOK, EndPass, Goto, Runners
<1>10. ASSUME NEW a \in Apps, NEW l \in Lives, Stream(a, l) PROVE ThreadsInv'
  BY <1>0, <1>a, <1>10 DEF ThreadsInv, Holding, TypeOK, Stream, Runners
<1>11. ASSUME NEW a \in Apps, Yield(a) PROVE ThreadsInv'
  BY <1>0, <1>a, <1>11 DEF ThreadsInv, Holding, TypeOK, Yield, Runners
<1>12. ASSUME NEW a \in Apps, Take(a) PROVE ThreadsInv'
  BY <1>0, <1>a, <1>12 DEF ThreadsInv, Holding, Take
<1>13. ASSUME NEW a \in Apps, Leave(a) PROVE ThreadsInv'
  BY <1>0, <1>a, <1>13 DEF ThreadsInv, Holding, TypeOK, Leave, Goto, Runners
<1>14. ASSUME NEW l \in Lives, Run(l) PROVE ThreadsInv'
  BY <1>0, <1>a, <1>14 DEF ThreadsInv, Holding, TypeOK, Run, Goto, Runners
<1>15. QED
  BY <1>1, <1>2, <1>3, <1>4, <1>6, <1>7, <1>8, <1>9, <1>10, <1>11, <1>12, <1>13, <1>14, <1>16,
     <1>17, <1>18, <1>19
     DEF Next, Advance, Consume

----------------------------------------------------------------------------
(* The queue and the drained batches.                                      *)

LEMMA WhatIsBuffered ==
  /\ Buffered = In(queue) \cup UNION {In(batch[a]) : a \in Apps}
  /\ TypeOK => Buffered \subseteq Mails
<1>1. Buffered = In(queue) \cup UNION {In(batch[a]) : a \in Apps}
  BY DEF Buffered, In
<1>2. ASSUME TypeOK PROVE Buffered \subseteq Mails
  BY <1>2 DEF Buffered, TypeOK
<1>3. QED
  BY <1>1, <1>2

\* What is shared stays so.
LEMMA SharedGrows ==
  ASSUME Next PROVE shared \subseteq shared'
<1> USE DEF history
<1>1. ASSUME NEW r \in Runners, Advance(r) \/ Refuse(r) \/ EmitRaises(r) \/ PassRaises(r)
      PROVE  shared \subseteq shared'
  BY <1>1 DEF Advance, Claim, Look, Set, Work, Mark, Refuse, EmitRaises, PassRaises
<1>2. ASSUME NEW a \in Apps, Consume(a) \/ Leave(a) PROVE shared \subseteq shared'
  BY <1>2 DEF Consume, StartPass, EndPass, Stream, Yield, Take, Leave
<1>3. ASSUME NEW l \in Lives, Run(l) PROVE shared \subseteq shared'
  BY <1>3 DEF Run
<1>4. Arrive \/ Crash => shared \subseteq shared'
  BY DEF Arrive, Crash
<1>5. ASSUME NEW m \in Mails, LeaseElapses(m) PROVE shared \subseteq shared'
  BY <1>5 DEF LeaseElapses
<1>6. QED
  BY <1>1, <1>2, <1>3, <1>4, <1>5 DEF Next

\* Only a crash makes the pipeline put a mail out again.
LEMMA StaysOut ==
  ASSUME DeliveryInv, Next, ~Crash, NEW m \in Mails, m \notin shared', PutOut(m)
  PROVE  PutOut(m)'
<1> USE DEF marks, threads
<1>0. TypeOK /\ ThreadsInv
  BY DEF DeliveryInv, DeliveryTypeOK
<1>a. m \notin shared
  BY SharedGrows
\* A thread other than the one that waits for its mark does nothing to the mail.
<1>b. ASSUME claims[m] = "done" => claims'[m] = "done",
             \A r \in Runners : pc[r] = "mark" /\ mail[r] = m =>
               claims'[m] = "done" \/ (pc'[r] = "mark" /\ mail'[r] = m)
      PROVE  PutOut(m)'
  BY <1>b DEF PutOut
<1>1. Arrive => PutOut(m)'
  BY DEF Arrive, PutOut
<1>2. ASSUME NEW r \in Runners, Claim(r) PROVE PutOut(m)'
  <2>1. PICK n \in Mails : /\ claims[n] # "done" /\ claims' = [claims EXCEPT ![n] = "claimed"]
                           /\ mail' = [mail EXCEPT ![r] = n]
    BY <1>2 DEF Claim, IsNext, Fetchable, Claimable
  <2>2. pc[r] = "run" /\ pc' = [pc EXCEPT ![r] = "work"]
    BY <1>2 DEF Claim, Goto
  <2>3. QED
    BY <1>0, <1>b, <2>1, <2>2 DEF TypeOK
<1>3. ASSUME NEW r \in Runners, Look(r) PROVE PutOut(m)'
  <2>1. PICK n \in Mails, p \in {"create", "reclaim"} :
          pc' = [pc EXCEPT ![r] = p] /\ mail' = [mail EXCEPT ![r] = n]
    BY <1>3 DEF Look, Goto
  <2>2. pc[r] = "run" /\ claims' = claims
    BY <1>3 DEF Look
  <2>3. QED
    BY <1>0, <1>b, <2>1, <2>2 DEF TypeOK
<1>4. ASSUME NEW r \in Runners, Set(r) PROVE PutOut(m)'
  <2>1. PICK n \in Mails : n = mail[r]
    BY <1>0, <1>4 DEF Set, ThreadsInv
  <2>2. /\ pc[r] \in {"create", "reclaim"} /\ pc' = [pc EXCEPT ![r] = "work"] /\ mail' = mail
    BY <1>4 DEF Set, Goto
  <2>3. /\ claims' = [claims EXCEPT ![n] = IF pc[r] = "reclaim" /\ @ = "done" THEN "done" ELSE "claimed"]
        /\ claims[n] = "done" => n \in shared'
    BY <1>4, <2>1 DEF Set
  <2>4. claims[m] = "done" => claims'[m] = "done"
    BY <1>0, <2>3 DEF TypeOK
  <2>5. QED
    BY <1>0, <1>b, <2>2, <2>4 DEF TypeOK
<1>5. ASSUME NEW r \in Runners, Refuse(r) PROVE PutOut(m)'
  BY <1>5 DEF Refuse, PutOut
<1>6. ASSUME NEW r \in Runners, Work(r) PROVE PutOut(m)'
  BY <1>0, <1>6, WorkResult DEF TypeOK, PutOut
<1>7. ASSUME NEW r \in Runners, Mark(r) PROVE PutOut(m)'
  <2>1. PICK n \in Mails : n = mail[r]
    BY <1>0, <1>7 DEF Mark, ThreadsInv
  <2>2. /\ pc' = [pc EXCEPT ![r] = "run"] /\ mail' = [mail EXCEPT ![r] = 0]
        /\ claims' = [claims EXCEPT ![n] = "done"]
    BY <1>7, <2>1 DEF Mark, Goto
  <2>3. claims'[n] = "done" /\ \A q \in Runners : q # r => pc'[q] = pc[q] /\ mail'[q] = mail[q]
    BY <1>0, <2>2 DEF TypeOK
  <2>4. claims[m] = "done" => claims'[m] = "done"
    BY <1>0, <2>2 DEF TypeOK
  <2>5. QED
    BY <1>b, <2>1, <2>3, <2>4
<1>8. ASSUME NEW r \in Runners, EmitRaises(r) PROVE PutOut(m)'
  <2>1. PICK n \in Mails : n = mail[r]
    BY <1>0, <1>8 DEF EmitRaises, ThreadsInv
  <2>2. /\ pc[r] = "work" /\ pc' = [pc EXCEPT ![r] = "run"] /\ mail' = [mail EXCEPT ![r] = 0]
        /\ claims' = [claims EXCEPT ![n] = IF @ = "done" THEN @ ELSE "free"]
    BY <1>8, <2>1 DEF EmitRaises, Goto
  <2>3. claims[m] = "done" => claims'[m] = "done"
    BY <1>0, <2>2 DEF TypeOK
  <2>4. QED
    BY <1>0, <1>b, <2>2, <2>3 DEF TypeOK
<1>9. ASSUME NEW r \in Runners, NEW p, pc[r] # "mark", pc' = [pc EXCEPT ![r] = p],
             UNCHANGED <<claims, mail>>
      PROVE  PutOut(m)'
  BY <1>0, <1>9, <1>b DEF TypeOK
<1>10. ASSUME NEW r \in Runners, PassRaises(r) PROVE PutOut(m)'
  BY <1>9, <1>10 DEF PassRaises, Goto
<1>11. ASSUME NEW a \in Apps, StartPass(a) \/ EndPass(a) \/ Leave(a) PROVE PutOut(m)'
  BY <1>9, <1>11 DEF StartPass, EndPass, Leave, Goto, Runners
<1>12. ASSUME NEW a \in Apps, NEW l \in Lives, Stream(a, l) PROVE PutOut(m)'
  BY <1>0, <1>b, <1>12 DEF TypeOK, Stream, Runners
<1>13. ASSUME NEW a \in Apps, Yield(a) \/ Take(a) PROVE PutOut(m)'
  BY <1>13 DEF Yield, Take, PutOut
<1>14. ASSUME NEW l \in Lives, Run(l) PROVE PutOut(m)'
  BY <1>9, <1>14 DEF Run, Goto, Runners
<1>15. ASSUME NEW n \in Mails, LeaseElapses(n) PROVE PutOut(m)'
  <2>1. /\ claims[n] = "claimed" /\ claims' = [claims EXCEPT ![n] = "expired"]
        /\ UNCHANGED <<pc, mail>>
    BY <1>15 DEF LeaseElapses
  <2>2. claims[m] = "done" => claims'[m] = "done"
    BY <1>0, <2>1 DEF TypeOK
  <2>3. QED
    BY <1>b, <2>1, <2>2
<1>16. QED
  BY <1>1, <1>2, <1>3, <1>4, <1>5, <1>6, <1>7, <1>8, <1>10, <1>11, <1>12, <1>13, <1>14, <1>15
     DEF Next, Advance, Consume

\* How the buffers change, and what leaves them.
Drained(a) == batch[a] = <<>> /\ batch' = [batch EXCEPT ![a] = queue] /\ queue' = <<>>
Taken(m) == queue # <<>> /\ m = Head(queue) /\ queue' = Tail(queue) /\ batch' = batch
Yielded(a, m) ==
  batch[a] # <<>> /\ m = Head(batch[a]) /\ batch' = [batch EXCEPT ![a] = Tail(@)] /\ queue' = queue
Dropped(a) == batch' = [batch EXCEPT ![a] = <<>>] /\ queue' = queue
Filled(m) ==
  /\ \E r \in Runners : pc[r] = "work" /\ mail[r] = m
  /\ queue' = Append(queue, m) /\ batch' = batch
Cleared == queue' = <<>> /\ batch' = [a \in Apps |-> <<>>]

LEMMA DrainedKeeps ==
  ASSUME TypeOK, NEW a \in Apps, Drained(a)
  PROVE  Buffered' = Buffered /\ \A m : Single(m) => Single(m)'
<1>1. /\ \A b \in Apps : batch'[b] = IF b = a THEN queue ELSE batch[b]
      /\ queue' = <<>> /\ batch[a] = <<>>
  BY DEF TypeOK, Drained
<1>2. ASSUME NEW m, Single(m) PROVE Single(m)'
  BY <1>1, <1>2, Empty DEF Single
<1>3. Buffered' = In(queue') \cup UNION {In(batch'[b]) : b \in Apps}
  BY DEF Buffered, In
<1>4. QED
  BY <1>1, <1>2, <1>3, WhatIsBuffered, Empty

LEMMA TakenRemoves ==
  ASSUME TypeOK, NEW n, Taken(n)
  PROVE  /\ n \in Buffered /\ Buffered' \subseteq Buffered /\ Buffered \subseteq Buffered' \cup {n}
         /\ \A m : Single(m) => Single(m)'
         /\ Single(n) => n \notin Buffered'
<1>1. /\ n \in In(queue) /\ In(queue) = {n} \cup In(queue') /\ batch' = batch
      /\ \A m : OnceIn(queue, m) => OnceIn(queue', m)
      /\ OnceIn(queue, n) => n \notin In(queue')
  BY Heads DEF TypeOK, Taken
<1>2. ASSUME NEW m, Single(m) PROVE Single(m)'
  BY <1>1, <1>2 DEF Single
<1>3. Buffered' = In(queue') \cup UNION {In(batch'[b]) : b \in Apps}
  BY DEF Buffered, In
<1>4. Single(n) => n \notin Buffered'
  BY <1>1, <1>3 DEF Single
<1>5. QED
  BY <1>1, <1>2, <1>3, <1>4, WhatIsBuffered

LEMMA YieldedRemoves ==
  ASSUME TypeOK, NEW a \in Apps, NEW n, Yielded(a, n)
  PROVE  /\ n \in Buffered /\ Buffered' \subseteq Buffered /\ Buffered \subseteq Buffered' \cup {n}
         /\ \A m : Single(m) => Single(m)'
         /\ Single(n) => n \notin Buffered'
<1>1. /\ n \in In(batch[a]) /\ In(batch[a]) = {n} \cup In(Tail(batch[a])) /\ queue' = queue
      /\ \A m : OnceIn(batch[a], m) => OnceIn(Tail(batch[a]), m)
      /\ OnceIn(batch[a], n) => n \notin In(Tail(batch[a]))
  BY Heads DEF TypeOK, Yielded
<1>2. \A b \in Apps : batch'[b] = IF b = a THEN Tail(batch[a]) ELSE batch[b]
  BY DEF TypeOK, Yielded
<1>3. ASSUME NEW m, Single(m) PROVE Single(m)'
  BY <1>1, <1>2, <1>3 DEF Single
<1>4. Buffered' = In(queue') \cup UNION {In(batch'[b]) : b \in Apps}
  BY DEF Buffered, In
<1>5. Single(n) => n \notin Buffered'
  BY <1>1, <1>2, <1>4 DEF Single
<1>6. QED
  BY <1>1, <1>2, <1>3, <1>4, <1>5, WhatIsBuffered

LEMMA DroppedRemoves ==
  ASSUME TypeOK, NEW a \in Apps, Dropped(a)
  PROVE  /\ Buffered' \subseteq Buffered /\ Buffered \subseteq Buffered' \cup In(batch[a])
         /\ \A m : Single(m) => Single(m)'
<1>1. queue' = queue /\ \A b \in Apps : batch'[b] = IF b = a THEN <<>> ELSE batch[b]
  BY DEF TypeOK, Dropped
<1>2. ASSUME NEW m, Single(m) PROVE Single(m)'
  BY <1>1, <1>2, Empty DEF Single
<1>3. Buffered' = In(queue') \cup UNION {In(batch'[b]) : b \in Apps}
  BY DEF Buffered, In
<1>4. QED
  BY <1>1, <1>2, <1>3, WhatIsBuffered, Empty

LEMMA FilledAdds ==
  ASSUME TypeOK, NEW n \in Mails, Filled(n)
  PROVE  /\ Buffered' = Buffered \cup {n}
         /\ \A m : Single(m) /\ m # n => Single(m)'
         /\ n \notin Buffered /\ Single(n) => Single(n)'
<1>1. /\ In(queue') = In(queue) \cup {n} /\ batch' = batch
      /\ \A m : OnceIn(queue, m) /\ m # n => OnceIn(queue', m)
      /\ n \notin In(queue) => OnceIn(queue', n)
  BY Appended DEF TypeOK, Filled
<1>2. ASSUME NEW m, Single(m), m # n PROVE Single(m)'
  BY <1>1, <1>2 DEF Single
<1>3. ASSUME n \notin Buffered, Single(n) PROVE Single(n)'
  <2>1. n \notin In(queue) /\ \A b \in Apps : n \notin In(batch[b])
    BY <1>3, WhatIsBuffered
  <2>2. QED
    BY <1>1, <1>3, <2>1 DEF Single
<1>4. Buffered' = In(queue') \cup UNION {In(batch'[b]) : b \in Apps}
  BY DEF Buffered, In
<1>5. QED
  BY <1>1, <1>2, <1>3, <1>4, WhatIsBuffered

LEMMA ClearedEmpties ==
  ASSUME Cleared
  PROVE  Buffered' = {} /\ \A m : Single(m)'
<1>1. \A m : Single(m)'
  BY Empty DEF Single, Cleared
<1>2. Buffered' = In(queue') \cup UNION {In(batch'[b]) : b \in Apps}
  BY DEF Buffered, In
<1>3. QED
  BY <1>1, <1>2, Empty DEF Cleared

\* Which step changes the buffers how.
LEMMA BufferSteps ==
  ASSUME DeliveryInv, Next
  PROVE  \/ buffers' = buffers
         \/ Crash /\ Cleared
         \/ \E a \in Apps : EndPass(a) /\ Drained(a)
         \/ \E a \in Apps : Take(a) /\ Taken(Head(queue))
         \/ \E a \in Apps : Yield(a) /\ Yielded(a, Head(batch[a]))
         \/ \E a \in Apps : Leave(a) /\ Dropped(a)
         \/ \E r \in Runners : Work(r) /\ Queued(mail[r]) /\ Filled(mail[r])
<1>0. TypeOK /\ ThreadsInv
  BY DEF DeliveryInv, DeliveryTypeOK
<1>1. ASSUME NEW a \in Apps, EndPass(a) PROVE Drained(a)
  BY <1>0, <1>1 DEF EndPass, Drained, ThreadsInv
<1>2. ASSUME NEW r \in Runners, Work(r)
      PROVE  buffers' = buffers \/ (Queued(mail[r]) /\ Filled(mail[r]))
  <2>1. batch' = batch /\ pc[r] = "work"
    BY <1>0, <1>2, WorkResult
  <2>2. Queued(mail[r]) => Filled(mail[r])
    BY <2>1 DEF Queued, Filled
  <2>3. QED
    BY <1>0, <1>2, <2>1, <2>2, WorkResult DEF Withheld, Queued, Called, Published, buffers
<1>3. ASSUME NEW a \in Apps, Leave(a) PROVE Dropped(a)
  BY <1>3 DEF Leave, Dropped
<1>4. ASSUME NEW a \in Apps, Take(a) PROVE Taken(Head(queue))
  BY <1>4 DEF Take, Taken
<1>5. ASSUME NEW a \in Apps, Yield(a) PROVE Yielded(a, Head(batch[a]))
  BY <1>5 DEF Yield, Yielded
<1>6. Crash => Cleared
  BY DEF Crash, Cleared
<1>7. Arrive => buffers' = buffers
  BY DEF Arrive
<1>8. ASSUME NEW r \in Runners, \/ Claim(r) \/ Look(r) \/ Set(r) \/ Refuse(r) \/ Mark(r)
                                \/ EmitRaises(r) \/ PassRaises(r)
      PROVE  buffers' = buffers
  BY <1>8 DEF Claim, Look, Set, Refuse, Mark, EmitRaises, PassRaises
<1>12. ASSUME NEW m \in Mails, LeaseElapses(m) PROVE buffers' = buffers
  BY <1>12 DEF LeaseElapses
<1>9. ASSUME NEW a \in Apps, StartPass(a) \/ \E l \in Lives : Stream(a, l) PROVE buffers' = buffers
  BY <1>9 DEF StartPass, Stream
<1>10. ASSUME NEW l \in Lives, Run(l) PROVE buffers' = buffers
  BY <1>10 DEF Run
<1>11. QED
  BY <1>1, <1>2, <1>3, <1>4, <1>5, <1>6, <1>7, <1>8, <1>9, <1>10, <1>12 DEF Next, Advance, Consume

LEMMA StillBuffers ==
  ASSUME DeliveryInv, Next
  PROVE  /\ BuffersInv'
         /\ \/ Crash
            \/ \A m \in Mails \ shared' : Due(m)' => Due(m)
<1>0. /\ TypeOK /\ ThreadsInv /\ Buffered \subseteq Mails /\ shared \subseteq shared'
      /\ \A m \in Mails \ shared : Single(m) /\ (m \in Buffered => PutOut(m))
  BY WhatIsBuffered, SharedGrows DEF DeliveryInv, DeliveryTypeOK, BuffersInv
<1>1. CASE Crash
  <2>1. Cleared
    BY <1>1 DEF Crash, Cleared
  <2>2. QED
    BY <1>1, <2>1, ClearedEmpties DEF BuffersInv
<1>2. CASE ~Crash
  <2>1. \A m \in Mails \ shared' : PutOut(m) => PutOut(m)'
    BY <1>2, StaysOut
  <2>2. ASSUME Buffered' \subseteq Buffered, \A m : Single(m) => Single(m)'
        PROVE  BuffersInv' /\ \A m \in Mails \ shared' : Due(m)' => Due(m)
    BY <1>0, <2>1, <2>2 DEF BuffersInv, Due
  <2>3. CASE buffers' = buffers
    <3>1. Buffered' = Buffered /\ \A m : Single(m)' = Single(m)
      BY <2>3 DEF Single, Buffered, buffers
    <3>2. QED
      BY <2>2, <3>1
  <2>4. ASSUME NEW a \in Apps, Drained(a)
        PROVE  Buffered' \subseteq Buffered /\ \A m : Single(m) => Single(m)'
    BY <1>0, <2>4, DrainedKeeps
  <2>5. ASSUME NEW n, Taken(n) PROVE Buffered' \subseteq Buffered /\ \A m : Single(m) => Single(m)'
    BY <1>0, <2>5, TakenRemoves
  <2>6. ASSUME NEW a \in Apps, NEW n, Yielded(a, n)
        PROVE  Buffered' \subseteq Buffered /\ \A m : Single(m) => Single(m)'
    BY <1>0, <2>6, YieldedRemoves
  <2>7. ASSUME NEW a \in Apps, Dropped(a)
        PROVE  Buffered' \subseteq Buffered /\ \A m : Single(m) => Single(m)'
    BY <1>0, <2>7, DroppedRemoves
  <2>8. ASSUME NEW r \in Runners, Work(r), Filled(mail[r])
        PROVE  BuffersInv' /\ \A m \in Mails \ shared' : Due(m)' => Due(m)
    <3>1. PICK n \in Mails : n = mail[r]
      BY <1>0, <2>8, WorkResult
    <3>2. /\ pc[r] = "work" /\ pc' = [pc EXCEPT ![r] = "mark"] /\ mail' = mail /\ shared' = shared
      BY <1>0, <2>8, WorkResult
    <3>3. n \notin shared => ~PutOut(n) /\ n \notin Buffered
      BY <1>0, <3>1, <3>2 DEF PutOut, ThreadsInv, Holding
    <3>4. /\ Buffered' = Buffered \cup {n} /\ (\A m : Single(m) /\ m # n => Single(m)')
          /\ n \notin Buffered /\ Single(n) => Single(n)'
      BY <1>0, <2>8, <3>1, FilledAdds
    <3>5. PutOut(n)'
      BY <1>0, <3>1, <3>2 DEF PutOut, TypeOK
    <3>6. BuffersInv'
      BY <1>0, <2>1, <3>2, <3>3, <3>4, <3>5 DEF BuffersInv
    <3>7. QED
      BY <2>1, <3>2, <3>3, <3>4, <3>5, <3>6 DEF Due
  <2>9. QED
    BY <1>2, <2>2, <2>3, <2>4, <2>5, <2>6, <2>7, <2>8, BufferSteps
<1>3. QED
  BY <1>1, <1>2

----------------------------------------------------------------------------
(* How often a mail is handed out.                                         *)

\* Which step hands out what.
LEMMA HandingSteps ==
  ASSUME DeliveryInv, Next
  PROVE  \/ got' = got
         \/ \E r \in Runners : Work(r) /\ Called(mail[r])
         \/ \E r \in Runners : EmitRaises(r) /\ mail[r] \in Mails /\ got' = [got EXCEPT ![mail[r]] = @ + 1]
         \/ \E a \in Apps : Take(a) /\ Taken(Head(queue)) /\ got' = [got EXCEPT ![Head(queue)] = @ + 1]
         \/ \E a \in Apps : /\ Yield(a) /\ Yielded(a, Head(batch[a]))
                            /\ got' = [got EXCEPT ![Head(batch[a])] = @ + 1]
<1>0. TypeOK /\ ThreadsInv
  BY DEF DeliveryInv, DeliveryTypeOK
<1>1. ASSUME NEW r \in Runners, Work(r) PROVE got' = got \/ Called(mail[r])
  BY <1>0, <1>1, WorkResult DEF Withheld, Queued, Published
<1>2. ASSUME NEW r \in Runners, EmitRaises(r)
      PROVE  mail[r] \in Mails /\ (got' = got \/ got' = [got EXCEPT ![mail[r]] = @ + 1])
  BY <1>0, <1>2 DEF EmitRaises, ThreadsInv, Holding
<1>3. ASSUME NEW a \in Apps, Take(a)
      PROVE  Taken(Head(queue)) /\ got' = [got EXCEPT ![Head(queue)] = @ + 1]
  BY <1>3 DEF Take, Taken
<1>4. ASSUME NEW a \in Apps, Yield(a)
      PROVE  Yielded(a, Head(batch[a])) /\ got' = [got EXCEPT ![Head(batch[a])] = @ + 1]
  BY <1>4 DEF Yield, Yielded
<1>5. Arrive \/ Crash => got' = got
  BY DEF Arrive, Crash, history
<1>6. ASSUME NEW r \in Runners, \/ Claim(r) \/ Look(r) \/ Set(r) \/ Refuse(r) \/ Mark(r)
                                \/ PassRaises(r)
      PROVE  got' = got
  BY <1>6 DEF Claim, Look, Set, Refuse, Mark, PassRaises, history
<1>10. ASSUME NEW m \in Mails, LeaseElapses(m) PROVE got' = got
  BY <1>10 DEF LeaseElapses
<1>7. ASSUME NEW a \in Apps, StartPass(a) \/ EndPass(a) \/ Leave(a) \/ \E l \in Lives : Stream(a, l)
      PROVE  got' = got
  BY <1>7 DEF StartPass, EndPass, Leave, Stream, history
<1>8. ASSUME NEW l \in Lives, Run(l) PROVE got' = got
  BY <1>8 DEF Run, history
<1>9. QED
  BY <1>1, <1>2, <1>3, <1>4, <1>5, <1>6, <1>7, <1>8, <1>10 DEF Next, Advance, Consume

LEMMA FaultsGrow ==
  ASSUME TypeOK, Next
  PROVE  /\ faults' = faults \/ faults' = faults + 1
         /\ Crash => faults' = faults + 1 /\ got' = got
<1>1. ASSUME NEW r \in Runners, Advance(r) \/ Refuse(r) \/ EmitRaises(r) \/ PassRaises(r)
      PROVE  faults' = faults \/ faults' = faults + 1
  BY <1>1 DEF Advance, Claim, Look, Set, Work, Mark, Refuse, EmitRaises, PassRaises
<1>6. ASSUME NEW m \in Mails, LeaseElapses(m) PROVE faults' = faults \/ faults' = faults + 1
  BY <1>6 DEF LeaseElapses
<1>2. ASSUME NEW a \in Apps, Consume(a) \/ Leave(a)
      PROVE  faults' = faults \/ faults' = faults + 1
  BY <1>2 DEF Consume, StartPass, EndPass, Stream, Yield, Take, Leave
<1>3. ASSUME NEW l \in Lives, Run(l) PROVE faults' = faults
  BY <1>3 DEF Run
<1>4. (Arrive => faults' = faults) /\ (Crash => faults' = faults + 1 /\ got' = got)
  BY DEF Arrive, Crash
<1>5. QED
  BY <1>1, <1>2, <1>3, <1>4, <1>6 DEF Next

LEMMA StillHanded == DeliveryInv /\ Next => HandedInv'
<1> SUFFICES ASSUME DeliveryInv, Next PROVE HandedInv'
  OBVIOUS
<1>0. /\ TypeOK /\ ThreadsInv /\ BuffersInv /\ Buffered \subseteq Mails
      /\ HandedInv /\ got \in [Mails -> Nat] /\ faults \in Nat /\ shared \subseteq shared'
  BY WhatIsBuffered, SharedGrows DEF DeliveryInv, DeliveryTypeOK, TypeOK
<1>1. /\ faults' \in Nat /\ faults' >= faults
      /\ Crash => faults' = faults + 1 /\ got' = got
  BY <1>0, FaultsGrow
<1>2. CASE Crash
  BY <1>0, <1>1, <1>2 DEF HandedInv
<1>3. CASE ~Crash
  <2>1. \A m \in Mails \ shared' : Due(m)' => Due(m)
    BY <1>3, StillBuffers
  <2>2. CASE got' = got
    BY <1>0, <1>1, <2>1, <2>2 DEF HandedInv
  <2>3. ASSUME NEW n \in Mails, got' = [got EXCEPT ![n] = @ + 1],
               n \notin shared' => Due(n) /\ (~Due(n)' \/ faults' = faults + 1)
        PROVE  HandedInv'
    <3>1. got'[n] = got[n] + 1 /\ \A m \in Mails : m # n => got'[m] = got[m]
      BY <1>0, <2>3
    <3>2. ASSUME NEW m \in Mails \ shared'
          PROVE  got'[m] <= 1 + faults' /\ (Due(m)' => got'[m] <= faults')
      <4>1. got[m] <= 1 + faults /\ (Due(m) => got[m] <= faults) /\ got[m] \in Nat
        BY <1>0, <3>2 DEF HandedInv
      <4>2. CASE m = n
        <5>1. Due(m) /\ (~Due(m)' \/ faults' = faults + 1) /\ got'[m] = got[m] + 1
          BY <2>3, <3>1, <3>2, <4>2
        <5>2. QED
          BY <1>0, <1>1, <4>1, <5>1
      <4>3. CASE m # n
        BY <1>0, <1>1, <2>1, <3>1, <3>2, <4>1, <4>3
      <4>4. QED
        BY <4>2, <4>3
    <3>3. QED
      BY <3>2 DEF HandedInv
  <2>4. ASSUME NEW r \in Runners, Work(r), Called(mail[r]) PROVE HandedInv'
    <3>1. PICK n \in Mails : n = mail[r]
      BY <1>0, <2>4, WorkResult
    <3>2. /\ pc[r] = "work" /\ pc' = [pc EXCEPT ![r] = "mark"] /\ mail' = mail /\ shared' = shared
          /\ queue' = queue /\ batch' = batch /\ got' = [got EXCEPT ![n] = @ + 1]
      BY <1>0, <2>4, <3>1, WorkResult DEF Called
    <3>3. n \notin shared => ~PutOut(n) /\ n \notin Buffered
      BY <1>0, <3>1, <3>2 DEF PutOut, ThreadsInv, Holding, BuffersInv
    <3>4. PutOut(n)'
      BY <1>0, <3>1, <3>2 DEF PutOut, TypeOK
    <3>5. Buffered' = Buffered
      BY <3>2 DEF Buffered
    <3>6. n \notin shared' => Due(n) /\ ~Due(n)'
      BY <3>2, <3>3, <3>4, <3>5 DEF Due
    <3>7. QED
      BY <2>3, <3>2, <3>6
  <2>5. ASSUME NEW r \in Runners, EmitRaises(r), mail[r] \in Mails,
               got' = [got EXCEPT ![mail[r]] = @ + 1]
        PROVE  HandedInv'
    <3>1. PICK n \in Mails : n = mail[r]
      BY <2>5
    <3>2. pc[r] = "work" /\ faults' = faults + 1 /\ got' = [got EXCEPT ![n] = @ + 1]
      BY <2>5, <3>1 DEF EmitRaises
    <3>3. n \notin shared' => Due(n)
      BY <1>0, <3>1, <3>2 DEF Due, PutOut, ThreadsInv, Holding
    <3>4. QED
      BY <2>3, <3>2, <3>3
  <2>6. ASSUME NEW n, n \in Buffered, Single(n) => n \notin Buffered', got' = [got EXCEPT ![n] = @ + 1]
        PROVE  HandedInv'
    <3>1. n \in Mails
      BY <1>0, <2>6
    <3>2. n \notin shared' => PutOut(n) /\ n \notin Buffered'
      BY <1>0, <2>6, <3>1 DEF BuffersInv
    <3>3. n \notin shared' => PutOut(n)'
      BY <1>3, <3>1, <3>2, StaysOut
    <3>4. n \notin shared' => Due(n) /\ ~Due(n)'
      BY <2>6, <3>2, <3>3 DEF Due
    <3>5. QED
      BY <2>3, <2>6, <3>1, <3>4
  <2>7. ASSUME NEW a \in Apps, Taken(Head(queue)), got' = [got EXCEPT ![Head(queue)] = @ + 1]
        PROVE  HandedInv'
    <3>1. PICK n : n = Head(queue)
      OBVIOUS
    <3>2. Taken(n) /\ got' = [got EXCEPT ![n] = @ + 1]
      BY <2>7, <3>1
    <3>3. QED
      BY <1>0, <2>6, <3>2, TakenRemoves
  <2>8. ASSUME NEW a \in Apps, Yielded(a, Head(batch[a])), got' = [got EXCEPT ![Head(batch[a])] = @ + 1]
        PROVE  HandedInv'
    <3>1. PICK n : n = Head(batch[a])
      OBVIOUS
    <3>2. Yielded(a, n) /\ got' = [got EXCEPT ![n] = @ + 1]
      BY <2>8, <3>1
    <3>3. QED
      BY <1>0, <2>6, <3>2, YieldedRemoves
  <2>9. QED
    BY <2>2, <2>4, <2>5, <2>7, <2>8, HandingSteps
<1>4. QED
  BY <1>2, <1>3

----------------------------------------------------------------------------
(* The consuming application.                                              *)

ArchiveStep == A!Next /\ UNCHANGED facade

\* The threads that hold an event of the mail.
Holders(m) == {c \in Callbacks : m \in hand[c]}

LEMMA HoldersCount ==
  ASSUME NEW m
  PROVE  /\ IsFiniteSet(Holders(m)) /\ Cardinality(Holders(m)) \in Nat
         /\ IsFiniteSet(Holders(m)') /\ Cardinality(Holders(m)') \in Nat
         /\ Holders(m)' \subseteq Holders(m) => Cardinality(Holders(m)') <= Cardinality(Holders(m))
         /\ \A c : c \in Holders(m) /\ Holders(m)' = Holders(m) \ {c}
                   => Cardinality(Holders(m)') = Cardinality(Holders(m)) - 1
         /\ \A c : Holders(m)' = Holders(m) \cup {c}
                   => Cardinality(Holders(m)') <= Cardinality(Holders(m)) + 1
<1>1. PICK S : S = Holders(m)
  OBVIOUS
<1>2. PICK T : T = Holders(m)'
  OBVIOUS
<1>3. S \subseteq Callbacks /\ T \subseteq Callbacks
  BY <1>1, <1>2 DEF Holders
<1>4. /\ IsFiniteSet(S) /\ Cardinality(S) \in Nat /\ IsFiniteSet(T) /\ Cardinality(T) \in Nat
  BY <1>3, DeliveryAssumption, FS_Subset, FS_CardinalityType
<1>5. T \subseteq S => Cardinality(T) <= Cardinality(S)
  BY <1>4, FS_Subset
<1>6. ASSUME NEW c, c \in S, T = S \ {c} PROVE Cardinality(T) = Cardinality(S) - 1
  BY <1>4, <1>6, FS_RemoveElement
<1>7. ASSUME NEW c, T = S \cup {c} PROVE Cardinality(T) <= Cardinality(S) + 1
  <2>1. Cardinality(T) = IF c \in S THEN Cardinality(S) ELSE Cardinality(S) + 1
    BY <1>4, <1>7, FS_AddElement
  <2>2. QED
    BY <1>4, <2>1
<1>8. QED
  BY <1>1, <1>2, <1>4, <1>5, <1>6, <1>7

\* The archive counts as everybody does.
LEMMA SameCount == \A S : A!Cardinality(S) = Cardinality(S)
BY Zenon DEF A!Cardinality, Cardinality

LEMMA StoredIs == A!Stored = In(rows)
BY DEF A!Stored, In

\* A second copy of an event leaves the table as it is.
LEMMA InsertKeepsRows ==
  ASSUME rows \in Seq(Mails), Once(rows), NEW m \in Mails, A!Insert(m)
  PROVE  /\ rows' \in Seq(Mails) /\ Once(rows') /\ read' = read
         /\ A!Stored' = A!Stored \cup {m}
<1>1. read' = read /\ (IF m \in A!Stored THEN rows' = rows ELSE rows' = Append(rows, m))
  BY DEF A!Insert
<1>2. A!Stored' = In(rows')
  BY DEF A!Stored, In
<1>3. CASE m \in A!Stored
  BY <1>1, <1>2, <1>3, StoredIs
<1>4. CASE m \notin A!Stored
  <2>1. PICK s : s = Append(rows, m)
    OBVIOUS
  <2>2. s \in Seq(Mails) /\ In(s) = In(rows) \cup {m} /\ Once(s)
    BY <1>4, <2>1, StoredIs, Appended
  <2>3. QED
    BY <1>1, <1>2, <1>4, <2>1, <2>2, StoredIs
<1>5. QED
  BY <1>3, <1>4

\* The event in the hand of a thread that works.
LEMMA InHand ==
  ASSUME DeliveryInv, NEW c \in Callbacks, savers[c] # "idle"
  PROVE  \E m \in Mails : hand[c] = {m}
BY DEF DeliveryInv, SaversInv

LEMMA StillSavers == DeliveryInv /\ ArchiveStep => SaversInv' /\ topic' \in [Mails -> Nat]
<1> SUFFICES ASSUME DeliveryInv, ArchiveStep PROVE SaversInv' /\ topic' \in [Mails -> Nat]
  OBVIOUS
<1> USE DEF A!table, A!workers, A!page
<1>0. /\ SaversInv /\ A!TypeOK /\ topic \in [Mails -> Nat] /\ rows \in Seq(Mails)
      /\ savers \in [Callbacks -> {"idle", "save", "ack"}] /\ hand \in [Callbacks -> SUBSET Mails]
  BY DEF DeliveryInv, DeliveryTypeOK, TypeOK, A!TypeOK
<1>1. \A m \in Mails : Cardinality(Holders(m)) <= topic[m] /\ Cardinality(Holders(m)) \in Nat
  BY <1>0, HoldersCount DEF SaversInv, Holders
<1>2. ASSUME NEW c \in Callbacks, A!Receive(c) PROVE SaversInv' /\ topic' \in [Mails -> Nat]
  <2>1. PICK m \in Mails : Cardinality(Holders(m)) < topic[m] /\ hand' = [hand EXCEPT ![c] = {m}]
    <3>1. PICK n \in Mails : /\ Cardinality({d \in Callbacks : n \in hand[d]}) < topic[n]
                             /\ hand' = [hand EXCEPT ![c] = {n}]
      BY <1>2, SameCount DEF A!Receive
    <3>2. QED
      BY <3>1 DEF Holders
  <2>2. /\ savers[c] = "idle" /\ savers' = [savers EXCEPT ![c] = "save"]
        /\ topic' = topic /\ rows' = rows /\ unsaved' = unsaved
    BY <1>2 DEF A!Receive
  <2>3. hand[c] = {} /\ \A d \in Callbacks : hand'[d] = IF d = c THEN {m} ELSE hand[d]
    BY <1>0, <2>1, <2>2 DEF SaversInv
  <2>4. Holders(m)' = Holders(m) \cup {c} /\ \A n \in Mails : n # m => Holders(n)' = Holders(n)
    BY <2>3 DEF Holders
  <2>5. \A n \in Mails : Cardinality(Holders(n)') <= topic'[n]
    <3>1. Cardinality(Holders(m)') <= Cardinality(Holders(m)) + 1 /\ Cardinality(Holders(m)') \in Nat
      BY <2>4, HoldersCount
    <3>2. Cardinality(Holders(m)') <= topic'[m]
      BY <1>0, <1>1, <2>1, <2>2, <3>1
    <3>3. QED
      BY <1>1, <2>2, <2>4, <3>2
  <2>6. A!Stored' = A!Stored
    BY <2>2 DEF A!Stored
  <2>7. \A d \in Callbacks : savers'[d] = IF d = c THEN "save" ELSE savers[d]
    BY <1>0, <2>2
  <2>8. QED
    BY <1>0, <2>2, <2>3, <2>5, <2>6, <2>7 DEF SaversInv, Holders
<1>3. ASSUME NEW c \in Callbacks, A!Save(c) PROVE SaversInv' /\ topic' \in [Mails -> Nat]
  <2>1. /\ savers[c] = "save" /\ savers' = [savers EXCEPT ![c] = "ack"]
        /\ topic' = topic /\ hand' = hand /\ unsaved' = unsaved
    BY <1>3 DEF A!Save
  <2>2. PICK m \in Mails : hand[c] = {m}
    BY <2>1, InHand
  <2>3. A!Insert(m)
    BY <1>3, <2>2 DEF A!Save
  <2>4. Once(rows') /\ A!Stored' = A!Stored \cup {m}
    BY <1>0, <2>3, InsertKeepsRows DEF SaversInv
  <2>5. \A d \in Callbacks : savers'[d] = IF d = c THEN "ack" ELSE savers[d]
    BY <1>0, <2>1
  <2>6. QED
    BY <1>0, <2>1, <2>2, <2>4, <2>5 DEF SaversInv
<1>4. ASSUME NEW c \in Callbacks, A!SaveRaises(c) PROVE SaversInv' /\ topic' \in [Mails -> Nat]
  <2>1. /\ savers[c] = "save" /\ savers' = [savers EXCEPT ![c] = "ack"]
        /\ topic' = topic /\ hand' = hand /\ unsaved' = unsaved \cup hand[c] /\ rows' = rows
    BY <1>4 DEF A!SaveRaises
  <2>2. A!Stored' = A!Stored /\ \A d \in Callbacks : savers'[d] = IF d = c THEN "ack" ELSE savers[d]
    BY <1>0, <2>1 DEF A!Stored
  <2>3. QED
    BY <1>0, <2>1, <2>2 DEF SaversInv
<1>5. ASSUME NEW c \in Callbacks, A!Ack(c) PROVE SaversInv' /\ topic' \in [Mails -> Nat]
  <2>1. /\ savers[c] = "ack" /\ savers' = [savers EXCEPT ![c] = "idle"]
        /\ hand' = [hand EXCEPT ![c] = {}] /\ rows' = rows /\ unsaved' = unsaved
        /\ topic' = [m \in Mails |-> IF m \in hand[c] THEN topic[m] - 1 ELSE topic[m]]
    BY <1>5 DEF A!Ack
  <2>2. PICK m \in Mails : hand[c] = {m}
    BY <2>1, InHand
  <2>3. A!Stored' = A!Stored /\ \A d \in Callbacks : /\ savers'[d] = IF d = c THEN "idle" ELSE savers[d]
                                                   /\ hand'[d] = IF d = c THEN {} ELSE hand[d]
    BY <1>0, <2>1 DEF A!Stored
  <2>4. /\ c \in Holders(m) /\ Holders(m)' = Holders(m) \ {c}
        /\ \A n \in Mails : n # m => Holders(n)' = Holders(n)
    BY <2>2, <2>3 DEF Holders
  <2>5. Cardinality(Holders(m)') = Cardinality(Holders(m)) - 1 /\ Cardinality(Holders(m)') \in Nat
    BY <2>4, HoldersCount
  <2>6. topic'[m] = topic[m] - 1 /\ topic[m] \in Nat /\ \A n \in Mails : n # m => topic'[n] = topic[n]
    BY <1>0, <2>1, <2>2
  <2>7. topic'[m] \in Nat /\ Cardinality(Holders(m)') <= topic'[m]
    BY <1>1, <2>5, <2>6
  <2>8. topic' \in [Mails -> Nat]
    BY <1>0, <2>1, <2>6, <2>7
  <2>9. \A n \in Mails : Cardinality(Holders(n)') <= topic'[n]
    BY <1>1, <2>4, <2>6, <2>7
  <2>10. QED
    BY <1>0, <2>1, <2>3, <2>8, <2>9 DEF SaversInv, Holders
<1>6. CASE A!Restart
  <2>1. /\ savers' = [c \in Callbacks |-> "idle"] /\ hand' = [c \in Callbacks |-> {}]
        /\ topic' = topic /\ rows' = rows
    BY <1>6 DEF A!Restart
  <2>2. \A n \in Mails : Holders(n)' \subseteq Holders(n)
    BY <2>1 DEF Holders
  <2>3. \A n \in Mails : Cardinality(Holders(n)') <= topic'[n]
    BY <1>0, <1>1, <2>1, <2>2, HoldersCount
  <2>4. QED
    BY <1>0, <2>1, <2>3 DEF SaversInv, Holders
<1>7. ASSUME UNCHANGED <<topic, rows, savers, hand, unsaved>>
      PROVE  SaversInv' /\ topic' \in [Mails -> Nat]
  BY <1>0, <1>7 DEF SaversInv, A!Stored
<1>8. A!Page \/ A!Refresh \/ (\E k \in Keys : A!Click(k)) => UNCHANGED <<topic, rows, savers, hand, unsaved>>
  BY DEF A!Page, A!Refresh, A!Click, A!OpenGet, A!OpenRender, A!OpenPost, A!Poll, A!PollRender
<1>9. QED
  BY <1>2, <1>3, <1>4, <1>5, <1>6, <1>7, <1>8 DEF ArchiveStep, A!Next, A!Work

\* The table grows, and a row that is read stays read.
LEMMA TableGrows ==
  ASSUME DeliveryInv, ArchiveStep
  PROVE  /\ rows' \in Seq(Mails) /\ A!Stored \subseteq A!Stored' /\ A!Stored' \subseteq Mails
         /\ read \subseteq read' /\ read' \subseteq Mails
         /\ unsaved \subseteq unsaved' /\ unsaved' \subseteq Mails /\ late' \subseteq Mails
<1> USE DEF A!table, A!workers, A!page
<1>0. /\ rows \in Seq(Mails) /\ Once(rows) /\ read \subseteq Mails /\ hand \in [Callbacks -> SUBSET Mails]
      /\ unsaved \subseteq Mails /\ late \subseteq Mails
  BY DEF DeliveryInv, DeliveryTypeOK, A!TypeOK, SaversInv
<1>1. A!Stored \subseteq Mails
  BY <1>0 DEF A!Stored
<1>2. rows' = rows => A!Stored' = A!Stored
  BY DEF A!Stored
<1>3. ASSUME NEW c \in Callbacks, A!Save(c)
      PROVE  /\ rows' \in Seq(Mails) /\ A!Stored \subseteq A!Stored' /\ A!Stored' \subseteq Mails
             /\ read' = read /\ unsaved' = unsaved /\ late' \subseteq Mails
  <2>1. savers[c] = "save" /\ unsaved' = unsaved
    BY <1>3 DEF A!Save
  <2>2. PICK m \in Mails : hand[c] = {m}
    BY <2>1, InHand
  <2>3. A!Insert(m) /\ (late' = late \/ late' = late \cup {m})
    BY <1>3, <2>2 DEF A!Save
  <2>4. QED
    BY <1>0, <1>1, <2>1, <2>3, InsertKeepsRows
<1>4. ASSUME NEW c \in Callbacks, A!Receive(c) \/ A!Ack(c) \/ A!SaveRaises(c)
      PROVE  /\ rows' = rows /\ read' = read /\ late' = late
             /\ unsaved' = unsaved \/ unsaved' = unsaved \cup hand[c]
  BY <1>4 DEF A!Receive, A!Ack, A!SaveRaises
<1>5. CASE A!OpenPost
  <2>1. /\ rows' = rows /\ unsaved' = unsaved /\ late' = late
        /\ read' = read \cup UNION {A!Thread(k) : k \in opening.keys}
    BY <1>5 DEF A!OpenPost
  <2>2. \A k : A!Thread(k) \subseteq Mails
    BY DEF A!Thread, A!Stored, DeliveryInv, DeliveryTypeOK, A!TypeOK
  <2>3. QED
    BY <1>0, <1>1, <1>2, <2>1, <2>2
<1>6. A!Restart \/ A!OpenGet \/ A!OpenRender \/ A!Refresh \/ (\E k \in Keys : A!Click(k))
        => rows' = rows /\ read' = read /\ unsaved' = unsaved /\ late' = late
  BY DEF A!Restart, A!OpenGet, A!OpenRender, A!Refresh, A!Poll, A!PollRender, A!Click
<1>7. QED
  BY <1>0, <1>1, <1>2, <1>3, <1>4, <1>5, <1>6 DEF ArchiveStep, A!Next, A!Work, A!Page

\* The three steps of opening a conversation, and the two of a poll.
LEMMA StillPage == DeliveryInv /\ ArchiveStep => PageInv' /\ pane' \subseteq Mails /\ shown' \subseteq Mails
<1> SUFFICES ASSUME DeliveryInv, ArchiveStep PROVE PageInv' /\ pane' \subseteq Mails /\ shown' \subseteq Mails
  OBVIOUS
<1> USE DEF A!table, A!workers, A!page
<1>0. PageInv /\ pane \subseteq Mails /\ shown \subseteq Mails
  BY DEF DeliveryInv, DeliveryTypeOK, A!TypeOK
<1>1. \A k : A!Thread(k) \subseteq Mails
  BY DEF A!Thread, A!Stored, DeliveryInv, DeliveryTypeOK, A!TypeOK
<1>2. rows' = rows => \A k : A!Thread(k)' = A!Thread(k)
  BY DEF A!Thread, A!Stored
<1>3. A!NoTask \in Tasks /\ A!NoTask.step = "none"
  BY DEF A!NoTask, Tasks
<1>4. ASSUME NEW c \in Callbacks, A!Save(c) PROVE PageInv' /\ pane' \subseteq Mails /\ shown' \subseteq Mails
  <2>1. savers[c] = "save" /\ UNCHANGED <<open, pane, opening, polling, shown>>
    BY <1>4 DEF A!Save
  <2>2. PICK m \in Mails : hand[c] = {m}
    BY <2>1, InHand
  <2>3. /\ A!Insert(m)
        /\ late' = IF opening.step \in {"render", "post"} /\ KeyOf[m] \in opening.keys
                      THEN late \cup {m} ELSE late
    BY <1>4, <2>2 DEF A!Save
  <2>4. A!Stored' = A!Stored \cup {m} /\ read' = read
    BY <2>3, InsertKeepsRows DEF DeliveryInv, DeliveryTypeOK, A!TypeOK, SaversInv
  <2>5. \A k : A!Thread(k)' = A!Thread(k) \cup (IF KeyOf[m] = k THEN {m} ELSE {})
    BY <2>4 DEF A!Thread
  <2>6. ASSUME NEW k \in opening.keys, opening.step \in {"render", "post"}
        PROVE  \A S : A!Thread(k) \subseteq S \cup late => A!Thread(k)' \subseteq S \cup late'
    BY <2>3, <2>5, <2>6
  <2>7. late \subseteq late'
    BY <2>3
  <2>8. QED
    BY <1>0, <2>1, <2>4, <2>6, <2>7 DEF PageInv, ReadWasShown
<1>5. ASSUME UNCHANGED <<rows, read, late, open, opening, pane, polling, shown>>
      PROVE  PageInv' /\ pane' \subseteq Mails /\ shown' \subseteq Mails
  BY <1>0, <1>2, <1>5 DEF PageInv, ReadWasShown
<1>6. ASSUME NEW c \in Callbacks, A!Receive(c) \/ A!Ack(c) \/ A!SaveRaises(c)
      PROVE  UNCHANGED <<rows, read, late, open, opening, pane, polling, shown>>
  BY <1>6 DEF A!Receive, A!Ack, A!SaveRaises
<1>7. A!Restart => UNCHANGED <<rows, read, late, open, opening, pane, polling, shown>>
  BY DEF A!Restart
<1>8. ASSUME NEW k \in Keys, A!Click(k) PROVE PageInv' /\ pane' \subseteq Mails /\ shown' \subseteq Mails
  <2>1. opening' = [step |-> "get", keys |-> {k}, mails |-> {}] /\ open' = {k}
        /\ UNCHANGED <<rows, read, late, pane, polling, shown>>
    BY <1>8 DEF A!Click
  <2>2. opening' \in Tasks /\ opening'.step = "get" /\ opening'.keys = {k}
    BY <2>1 DEF Tasks
  <2>3. QED
    BY <1>0, <2>1, <2>2 DEF PageInv, ReadWasShown
<1>9. CASE A!OpenGet
  <2>1. opening.step = "get" /\ opening \in Tasks /\ UNCHANGED <<rows, read, late, open, pane, polling, shown>>
    BY <1>0, <1>9 DEF A!OpenGet, PageInv
  <2>2. PICK k \in Keys : opening.keys = {k}
    BY <1>0, <2>1 DEF PageInv
  <2>3. PICK S \in SUBSET Mails : S = A!Thread(k)
    BY <1>1
  <2>4. opening' = [opening EXCEPT !.step = "render", !.mails = S]
    BY <1>9, <2>2, <2>3 DEF A!OpenGet
  <2>5. opening' \in Tasks /\ opening'.step = "render" /\ opening'.keys = {k} /\ opening'.mails = S
    BY <2>1, <2>2, <2>4 DEF Tasks
  <2>6. A!Thread(k)' = S
    BY <1>2, <2>1, <2>3
  <2>7. QED
    BY <1>0, <2>1, <2>5, <2>6 DEF PageInv, ReadWasShown
<1>10. CASE A!OpenRender
  <2>1. /\ opening.step = "render" /\ opening \in Tasks /\ UNCHANGED <<rows, read, late, open, polling>>
        /\ opening' = [opening EXCEPT !.step = "post"]
        /\ pane' = opening.mails /\ shown' = shown \cup opening.mails
    BY <1>0, <1>10 DEF A!OpenRender, A!Render, PageInv
  <2>2. /\ opening' \in Tasks /\ opening'.step = "post" /\ opening'.keys = opening.keys
        /\ opening.mails \subseteq Mails
    BY <2>1 DEF Tasks
  <2>3. \A k \in opening.keys : A!Thread(k)' \subseteq opening.mails \cup late
    BY <1>0, <1>2, <2>1 DEF PageInv
  <2>4. QED
    BY <1>0, <2>1, <2>2, <2>3 DEF PageInv, ReadWasShown
<1>11. CASE A!OpenPost
  <2>1. /\ opening.step = "post" /\ UNCHANGED <<rows, late, open, pane, polling, shown>>
        /\ read' = read \cup UNION {A!Thread(k) : k \in opening.keys} /\ opening' = A!NoTask
    BY <1>11 DEF A!OpenPost
  <2>2. \A k \in opening.keys : A!Thread(k) \subseteq shown \cup late
    BY <1>0, <2>1 DEF PageInv
  <2>3. QED
    BY <1>0, <1>3, <2>1, <2>2 DEF PageInv, ReadWasShown
<1>12. CASE A!Poll
  <2>1. open # {} /\ UNCHANGED <<rows, read, late, open, pane, opening, shown>>
    BY <1>12 DEF A!Poll
  <2>2. PICK k \in Keys : open = {k}
    BY <1>0, <2>1 DEF PageInv
  <2>3. PICK S \in SUBSET Mails : S = A!Thread(k)
    BY <1>1
  <2>4. polling' = [step |-> "render", keys |-> {k}, mails |-> S]
    BY <1>12, <2>2, <2>3 DEF A!Poll
  <2>5. polling' \in Tasks
    BY <2>4 DEF Tasks
  <2>6. QED
    BY <1>0, <1>2, <2>1, <2>5 DEF PageInv, ReadWasShown
<1>13. CASE A!PollRender
  <2>1. /\ polling \in Tasks /\ polling' = A!NoTask /\ UNCHANGED <<rows, read, late, open, opening>>
        /\ pane' = polling.mails /\ shown' = shown \cup polling.mails
    BY <1>0, <1>13 DEF A!PollRender, A!Render, PageInv
  <2>2. polling.mails \subseteq Mails
    BY <2>1 DEF Tasks
  <2>3. QED
    BY <1>0, <1>2, <1>3, <2>1, <2>2 DEF PageInv, ReadWasShown
<1>14. QED
  BY <1>4, <1>5, <1>6, <1>7, <1>8, <1>9, <1>10, <1>11, <1>12, <1>13
     DEF ArchiveStep, A!Next, A!Work, A!Page, A!Refresh

LEMMA ArchiveTypes == DeliveryInv /\ ArchiveStep => A!TypeOK'
<1> SUFFICES ASSUME DeliveryInv, ArchiveStep PROVE A!TypeOK'
  OBVIOUS
<1> USE DEF A!table, A!workers, A!page
<1>0. A!TypeOK
  BY DEF DeliveryInv, DeliveryTypeOK
<1>1. rows' \in Seq(Mails) /\ read' \subseteq Mails /\ unsaved' \subseteq Mails /\ late' \subseteq Mails
  BY TableGrows
<1>2. PageInv' /\ pane' \subseteq Mails /\ shown' \subseteq Mails
  BY StillPage
<1>3. /\ open' \subseteq Keys /\ opening'.step \in {"none", "get", "render", "post"}
      /\ opening'.keys \subseteq Keys /\ polling'.keys \subseteq Keys
  BY <1>2 DEF PageInv, Tasks
<1>4. polling'.step \in {"none", "render"} /\ breaks' \in Nat
  <2>1. CASE A!Poll
    <3>1. breaks' = breaks /\ \E k \in Keys : open = {k}
      BY <2>1 DEF A!Poll, DeliveryInv, PageInv
    <3>2. polling'.step = "render"
      BY <2>1, <3>1 DEF A!Poll
    <3>3. QED
      BY <1>0, <3>1, <3>2 DEF A!TypeOK
  <2>2. CASE A!PollRender
    BY <1>0, <2>2 DEF A!TypeOK, A!PollRender, A!NoTask
  <2>3. A!Page \/ (\E k \in Keys : A!Click(k)) => polling' = polling /\ breaks' = breaks
    BY DEF A!Page, A!OpenGet, A!OpenRender, A!OpenPost, A!Click
  <2>4. ASSUME NEW c \in Callbacks, A!Work(c) \/ A!SaveRaises(c)
        PROVE  polling' = polling /\ (breaks' = breaks \/ breaks' = breaks + 1)
    BY <2>4 DEF A!Work, A!Receive, A!Save, A!Ack, A!SaveRaises
  <2>5. A!Restart => polling' = polling /\ breaks' = breaks + 1
    BY DEF A!Restart
  <2>6. QED
    BY <1>0, <2>1, <2>2, <2>3, <2>4, <2>5 DEF A!TypeOK, ArchiveStep, A!Next, A!Refresh
<1>5. savers' \in [Callbacks -> {"idle", "save", "ack"}] /\ hand' \in [Callbacks -> SUBSET Mails]
  <2>0. savers \in [Callbacks -> {"idle", "save", "ack"}] /\ hand \in [Callbacks -> SUBSET Mails]
    BY <1>0 DEF A!TypeOK
  <2>1. ASSUME NEW c \in Callbacks, A!Work(c) \/ A!SaveRaises(c)
        PROVE  /\ \E m \in SUBSET Mails : hand' = [hand EXCEPT ![c] = m] \/ hand' = hand
               /\ \E p \in {"idle", "save", "ack"} : savers' = [savers EXCEPT ![c] = p]
    <3>1. CASE A!Receive(c)
      BY <3>1 DEF A!Receive
    <3>2. CASE A!Save(c) \/ A!SaveRaises(c)
      BY <3>2 DEF A!Save, A!SaveRaises
    <3>3. CASE A!Ack(c)
      BY <3>3 DEF A!Ack
    <3>4. QED
      BY <2>1, <3>1, <3>2, <3>3 DEF A!Work
  <2>2. A!Restart => savers' = [c \in Callbacks |-> "idle"] /\ hand' = [c \in Callbacks |-> {}]
    BY DEF A!Restart
  <2>3. A!Page \/ A!Refresh \/ (\E k \in Keys : A!Click(k)) => savers' = savers /\ hand' = hand
    BY DEF A!Page, A!Refresh, A!Click, A!OpenGet, A!OpenRender, A!OpenPost, A!Poll, A!PollRender
  <2>4. ASSUME NEW c \in Callbacks, A!Work(c) \/ A!SaveRaises(c)
        PROVE  savers' \in [Callbacks -> {"idle", "save", "ack"}] /\ hand' \in [Callbacks -> SUBSET Mails]
    BY <2>0, <2>1, <2>4
  <2>5. QED
    BY <2>0, <2>2, <2>3, <2>4 DEF ArchiveStep, A!Next
<1>6. QED
  BY <1>1, <1>2, <1>3, <1>4, <1>5 DEF A!TypeOK

----------------------------------------------------------------------------
(* Where a mail is.                                                        *)

LEMMA ReachInArchive == DeliveryInv /\ ArchiveStep => ReachInv'
<1> SUFFICES ASSUME DeliveryInv, ArchiveStep PROVE ReachInv'
  OBVIOUS
<1> USE DEF facade, marks, threads, buffers, history
<1>0. /\ ReachInv /\ UNCHANGED <<claims, pc, mail, got, dropped, abandoned, kept, dead, lost, config>>
      /\ Buffered' = Buffered
  BY DEF DeliveryInv, ArchiveStep, Buffered
<1>1. A!Stored \subseteq A!Stored' /\ unsaved \subseteq unsaved'
  BY TableGrows
<1>2. ASSUME NEW m \in Mails, topic[m] > 0 PROVE topic'[m] > 0 \/ m \in A!Stored' \cup unsaved'
  <2>1. CASE topic' = topic
    BY <1>2, <2>1
  <2>2. ASSUME NEW c \in Callbacks, A!Ack(c) PROVE topic'[m] = topic[m] \/ m \in A!Stored \cup unsaved
    BY <2>2 DEF A!Ack, DeliveryInv, SaversInv
  <2>3. ASSUME NEW c \in Callbacks, A!Receive(c) \/ A!Save(c) \/ A!SaveRaises(c) PROVE topic' = topic
    BY <2>3 DEF A!Receive, A!Save, A!SaveRaises
  <2>4. A!Restart \/ A!Page \/ A!Refresh \/ (\E k \in Keys : A!Click(k)) => topic' = topic
    BY DEF A!Restart, A!Page, A!Refresh, A!Click, A!OpenGet, A!OpenRender, A!OpenPost, A!Poll, A!PollRender
  <2>5. QED
    BY <1>1, <1>2, <2>1, <2>2, <2>3, <2>4 DEF ArchiveStep, A!Next, A!Work
<1>3. Reached \subseteq Reached'
  BY <1>0, <1>1, <1>2 DEF Reached, Delivered, WiredDeadLetters
<1>4. Done' = Done
  BY <1>0 DEF Done
<1>5. QED
  BY <1>0, <1>3, <1>4 DEF ReachInv

\* Nothing is taken out of the history, and the pipeline acknowledges nothing.
Grown ==
  /\ config' = config
  /\ dropped \subseteq dropped' /\ abandoned \subseteq abandoned' /\ lost \subseteq lost'
  /\ kept \subseteq kept' /\ dead \subseteq dead'
  /\ \A m \in Mails : got'[m] = got[m] \/ got'[m] = got[m] + 1
  /\ \A m \in Mails : topic'[m] = topic[m] \/ topic'[m] = topic[m] + 1

LEMMA HistoryGrows == DeliveryInv /\ Next => Grown
<1> SUFFICES ASSUME DeliveryInv, Next PROVE Grown
  OBVIOUS
<1> USE DEF marks, history
<1>0. TypeOK /\ ThreadsInv
  BY DEF DeliveryInv, DeliveryTypeOK
<1>1. ASSUME UNCHANGED <<config, topic, history>> PROVE Grown
  BY <1>1 DEF Grown
<1>2. Arrive => Grown
  BY <1>1 DEF Arrive
<1>3. Crash => Grown
  BY DEF Crash, Grown
<1>4. ASSUME NEW r \in Runners, Claim(r) \/ Look(r) \/ Refuse(r) \/ Mark(r) \/ PassRaises(r)
      PROVE  Grown
  BY <1>1, <1>4 DEF Claim, Look, Refuse, Mark, PassRaises
<1>13. ASSUME NEW r \in Runners, Set(r) PROVE Grown
  BY <1>13 DEF Set, Grown
<1>14. ASSUME NEW m \in Mails, LeaseElapses(m) PROVE Grown
  BY <1>14 DEF LeaseElapses, Grown
<1>5. ASSUME NEW r \in Runners, Work(r) PROVE Grown
  <2>1. PICK m \in Mails : m = mail[r]
    BY <1>0, <1>5, WorkResult
  <2>2. /\ config' = config /\ lost' = lost /\ abandoned' = abandoned
        /\ Withheld(m) \/ Queued(m) \/ Called(m) \/ Published(m)
    BY <1>0, <1>5, <2>1, WorkResult
  <2>3. CASE Withheld(m) \/ Queued(m)
    BY <2>2, <2>3 DEF Withheld, Queued, Grown
  <2>4. CASE Called(m)
    BY <1>0, <2>2, <2>4 DEF Called, Grown, TypeOK
  <2>5. CASE Published(m)
    BY <1>0, <2>2, <2>5 DEF Published, Grown, TypeOK
  <2>6. QED
    BY <2>2, <2>3, <2>4, <2>5
<1>6. ASSUME NEW r \in Runners, EmitRaises(r) PROVE Grown
  BY <1>0, <1>6 DEF EmitRaises, Grown, TypeOK
<1>7. ASSUME NEW a \in Apps, StartPass(a) \/ EndPass(a) \/ \E l \in Lives : Stream(a, l) PROVE Grown
  BY <1>1, <1>7 DEF StartPass, EndPass, Stream
<1>8. ASSUME NEW a \in Apps, Yield(a) PROVE Grown
  BY <1>0, <1>8 DEF Yield, Grown, TypeOK
<1>9. ASSUME NEW a \in Apps, Take(a) PROVE Grown
  BY <1>0, <1>9 DEF Take, Grown, TypeOK
<1>10. ASSUME NEW a \in Apps, Leave(a) PROVE Grown
  BY <1>10 DEF Leave, Grown
<1>11. ASSUME NEW l \in Lives, Run(l) PROVE Grown
  BY <1>1, <1>11 DEF Run
<1>12. QED
  BY <1>2, <1>3, <1>4, <1>5, <1>6, <1>7, <1>8, <1>9, <1>10, <1>11, <1>13, <1>14
     DEF Next, Advance, Consume

\* What leaves the buffers has been handed out, or went with a loop or with the process.
LEMMA WhereBufferedGo ==
  ASSUME DeliveryInv, Next, NEW m \in Buffered
  PROVE  m \in Buffered' \/ m \in Delivered' \/ m \in abandoned' \/ (Crash /\ m \in lost')
<1>0. /\ TypeOK /\ m \in Mails /\ got \in [Mails -> Nat]
  BY WhatIsBuffered DEF DeliveryInv, DeliveryTypeOK, TypeOK
<1>1. CASE buffers' = buffers
  BY <1>1 DEF Buffered, buffers
<1>2. CASE Crash
  BY <1>2 DEF Crash
<1>3. ASSUME NEW a \in Apps, EndPass(a), Drained(a) PROVE m \in Buffered'
  BY <1>0, <1>3, DrainedKeeps
<1>4. ASSUME NEW n, n \in Mails, got' = [got EXCEPT ![n] = @ + 1], Buffered \subseteq Buffered' \cup {n}
      PROVE  m \in Buffered' \/ m \in Delivered'
  <2>1. got'[n] > 0
    BY <1>0, <1>4
  <2>2. QED
    BY <1>4, <2>1 DEF Delivered
<1>5. ASSUME NEW a \in Apps, Take(a), Taken(Head(queue)) PROVE m \in Buffered' \/ m \in Delivered'
  <2>1. PICK n : n = Head(queue)
    OBVIOUS
  <2>2. Taken(n) /\ got' = [got EXCEPT ![n] = @ + 1]
    BY <1>5, <2>1 DEF Take
  <2>3. n \in Buffered /\ Buffered \subseteq Buffered' \cup {n} /\ Buffered \subseteq Mails
    BY <1>0, <2>2, TakenRemoves, WhatIsBuffered
  <2>4. QED
    BY <1>4, <2>2, <2>3
<1>6. ASSUME NEW a \in Apps, Yield(a), Yielded(a, Head(batch[a])) PROVE m \in Buffered' \/ m \in Delivered'
  <2>1. PICK n : n = Head(batch[a])
    OBVIOUS
  <2>2. Yielded(a, n) /\ got' = [got EXCEPT ![n] = @ + 1]
    BY <1>6, <2>1 DEF Yield
  <2>3. n \in Buffered /\ Buffered \subseteq Buffered' \cup {n} /\ Buffered \subseteq Mails
    BY <1>0, <2>2, YieldedRemoves, WhatIsBuffered
  <2>4. QED
    BY <1>4, <2>2, <2>3
<1>7. ASSUME NEW a \in Apps, Leave(a), Dropped(a) PROVE m \in Buffered' \/ m \in abandoned'
  <2>1. m \in Buffered' \/ m \in In(batch[a])
    BY <1>0, <1>7, DroppedRemoves
  <2>2. In(batch[a]) \subseteq abandoned'
    BY <1>7 DEF Leave, In
  <2>3. QED
    BY <2>1, <2>2
<1>8. ASSUME NEW r \in Runners, Work(r), Queued(mail[r]), Filled(mail[r]) PROVE m \in Buffered'
  <2>1. PICK n \in Mails : n = mail[r]
    BY <1>0, <1>8, WorkResult DEF DeliveryInv
  <2>2. QED
    BY <1>0, <1>8, <2>1, FilledAdds
<1>9. QED
  BY <1>1, <1>2, <1>3, <1>5, <1>6, <1>7, <1>8, BufferSteps

\* A mail stays where it is, or moves on; what is left behind has a name.
LEMMA ReachGrows ==
  ASSUME DeliveryInv, Next, UNCHANGED archive
  PROVE  Reached \subseteq Reached' \/ (Crash /\ ~config.durable)
<1>0. /\ got \in [Mails -> Nat] /\ topic \in [Mails -> Nat]
      /\ A!Stored' = A!Stored /\ unsaved' = unsaved
  BY DEF DeliveryInv, DeliveryTypeOK, TypeOK, archive, A!Stored
<1>1. Grown /\ WiredDeadLetters' = WiredDeadLetters
  BY HistoryGrows DEF WiredDeadLetters, Grown
<1>2. Delivered \subseteq Delivered'
  BY <1>0, <1>1 DEF Delivered, Grown
<1>3. {m \in Mails : topic[m] > 0} \subseteq {m \in Mails : topic'[m] > 0}
  BY <1>0, <1>1 DEF Grown
<1>4. \A m \in Buffered : m \in Buffered' \cup Delivered' \cup abandoned' \/ (Crash /\ m \in lost')
  BY WhereBufferedGo
<1>5. QED
  BY <1>0, <1>1, <1>2, <1>3, <1>4 DEF Reached, Grown

LEMMA ReachInFacade == DeliveryInv /\ Next /\ UNCHANGED archive => ReachInv'
<1> SUFFICES ASSUME DeliveryInv, Next, UNCHANGED archive PROVE ReachInv'
  OBVIOUS
<1> USE DEF marks, threads
<1>0. TypeOK /\ ThreadsInv /\ ReachInv
  BY DEF DeliveryInv, DeliveryTypeOK
<1>1. CASE Crash /\ ~config.durable
  <2>1. Done' = {} /\ \A r \in Runners : pc'[r] = "off"
    BY <1>1 DEF Crash, Done
  <2>2. QED
    BY <2>1 DEF ReachInv
<1>2. CASE Reached \subseteq Reached'
  \* Nothing is newly marked, and nothing newly waits for its mark.
  <2>1. ASSUME Done' \subseteq Done,
               \A r \in Runners : pc'[r] = "mark" => pc[r] = "mark" /\ mail'[r] = mail[r]
        PROVE  ReachInv'
    BY <1>0, <1>2, <2>1 DEF ReachInv
  <2>2. Crash \/ Arrive => Done' \subseteq Done
          /\ \A r \in Runners : pc'[r] = "mark" => pc[r] = "mark" /\ mail'[r] = mail[r]
    BY <1>0 DEF Crash, Arrive, Done
  <2>3. ASSUME NEW r \in Runners, Claim(r) PROVE ReachInv'
    <3>1. Done' \subseteq Done
      BY <1>0, <2>3 DEF Claim, Done, TypeOK
    <3>2. \A q \in Runners : pc'[q] = "mark" => pc[q] = "mark" /\ mail'[q] = mail[q]
      BY <1>0, <2>3 DEF Claim, Goto, TypeOK
    <3>3. QED
      BY <2>1, <3>1, <3>2
  <2>14. ASSUME NEW r \in Runners, Look(r) PROVE ReachInv'
    <3>1. PICK n \in Mails, p \in {"create", "reclaim"} :
            pc' = [pc EXCEPT ![r] = p] /\ mail' = [mail EXCEPT ![r] = n]
      BY <2>14 DEF Look, Goto
    <3>2. claims' = claims
      BY <2>14 DEF Look
    <3>3. Done' \subseteq Done /\ \A q \in Runners : pc'[q] = "mark" => pc[q] = "mark" /\ mail'[q] = mail[q]
      BY <1>0, <2>14, <3>1, <3>2 DEF Done, TypeOK, Look
    <3>4. QED
      BY <2>1, <3>3
  <2>15. ASSUME NEW r \in Runners, Set(r) PROVE ReachInv'
    <3>1. Done' \subseteq Done
      BY <1>0, <2>15 DEF Set, Done, TypeOK
    <3>2. \A q \in Runners : pc'[q] = "mark" => pc[q] = "mark" /\ mail'[q] = mail[q]
      BY <1>0, <2>15 DEF Set, Goto, TypeOK
    <3>3. QED
      BY <2>1, <3>1, <3>2
  <2>16. ASSUME NEW r \in Runners, Refuse(r) PROVE ReachInv'
    <3>1. Done' = Done /\ mail' = mail /\ pc' = pc
      BY <2>16 DEF Refuse, Done
    <3>2. QED
      BY <2>1, <3>1
  <2>17. ASSUME NEW m \in Mails, LeaseElapses(m) PROVE ReachInv'
    <3>1. Done' \subseteq Done /\ mail' = mail /\ pc' = pc
      BY <1>0, <2>17 DEF LeaseElapses, Done, TypeOK
    <3>2. QED
      BY <2>1, <3>1
  <2>4. ASSUME NEW r \in Runners, Work(r) PROVE ReachInv'
    <3>1. PICK m \in Mails : m = mail[r]
      BY <1>0, <2>4, WorkResult
    <3>2. /\ pc' = [pc EXCEPT ![r] = "mark"] /\ mail' = mail /\ claims' = claims /\ config' = config
          /\ Withheld(m) \/ Queued(m) \/ Called(m) \/ Published(m)
      BY <1>0, <2>4, <3>1, WorkResult
    <3>3. m \in Reached'
      <4>1. CASE Withheld(m)
        <5>1. m \in dropped' \/ m \in (IF WiredDeadLetters THEN kept' ELSE dead')
          BY <4>1 DEF Withheld
        <5>2. WiredDeadLetters' = WiredDeadLetters
          BY <3>2 DEF WiredDeadLetters
        <5>3. QED
          BY <5>1, <5>2 DEF Reached
      <4>2. CASE Queued(m)
        <5>1. m \in In(queue')
          BY <1>0, <4>2, Appended DEF Queued, TypeOK
        <5>2. QED
          BY <5>1 DEF Reached, Buffered, In
      <4>3. CASE Called(m)
        BY <1>0, <4>3 DEF Called, TypeOK, Reached, Delivered
      <4>4. CASE Published(m)
        BY <1>0, <4>4 DEF Published, TypeOK, Reached
      <4>5. QED
        BY <3>2, <4>1, <4>2, <4>3, <4>4
    <3>4. Done' = Done
      BY <3>2 DEF Done
    <3>5. \A q \in Runners : pc'[q] = "mark" => q = r \/ pc[q] = "mark"
      BY <1>0, <3>2 DEF TypeOK
    <3>6. QED
      BY <1>0, <1>2, <3>1, <3>2, <3>3, <3>4, <3>5 DEF ReachInv
  <2>5. ASSUME NEW r \in Runners, Mark(r) PROVE ReachInv'
    <3>1. mail[r] \in Reached /\ Done' \subseteq Done \cup {mail[r]}
      BY <1>0, <2>5 DEF Mark, Done, TypeOK, ReachInv
    <3>2. \A q \in Runners : pc'[q] = "mark" => pc[q] = "mark" /\ mail'[q] = mail[q]
      BY <1>0, <2>5 DEF Mark, Goto, TypeOK
    <3>3. QED
      BY <1>0, <1>2, <3>1, <3>2 DEF ReachInv
  <2>6. ASSUME NEW r \in Runners, EmitRaises(r) PROVE ReachInv'
    <3>1. Done' \subseteq Done
      BY <1>0, <2>6 DEF EmitRaises, Done, TypeOK
    <3>2. \A q \in Runners : pc'[q] = "mark" => pc[q] = "mark" /\ mail'[q] = mail[q]
      BY <1>0, <2>6 DEF EmitRaises, Goto, TypeOK
    <3>3. QED
      BY <2>1, <3>1, <3>2
  <2>7. ASSUME NEW r \in Runners, NEW p \in {"off", "run", "wait"}, pc' = [pc EXCEPT ![r] = p],
               claims' = claims, mail' = mail
        PROVE  ReachInv'
    <3>1. Done' = Done /\ \A q \in Runners : pc'[q] = "mark" => pc[q] = "mark"
      BY <1>0, <2>7 DEF Done, TypeOK
    <3>2. QED
      BY <2>1, <2>7, <3>1
  <2>8. ASSUME NEW r \in Runners, PassRaises(r) PROVE ReachInv'
    BY <2>7, <2>8 DEF PassRaises, Goto
  <2>9. ASSUME NEW a \in Apps, StartPass(a) \/ EndPass(a) \/ Leave(a) PROVE ReachInv'
    BY <2>7, <2>9 DEF StartPass, EndPass, Leave, Goto, Runners
  <2>10. ASSUME NEW a \in Apps, NEW l \in Lives, Stream(a, l) PROVE ReachInv'
    <3>1. Done' = Done /\ mail' = mail /\ \A q \in Runners : pc'[q] = "mark" => pc[q] = "mark"
      BY <1>0, <2>10 DEF Stream, Done, TypeOK
    <3>2. QED
      BY <2>1, <3>1
  <2>11. ASSUME NEW a \in Apps, Yield(a) \/ Take(a) PROVE ReachInv'
    <3>1. Done' = Done /\ mail' = mail /\ pc' = pc
      BY <2>11 DEF Yield, Take, Done
    <3>2. QED
      BY <2>1, <3>1
  <2>12. ASSUME NEW l \in Lives, Run(l) PROVE ReachInv'
    BY <2>7, <2>12 DEF Run, Goto, Runners
  <2>13. QED
    BY <2>1, <2>2, <2>3, <2>4, <2>5, <2>6, <2>8, <2>9, <2>10, <2>11, <2>12, <2>14, <2>15, <2>16, <2>17
       DEF Next, Advance, Consume
<1>3. QED
  BY <1>1, <1>2, ReachGrows

----------------------------------------------------------------------------
(* The theorems.                                                           *)

LEMMA StartsSo == DeliveryInit => DeliveryInv
<1> SUFFICES ASSUME DeliveryInit PROVE DeliveryInv
  OBVIOUS
<1>1. TypeOK
  BY FacadeAssumption, Empty DEF DeliveryInit, Init, TypeOK
<1>2. A!TypeOK
  BY Empty DEF DeliveryInit, A!Init, A!TypeOK, A!NoTask
<1>3. ThreadsInv
  BY DEF DeliveryInit, Init, ThreadsInv, Holding
<1>4. (\A m : Single(m)) /\ Buffered = {}
  BY Empty, WhatIsBuffered DEF DeliveryInit, Init, Single
<1>5. HandedInv
  BY DEF DeliveryInit, Init, HandedInv
<1>6. ReachInv
  BY DEF DeliveryInit, Init, ReachInv, Done
<1>7. SaversInv
  <2>1. ASSUME NEW m \in Mails PROVE Cardinality({c \in Callbacks : m \in hand[c]}) <= topic[m]
    <3>1. {c \in Callbacks : m \in hand[c]} = {} /\ topic[m] = 0
      BY DEF DeliveryInit, Init, A!Init
    <3>2. QED
      BY <3>1, FS_EmptySet
  <2>2. QED
    BY <2>1, Empty DEF DeliveryInit, A!Init, SaversInv
<1>8. PageInv
  BY DEF DeliveryInit, A!Init, PageInv, A!NoTask, Tasks, ReadWasShown
<1>9. QED
  BY <1>1, <1>2, <1>3, <1>4, <1>5, <1>6, <1>7, <1>8 DEF DeliveryInv, DeliveryTypeOK, BuffersInv

LEMMA FacadeKeeps == DeliveryInv /\ Next /\ UNCHANGED archive => DeliveryInv'
<1> SUFFICES ASSUME DeliveryInv, Next, UNCHANGED archive PROVE DeliveryInv'
  OBVIOUS
<1>1. TypeOK' /\ ThreadsInv' /\ BuffersInv' /\ HandedInv' /\ ReachInv'
  BY FacadeTypes, StillThreads, StillBuffers, StillHanded, ReachInFacade
<1>2. A!TypeOK'
  BY DEF DeliveryInv, DeliveryTypeOK, A!TypeOK, archive
<1>3. PageInv'
  BY DEF DeliveryInv, PageInv, ReadWasShown, A!Thread, A!Stored, archive
<1>4. SaversInv'
  <2>1. ASSUME NEW m \in Mails PROVE Cardinality({c \in Callbacks : m \in hand[c]}) <= topic'[m]
    <3>1. Cardinality(Holders(m)) <= topic[m] /\ Cardinality(Holders(m)) \in Nat /\ topic[m] \in Nat
      BY HoldersCount DEF DeliveryInv, SaversInv, Holders, DeliveryTypeOK, TypeOK
    <3>2. topic'[m] = topic[m] \/ topic'[m] = topic[m] + 1
      BY HistoryGrows DEF Grown
    <3>3. QED
      BY <3>1, <3>2 DEF Holders
  <2>2. QED
    BY <2>1 DEF DeliveryInv, SaversInv, A!Stored, archive
<1>5. QED
  BY <1>1, <1>2, <1>3, <1>4 DEF DeliveryInv, DeliveryTypeOK

LEMMA ArchiveKeeps == DeliveryInv /\ ArchiveStep => DeliveryInv'
<1> SUFFICES ASSUME DeliveryInv, ArchiveStep PROVE DeliveryInv'
  OBVIOUS
<1> USE DEF facade, marks, threads, buffers, history
<1>1. A!TypeOK' /\ SaversInv' /\ PageInv' /\ ReachInv' /\ topic' \in [Mails -> Nat]
  BY ArchiveTypes, StillSavers, StillPage, ReachInArchive
<1>2. TypeOK'
  BY <1>1 DEF DeliveryInv, DeliveryTypeOK, TypeOK, ArchiveStep
<1>3. ThreadsInv'
  BY DEF DeliveryInv, ThreadsInv, Holding, Live, ArchiveStep
<1>4. Buffered' = Buffered /\ \A m : PutOut(m)' = PutOut(m) /\ Single(m)' = Single(m)
  BY DEF Single, Buffered, PutOut, ArchiveStep
<1>5. BuffersInv' /\ HandedInv'
  BY <1>4 DEF DeliveryInv, BuffersInv, HandedInv, Due, ArchiveStep
<1>6. QED
  BY <1>1, <1>2, <1>3, <1>5 DEF DeliveryInv, DeliveryTypeOK

LEMMA Stutters == DeliveryInv /\ UNCHANGED vars => DeliveryInv'
<1> SUFFICES ASSUME DeliveryInv, UNCHANGED vars PROVE DeliveryInv'
  OBVIOUS
<1> USE DEF vars, facade, archive, marks, threads, buffers, history, DeliveryInv
<1>1. DeliveryTypeOK'
  BY DEF DeliveryTypeOK, TypeOK, A!TypeOK
<1>2. ThreadsInv'
  BY DEF ThreadsInv, Holding, Live
<1>3. Buffered' = Buffered /\ \A m : PutOut(m)' = PutOut(m) /\ Single(m)' = Single(m)
  BY DEF Single, Buffered, PutOut
<1>4. BuffersInv' /\ HandedInv'
  BY <1>3 DEF BuffersInv, HandedInv, Due
<1>5. Reached' = Reached /\ Done' = Done
  BY <1>3 DEF Reached, Done, Delivered, WiredDeadLetters, A!Stored
<1>6. ReachInv'
  BY <1>5 DEF ReachInv
<1>7. SaversInv' /\ PageInv'
  BY DEF SaversInv, PageInv, ReadWasShown, A!Thread, A!Stored
<1>8. QED
  BY <1>1, <1>2, <1>4, <1>6, <1>7

\* All of the inductive invariant holds of every reachable state of the two processes.
THEOREM AllIsInOrder == DeliverySpec => []DeliveryInv
<1>1. DeliverySpec => DeliveryInit /\ [][DeliveryNext]_vars
  BY PTL DEF DeliverySpec
<1>2. DeliveryInit => DeliveryInv
  BY StartsSo
<1>3. DeliveryInv /\ [DeliveryNext]_vars => DeliveryInv'
  BY FacadeKeeps, ArchiveKeeps, Stutters DEF DeliveryNext, ArchiveStep
<1>4. QED
  BY <1>1, <1>2, <1>3, PTL

\* A mail the dedupe store marks done has reached the application, is on its way there,
\* was withheld on purpose, or fell into one of the named holes.
THEOREM DoneHasReached == DeliverySpec => []DoneReachesReader
<1>1. DeliveryInv => DoneReachesReader
  BY DEF DeliveryInv, ReachInv, Reached, DoneReachesReader
<1>2. QED
  BY <1>1, AllIsInOrder, PTL

\* No mail is handed out more often than there were faults, but for once, unless two threads
\* were at work on it: the claim, the queue and the drained batches pass it to one thread.
THEOREM HandedOutPaidFor == DeliverySpec => []HandedOutOnce
<1>1. DeliveryInv => HandedOutOnce
  BY DEF DeliveryInv, HandedInv, HandedOutOnce
<1>2. QED
  BY <1>1, AllIsInOrder, PTL

\* What the page marks as read was shown on it, but for what was saved meanwhile.
THEOREM ReadHasBeenShown == DeliverySpec => []ReadWasShown
<1>1. DeliveryInv => ReadWasShown
  BY DEF DeliveryInv, PageInv
<1>2. QED
  BY <1>1, AllIsInOrder, PTL

\* A second copy of an event adds no row and turns no mail unread again.
THEOREM RedeliveryIsHarmless == DeliverySpec => RedeliveryHarmless
<1>1. DeliverySpec => DeliveryInit /\ [][DeliveryNext]_vars
  BY PTL DEF DeliverySpec
<1>2. DeliveryInv /\ DeliveryInv' /\ [DeliveryNext]_vars =>
        [/\ read \subseteq read'
         /\ \A i, j \in DOMAIN rows' : i # j => rows'[i] # rows'[j]]_vars
  <2> SUFFICES ASSUME DeliveryInv, DeliveryInv', [DeliveryNext]_vars
               PROVE  /\ read \subseteq read'
                      /\ \A i, j \in DOMAIN rows' : i # j => rows'[i] # rows'[j]
    OBVIOUS
  <2>1. \A i, j \in DOMAIN rows' : i # j => rows'[i] # rows'[j]
    BY DEF DeliveryInv, SaversInv, Once
  <2>2. read \subseteq read'
    BY TableGrows DEF DeliveryNext, ArchiveStep, archive, vars
  <2>3. QED
    BY <2>1, <2>2
<1>3. QED
  BY <1>1, <1>2, AllIsInOrder, PTL DEF RedeliveryHarmless

============================================================================
