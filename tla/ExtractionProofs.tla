--------------------------- MODULE ExtractionProofs ---------------------------
(***************************************************************************)
(* Theorems about Extraction, for any number of workers and mails, any     *)
(* parts, rules and filters, and any number of cut-off writes and crashes. *)
(***************************************************************************)
EXTENDS Extraction, WellFoundedInduction, TLAPS

----------------------------------------------------------------------------
(* The inductive invariant.                                                *)

Job == [pc: {"idle", "walk", "open", "write", "mark"}, mail: SUBSET Mails, at: Nat,
        text: SUBSET Contents, html: SUBSET Contents, kept: SUBSET Nat,
        stripped: SUBSET Nat, tagged: BOOLEAN]

Account == [mail: Mails, text: SUBSET Contents, html: SUBSET Contents, kept: SUBSET Nat,
            stripped: SUBSET Nat, tagged: BOOLEAN]

Types ==
  /\ TypeOK
  /\ setup \in Setups
  /\ job \in [Workers -> Job]
  /\ events \subseteq Account

\* The parts that a rule forbids, or that cannot be decoded.
Forbidden(m) ==
  {i \in DOMAIN PartsOf(m) :
     LET p == PartsOf(m)[i] IN Checked(p) /\ p.flaws \cap ({"unreadable"} \cup Rule(p)) # {}}

\* The parts an extractor looks at: all but containers, or what Graph says is there.
Seen(m, p) ==
  IF setup.mode = "graph" THEN setup.mail[m].hasAttachments ELSE p.type # "container"

Stored(c) == c = Empty \/ blobs[c] # "none"

\* What a job, or an event, says of the first n parts of a mail.
Parted(m, n, j) ==
  /\ j.kept \cup j.stripped \subseteq 1 .. n
  /\ setup.mode # "graph" =>
       /\ j.kept \cap Forbidden(m) = {}
       /\ \A i \in j.kept : Stored(PartsOf(m)[i].content)
  /\ setup.mode = "legacy" => Forbidden(m) \cap 1 .. n = {}
  /\ \A i \in 1 .. n :
       LET p == PartsOf(m)[i] IN
       /\ Seen(m, p) /\ Media(p) => i \in j.kept \cup j.stripped
       /\ PlainBody(p) /\ p.disp # "attachment" /\ p.content # Empty => j.text \cup j.html # {}

\* The mail is tagged if and only if the chain drops it.
Screened(m, j) == j.tagged = (Verdict(setup.chain, Envelope(setup.mail[m].headers)) = "drop")

\* A part that is about to be stored.
Storable(m, i) ==
  LET p == PartsOf(m)[i] IN
  /\ i \in DOMAIN PartsOf(m) /\ setup.mode # "graph"
  /\ Checked(p) /\ LetsThrough(Rule(p), p) /\ p.content # Empty

\* A worker at work on mail m.
Working(j, m) ==
  /\ j.mail = {m}
  /\ j.pc # "idle" /\ j.at \in 1 .. Len(PartsOf(m)) + 1
  /\ Parted(m, j.at - 1, j)
  /\ Screened(m, j)
  /\ j.pc \in {"open", "write"} => Storable(m, j.at)
  /\ j.pc = "write" => Stored(PartsOf(m)[j.at].content)

JobInv(j) == j = NoJob \/ \E m \in Mails : Working(j, m)

JobsInv == \A w \in Workers : JobInv(job[w])

EventInv(e) == Parted(e.mail, Len(PartsOf(e.mail)), e) /\ Screened(e.mail, e)

EventsInv == \A e \in events : EventInv(e)

\* A file was let into the store, and one that is not whole has a writer or was cut off.
BlobInv(c) ==
  /\ blobs[c] # "none" => \E m \in Mails : \E i \in DOMAIN PartsOf(m) \ Forbidden(m) :
                            Checked(PartsOf(m)[i]) /\ PartsOf(m)[i].content = c
  /\ blobs[c] = "partial" => c \in cut \/ Writers(c) # {}

BlobsInv == \A c \in Contents : BlobInv(c)

DeadInv == \A m \in Mails : status[m] = "dead" => setup.mode = "legacy" /\ Forbidden(m) # {}

ExtractionInv == Types /\ JobsInv /\ EventsInv /\ BlobsInv /\ DeadInv

\* Where mailbox and id tell mails apart and no id holds the separator: a key that is
\* taken is the key of a mail that is.
KeysInv ==
  /\ keys \subseteq {KeyOf(m) : m \in {n \in Mails : status[n] # "new"}}
  /\ \A m \in Mails : status[m] # "duplicate"

----------------------------------------------------------------------------
(* What stays true of a mail, a job and an event.                          *)

LEMMA PartsType ==
  ASSUME Types, NEW m \in Mails
  PROVE  /\ PartsOf(m) \in Seq(Part(Contents))
         /\ \A i \in DOMAIN PartsOf(m) : PartsOf(m)[i].content \in Contents
<1>1. PartsOf(m) \in Seq(Part(Contents))
  BY ExtractionAssumption DEF Types, SetupOK, PartsOf
<1>2. ASSUME NEW i \in DOMAIN PartsOf(m) PROVE PartsOf(m)[i] \in Part(Contents)
  BY <1>1
<1>3. \A p \in Part(Contents) : p.content \in Contents
  BY DEF Part
<1>4. QED
  BY <1>1, <1>2, <1>3

\* The mail of a job that has one.
LEMMA MailIs ==
  ASSUME NEW w, NEW m
  PROVE  /\ job[w].mail = {m} => MailOf(w) = m /\ Here(w) = PartsOf(m)[job[w].at]
         /\ job'[w].mail = {m} => MailOf(w)' = m /\ Here(w)' = PartsOf(m)'[job'[w].at]
  BY DEF MailOf, Here

\* The setup never changes, and no file goes away.
StoreGrows ==
  /\ setup' = setup
  /\ \A c : blobs[c] # "none" => blobs'[c] # "none"

LEMMA PartedStays ==
  ASSUME StoreGrows, NEW m, NEW n, NEW j, Parted(m, n, j)
  PROVE  Parted(m, n, j)'
<1>1. PartsOf(m)' = PartsOf(m) /\ Forbidden(m)' = Forbidden(m)
  BY DEF StoreGrows, PartsOf, Forbidden, Rule
<1>2. \A c : Stored(c) => Stored(c)'
  BY DEF StoreGrows, Stored
<1>3. QED
  BY <1>1, <1>2 DEF Parted, StoreGrows, Seen

LEMMA WorkingStays ==
  ASSUME StoreGrows, NEW m, NEW j, Working(j, m)
  PROVE  Working(j, m)'
<1>1. PartsOf(m)' = PartsOf(m)
  BY DEF StoreGrows, PartsOf
<1>2. Parted(m, j.at - 1, j)'
  BY PartedStays DEF Working
<1>3. Storable(m, j.at) => Storable(m, j.at)'
  BY <1>1 DEF Storable, Rule, StoreGrows
<1>4. \A c : Stored(c) => Stored(c)'
  BY DEF StoreGrows, Stored
<1>5. QED
  BY <1>1, <1>2, <1>3, <1>4 DEF Working, Screened, StoreGrows

LEMMA JobStays ==
  ASSUME StoreGrows, NEW j, JobInv(j)
  PROVE  JobInv(j)'
  BY WorkingStays DEF JobInv

\* One worker's step: the others' jobs stay.
LEMMA OneJob ==
  ASSUME StoreGrows, JobsInv, NEW w \in Workers, NEW j,
         job' = [job EXCEPT ![w] = j], JobInv(j)', Types
  PROVE  JobsInv'
<1> SUFFICES ASSUME NEW v \in Workers PROVE JobInv(job[v])'
  BY DEF JobsInv
<1>1. CASE v = w
  <2>1. job'[v] = j
    BY <1>1 DEF Types
  <2>2. QED
    BY <2>1 DEF JobInv
<1>2. CASE v # w
  <2>1. PICK k : k = job[v]
    OBVIOUS
  <2>2. job'[v] = k
    BY <1>2, <2>1 DEF Types
  <2>3. JobInv(k)'
    BY <2>1, JobStays DEF JobsInv
  <2>4. QED
    BY <2>2, <2>3 DEF JobInv
<1>3. QED
  BY <1>1, <1>2

LEMMA EventsStay ==
  ASSUME StoreGrows, EventsInv
  PROVE  \A e \in events : EventInv(e)'
<1> SUFFICES ASSUME NEW e \in events PROVE EventInv(e)'
  OBVIOUS
<1>1. PartsOf(e.mail)' = PartsOf(e.mail)
  BY DEF StoreGrows, PartsOf
<1>2. PICK n : n = Len(PartsOf(e.mail))
  OBVIOUS
<1>3. Parted(e.mail, n, e)'
  BY <1>2, PartedStays DEF EventsInv, EventInv
<1>4. Parted(e.mail, Len(PartsOf(e.mail)), e)'
  BY <1>1, <1>2, <1>3 DEF Parted
<1>5. QED
  BY <1>4 DEF EventsInv, EventInv, Screened, StoreGrows

\* A worker that goes on writing goes on writing the same file.
LEMMA WritersStay ==
  ASSUME Types, JobsInv, setup' = setup, NEW c, NEW v \in Writers(c), job'[v] = job[v]
  PROVE  v \in Writers(c)'
<1>1. v \in Workers /\ job[v].pc = "write" /\ job[v] # NoJob
  BY DEF Writers, NoJob
<1>2. PICK m \in Mails : job[v].mail = {m}
  BY <1>1 DEF JobsInv, JobInv, Working
<1>3. PartsOf(m)' = PartsOf(m)
  BY DEF PartsOf
<1>4. Here(v)' = PartsOf(m)'[job'[v].at] /\ Here(v) = PartsOf(m)[job[v].at]
  BY <1>2, MailIs
<1>5. Here(v)' = Here(v)
  BY <1>3, <1>4
<1>6. QED
  BY <1>1, <1>5 DEF Writers

\* Steps that write nothing.
LEMMA BlobsStay ==
  ASSUME Types, JobsInv, BlobsInv, setup' = setup, blobs' = blobs, cut \subseteq cut',
         \A v \in Workers : job[v].pc = "write" => job'[v] = job[v]
  PROVE  BlobsInv'
<1> SUFFICES ASSUME NEW c \in Contents PROVE BlobInv(c)'
  BY DEF BlobsInv
<1>1. \A m : PartsOf(m)' = PartsOf(m) /\ Forbidden(m)' = Forbidden(m)
  BY DEF PartsOf, Forbidden, Rule
<1>2. Writers(c) # {} => Writers(c)' # {}
  BY WritersStay DEF Writers
<1>3. QED
  BY <1>1, <1>2 DEF BlobsInv, BlobInv

LEMMA DeadStays ==
  ASSUME DeadInv, setup' = setup,
         \A m \in Mails : status'[m] = "dead" => status[m] = "dead"
  PROVE  DeadInv'
  BY DEF DeadInv, Forbidden, PartsOf, Rule

----------------------------------------------------------------------------
(* The walk over the parts.                                                *)

\* One more part is accounted for.
LEMMA PartAccounted ==
  ASSUME NEW m, NEW n \in Nat \ {0}, NEW j, NEW k, Parted(m, n - 1, j),
         k.kept \in {j.kept, j.kept \cup {n}},
         k.stripped \in {j.stripped, j.stripped \cup {n}},
         j.text \subseteq k.text \/ k.text # {}, j.html \subseteq k.html,
         setup.mode # "graph" /\ k.kept # j.kept =>
           n \notin Forbidden(m) /\ Stored(PartsOf(m)[n].content),
         setup.mode = "legacy" => n \notin Forbidden(m),
         Seen(m, PartsOf(m)[n]) /\ Media(PartsOf(m)[n]) => n \in k.kept \cup k.stripped,
         PlainBody(PartsOf(m)[n]) /\ ~Media(PartsOf(m)[n])
           /\ PartsOf(m)[n].content # Empty => k.text \cup k.html # {}
  PROVE  Parted(m, n, k)
<1>1. 1 .. n = (1 .. n - 1) \cup {n} /\ n \notin 1 .. n - 1
  OBVIOUS
<1>2. \A p : PlainBody(p) /\ p.disp # "attachment" => ~Media(p)
  BY DEF PlainBody, Media, IsAttachment, InlineMedia
<1>3. k.kept \cup k.stripped \subseteq 1 .. n
  BY <1>1 DEF Parted
<1>4. setup.mode # "graph" => /\ k.kept \cap Forbidden(m) = {}
                              /\ \A i \in k.kept : Stored(PartsOf(m)[i].content)
  BY DEF Parted
<1>5. setup.mode = "legacy" => Forbidden(m) \cap 1 .. n = {}
  BY <1>1 DEF Parted
<1>6. ASSUME NEW i \in 1 .. n
      PROVE  LET p == PartsOf(m)[i] IN
             /\ Seen(m, p) /\ Media(p) => i \in k.kept \cup k.stripped
             /\ PlainBody(p) /\ p.disp # "attachment" /\ p.content # Empty =>
                  k.text \cup k.html # {}
  <2>1. CASE i = n
    BY <1>2, <2>1
  <2>2. CASE i \in 1 .. n - 1
    BY <2>2 DEF Parted
  <2>3. QED
    BY <1>1, <2>1, <2>2
<1>7. QED
  BY <1>3, <1>4, <1>5, <1>6 DEF Parted

\* A worker that walks: its mail, and the part it has come to.
LEMMA AtPart ==
  ASSUME Types, JobsInv, NEW w \in Workers, job[w] # NoJob
  PROVE  \E m \in Mails :
           /\ Working(job[w], m) /\ MailOf(w) = m /\ Here(w) = PartsOf(m)[job[w].at]
           /\ job[w].at - 1 \in Nat
           /\ job[w].pc \in {"open", "write"} \/ Walking(w) => job[w].at \in DOMAIN PartsOf(m)
<1>1. PICK m \in Mails : Working(job[w], m)
  BY DEF JobsInv, JobInv
<1>2. MailOf(w) = m /\ Here(w) = PartsOf(m)[job[w].at]
  BY <1>1, MailIs DEF Working
<1>3. PartsOf(m) \in Seq(Part(Contents))
  BY PartsType
<1>4. job[w].at \in 1 .. Len(PartsOf(m)) + 1 /\ Len(PartsOf(m)) \in Nat
  BY <1>1, <1>3 DEF Working
<1>5. job[w].pc \in {"open", "write"} \/ Walking(w) => job[w].at \in DOMAIN PartsOf(m)
  BY <1>1, <1>2, <1>3, <1>4 DEF Working, Walking, Storable
<1>6. QED
  BY <1>1, <1>2, <1>4, <1>5

\* The worker advances to the next part with a job that accounts for this one.
LEMMA Advances ==
  ASSUME Types, JobsInv, NEW w \in Workers, job[w] # NoJob, NEW m \in Mails,
         Working(job[w], m), job[w].at \in DOMAIN PartsOf(m),
         NEW k \in Job, Parted(m, job[w].at, k), k.at = job[w].at, k.mail = job[w].mail,
         k.tagged = job[w].tagged
  PROVE  /\ [k EXCEPT !.at = @ + 1, !.pc = "walk"] \in Job
         /\ JobInv([k EXCEPT !.at = @ + 1, !.pc = "walk"])
<1> DEFINE l == [k EXCEPT !.at = @ + 1, !.pc = "walk"]
<1>1. l \in Job /\ l.at - 1 = job[w].at
  <2>1. k.at \in Nat /\ k.at + 1 \in Nat /\ l.at = k.at + 1
    BY DEF Job
  <2>2. \A x \in Nat : [k EXCEPT !.at = x, !.pc = "walk"] \in Job
    BY DEF Job
  <2>3. l = [k EXCEPT !.at = k.at + 1, !.pc = "walk"]
    OBVIOUS
  <2> HIDE DEF l
  <2>4. l \in Job
    BY <2>1, <2>2, <2>3
  <2>5. QED
    BY <2>1, <2>4
<1>2. /\ l.kept = k.kept /\ l.stripped = k.stripped /\ l.text = k.text /\ l.html = k.html
      /\ l.tagged = k.tagged /\ l.mail = k.mail /\ l.pc = "walk"
  BY DEF Job
<1>3. Parted(m, l.at - 1, l)
  BY <1>1, <1>2 DEF Parted
<1>4. l.at \in 1 .. Len(PartsOf(m)) + 1
  <2>1. Len(PartsOf(m)) \in Nat /\ DOMAIN PartsOf(m) = 1 .. Len(PartsOf(m))
    BY PartsType
  <2>2. QED
    BY <1>1, <2>1 DEF Job
<1>5. Working(l, m)
  BY <1>2, <1>3, <1>4 DEF Working, Screened
<1>6. QED
  BY <1>1, <1>5 DEF JobInv

\* What every step of the walk yields that stores nothing.
LEMMA WalkStep ==
  ASSUME Types, JobsInv, NEW w \in Workers, Walking(w),
         Skip(w) \/ BodyPart(w) \/ GraphPart(w) \/ Strip(w) \/ (Keep(w) /\ job'[w].pc # "open")
  PROVE  \E k \in Job : job' = [job EXCEPT ![w] = k] /\ JobInv(k)
<1> DEFINE j == job[w]
           n == job[w].at
           p == Here(w)
<1>1. job[w] # NoJob /\ job[w] \in Job
  BY DEF Walking, NoJob, Types
<1>2. PICK m \in Mails : /\ Working(j, m) /\ MailOf(w) = m /\ p = PartsOf(m)[n]
                         /\ n - 1 \in Nat /\ n \in DOMAIN PartsOf(m)
  BY <1>1, AtPart
<1>3. Parted(m, n - 1, j) /\ n \in Nat \ {0}
  BY <1>1, <1>2 DEF Working, Job
<1>4. n \in Forbidden(m) <=> Checked(p) /\ ~LetsThrough(Rule(p), p)
  BY <1>2 DEF Forbidden, LetsThrough
<1>5. p.content \in Contents
  BY <1>2, PartsType
<1>6. ASSUME NEW k \in Job, Parted(m, n, k), k.at = n, k.mail = j.mail, k.tagged = j.tagged,
             Advance(w, k)
      PROVE  \E l \in Job : job' = [job EXCEPT ![w] = l] /\ JobInv(l)
  <2>1. job' = [job EXCEPT ![w] = [k EXCEPT !.at = @ + 1, !.pc = "walk"]]
    BY <1>6 DEF Advance
  <2>2. QED
    BY <1>1, <1>2, <1>6, <2>1, Advances
<1>7. CASE BodyPart(w)
  <2> DEFINE filled == {p.content} \ {Empty}
             k == IF p.type = "plain" /\ j.text = {} THEN [j EXCEPT !.text = filled]
                  ELSE IF p.type = "html" /\ j.html = {} THEN [j EXCEPT !.html = filled]
                  ELSE j
  <2>1. k \in Job /\ k.at = n /\ k.mail = j.mail /\ k.tagged = j.tagged
    BY <1>1, <1>5 DEF Job
  <2>2. /\ k.kept = j.kept /\ k.stripped = j.stripped
        /\ j.text \subseteq k.text /\ j.html \subseteq k.html
    BY <1>1 DEF Job
  <2>3. PlainBody(p) /\ p.content # Empty => k.text \cup k.html # {}
    BY <1>1 DEF Job, PlainBody
  <2>4. ~Media(p) /\ n \notin Forbidden(m)
    BY <1>4, <1>7 DEF BodyPart, Checked
  <2> HIDE DEF k
  <2>5. Parted(m, n, k)
    BY <1>2, <1>3, <2>2, <2>3, <2>4, PartAccounted
  <2>6. Advance(w, k)
    BY <1>7 DEF k, BodyPart
  <2>7. QED
    BY <1>3, <1>6, <2>1, <2>5, <2>6
<1>8. CASE GraphPart(w)
  <2> DEFINE k == CASE Media(p) /\ setup.mail[m].hasAttachments ->
                         [j EXCEPT !.kept = @ \cup {n}]
                    [] PlainBody(p) /\ ~Media(p) ->
                         [j EXCEPT !.text = @ \cup ({p.content} \ {Empty})]
                    [] OTHER -> j
  <2>1. k \in Job /\ k.at = n /\ k.mail = j.mail /\ k.tagged = j.tagged
    BY <1>1, <1>3, <1>5 DEF Job
  <2>2. /\ k.kept \in {j.kept, j.kept \cup {n}} /\ k.stripped = j.stripped
        /\ j.text \subseteq k.text /\ j.html \subseteq k.html
        /\ Media(p) /\ setup.mail[m].hasAttachments => n \in k.kept
        /\ PlainBody(p) /\ ~Media(p) /\ p.content # Empty => k.text # {}
    BY <1>1 DEF Job
  <2>3. setup.mode = "graph"
    BY <1>8 DEF GraphPart, Attached
  <2> HIDE DEF k
  <2>4. Parted(m, n, k)
    BY <1>2, <1>3, <2>2, <2>3, PartAccounted DEF Seen
  <2>5. Advance(w, k)
    BY <1>2, <1>8 DEF k, GraphPart, Attached
  <2>6. QED
    BY <1>3, <1>6, <2>1, <2>4, <2>5
<1>9. CASE Strip(w)
  <2> DEFINE k == [j EXCEPT !.stripped = @ \cup {n}]
  <2>1. k \in Job /\ k.at = n /\ k.mail = j.mail /\ k.tagged = j.tagged
    BY <1>1, <1>3 DEF Job
  <2>2. k.kept = j.kept /\ k.stripped = j.stripped \cup {n} /\ k.text = j.text /\ k.html = j.html
    BY <1>1 DEF Job
  <2>3. setup.mode = "policy" /\ Checked(p) /\ Media(p)
    BY <1>9 DEF Strip, Checked
  <2> HIDE DEF k
  <2>4. Parted(m, n, k)
    BY <1>2, <1>3, <2>2, <2>3, PartAccounted
  <2>5. Advance(w, k)
    BY <1>9 DEF k, Strip
  <2>6. QED
    BY <1>3, <1>6, <2>1, <2>4, <2>5
<1>10. CASE Keep(w) /\ job'[w].pc # "open"
  <2> DEFINE k == [j EXCEPT !.kept = @ \cup {n}]
  <2>1. k \in Job /\ k.at = n /\ k.mail = j.mail /\ k.tagged = j.tagged
    BY <1>1, <1>3 DEF Job
  <2>2. k.kept = j.kept \cup {n} /\ k.stripped = j.stripped /\ k.text = j.text /\ k.html = j.html
    BY <1>1 DEF Job
  <2>3. Media(p) /\ n \notin Forbidden(m)
    BY <1>4, <1>10 DEF Keep, Checked
  <2>4. p.content = Empty \/ blobs[p.content] # "none"
    BY <1>1, <1>10 DEF Keep, Types, Job
  <2> HIDE DEF k
  <2>5. Parted(m, n, k)
    BY <1>2, <1>3, <2>2, <2>3, <2>4, PartAccounted DEF Stored
  <2>6. Advance(w, k)
    BY <1>10, <2>4 DEF k, Keep
  <2>7. QED
    BY <1>3, <1>6, <2>1, <2>5, <2>6
<1>11. CASE Skip(w)
  <2>1. PlainBody(p) => p.type # "container"
    BY DEF PlainBody
  <2>2. setup.mode # "graph" /\ p.type = "container" /\ n \notin Forbidden(m)
    BY <1>4, <1>11 DEF Skip, Checked
  <2>3. Parted(m, n, j)
    BY <1>2, <1>3, <2>1, <2>2, PartAccounted DEF Seen
  <2>4. Advance(w, j)
    BY <1>11 DEF Skip
  <2>5. QED
    BY <1>1, <1>3, <1>6, <2>3, <2>4
<1>12. QED
  BY <1>7, <1>8, <1>9, <1>10, <1>11

----------------------------------------------------------------------------
(* The invariant, step by step.                                            *)

\* A job that changes keeps its type, and the others keep theirs.
LEMMA TypesOfJob ==
  ASSUME Types, NEW w \in Workers, NEW k \in Job, job' = [job EXCEPT ![w] = k],
         setup' = setup, events' \subseteq Account,
         status' \in [Mails -> {"new", "taken", "emitted", "dropped", "dead", "duplicate"}],
         blobs' \in [Contents -> {"none", "partial", "whole"}],
         cut' \subseteq Contents, faults' \in Nat
  PROVE  Types'
<1>1. job' \in [Workers -> Job]
  BY DEF Types
<1>2. \A v \in Workers : job'[v].pc \in {"idle", "walk", "open", "write", "mark"}
  BY <1>1 DEF Job
<1>3. QED
  BY <1>1, <1>2 DEF Types, TypeOK

LEMMA NoJobIsOne == NoJob \in Job /\ NoJob.pc = "idle"
  BY DEF NoJob, Job

\* Steps of a worker that neither write, emit nor end an extraction.
LEMMA WalkKeeps ==
  ASSUME ExtractionInv, NEW w \in Workers,
         Skip(w) \/ BodyPart(w) \/ GraphPart(w) \/ Strip(w) \/ Keep(w)
  PROVE  ExtractionInv'
<1> USE DEF ExtractionInv
<1>1. Walking(w) /\ setup' = setup /\ UNCHANGED <<keys, status, events, blobs, cut, faults>>
  BY DEF Skip, BodyPart, GraphPart, Strip, Keep, Untouched
<1>2. \E k \in Job : job' = [job EXCEPT ![w] = k] /\ JobInv(k)
  <2>1. CASE Keep(w) /\ job'[w].pc = "open"
    <3>1. job[w] # NoJob /\ job[w] \in Job
      BY <1>1 DEF Walking, NoJob, Types
    <3>2. PICK m \in Mails : /\ Working(job[w], m) /\ Here(w) = PartsOf(m)[job[w].at]
                             /\ job[w].at \in DOMAIN PartsOf(m)
      BY <1>1, <3>1, AtPart
    <3>3. PICK k : k = [job[w] EXCEPT !.pc = "open"]
      OBVIOUS
    <3>4. k \in Job /\ k.pc = "open" /\ k.mail = job[w].mail /\ k.at = job[w].at
          /\ k.kept = job[w].kept /\ k.stripped = job[w].stripped /\ k.text = job[w].text
          /\ k.html = job[w].html /\ k.tagged = job[w].tagged
      BY <3>1, <3>3 DEF Job
    <3>5. Storable(m, k.at) /\ job' = [job EXCEPT ![w] = k]
      <4>1. ~(Here(w).content = Empty \/ blobs[Here(w).content] # "none")
        <5>1. job[w].pc = "walk"
          BY <1>1 DEF Walking
        <5>2. ASSUME Advance(w, [job[w] EXCEPT !.kept = @ \cup {job[w].at}]) PROVE FALSE
          BY <2>1, <3>1, <5>2 DEF Advance, Types, Job
        <5>3. QED
          BY <2>1, <5>2 DEF Keep
      <4>2. job' = [job EXCEPT ![w] = k]
        BY <2>1, <3>3, <4>1 DEF Keep
      <4>3. QED
        BY <2>1, <3>2, <3>4, <4>1, <4>2 DEF Keep, Storable
    <3>6. Parted(m, k.at - 1, k)
      BY <3>2, <3>4 DEF Working, Parted
    <3>7. Working(k, m)
      BY <3>2, <3>4, <3>5, <3>6 DEF Working, Screened
    <3>8. QED
      BY <3>4, <3>5, <3>7 DEF JobInv
  <2>2. CASE ~(Keep(w) /\ job'[w].pc = "open")
    BY <1>1, <2>2, WalkStep
  <2>3. QED
    BY <2>1, <2>2
<1>3. PICK k \in Job : job' = [job EXCEPT ![w] = k] /\ JobInv(k)
  BY <1>2
<1>4. StoreGrows
  BY <1>1 DEF StoreGrows
<1>5. Types'
  BY <1>1, <1>3, TypesOfJob DEF Types, TypeOK
<1>6. JobsInv'
  BY <1>3, <1>4, JobStays, OneJob
<1>7. EventsInv'
  BY <1>1, <1>4, EventsStay DEF EventsInv
<1>8. BlobsInv'
  <2>1. \A v \in Workers : job[v].pc = "write" => job'[v] = job[v]
    BY <1>1, <1>3 DEF Walking, Types
  <2>2. QED
    BY <1>1, <2>1, BlobsStay
<1>9. DeadInv'
  BY <1>1, DeadStays
<1>10. QED
  BY <1>5, <1>6, <1>7, <1>8, <1>9

\* A mail is taken, and screened.
LEMMA TakeKeeps ==
  ASSUME ExtractionInv, NEW w \in Workers, Take(w)
  PROVE  ExtractionInv'
<1> USE DEF ExtractionInv
<1>1. setup' = setup /\ UNCHANGED <<blobs, events, cut, faults>> /\ job[w] = NoJob
  BY DEF Take
<1>2. status' \in [Mails -> {"new", "taken", "emitted", "dropped", "dead", "duplicate"}]
      /\ \A m \in Mails : status'[m] = "dead" => status[m] = "dead"
  <2>1. \E m \in Mails : \E d \in {"duplicate", "dropped", "taken"} :
          status' = [status EXCEPT ![m] = d]
    BY DEF Take
  <2>2. QED
    BY <2>1 DEF Types, TypeOK
<1>3. \E k \in Job : job' = [job EXCEPT ![w] = k] /\ JobInv(k)
  <2>1. CASE job' = job
    <3>1. job' = [job EXCEPT ![w] = NoJob]
      BY <1>1, <2>1 DEF Types
    <3>2. QED
      BY <3>1, NoJobIsOne DEF JobInv
  <2>2. ASSUME NEW m \in Mails,
               job' = [job EXCEPT ![w] =
                 [NoJob EXCEPT !.pc = "walk", !.mail = {m},
                    !.tagged = Verdict(setup.chain, Envelope(setup.mail[m].headers)) = "drop"]]
        PROVE  \E k \in Job : job' = [job EXCEPT ![w] = k] /\ JobInv(k)
    <3> DEFINE t == Verdict(setup.chain, Envelope(setup.mail[m].headers)) = "drop"
               k == [NoJob EXCEPT !.pc = "walk", !.mail = {m}, !.tagged = t]
    <3>1. t \in BOOLEAN
      OBVIOUS
    <3>2. k.tagged = t
      BY DEF NoJob
    <3>3. Screened(m, k)
      BY <3>2 DEF Screened
    <3> HIDE DEF t
    <3>4. k \in Job
      BY <3>1 DEF NoJob, Job
    <3>5. k.at = 1 /\ k.kept = {} /\ k.stripped = {} /\ k.pc = "walk" /\ k.mail = {m}
      BY DEF NoJob
    <3>6. job' = [job EXCEPT ![w] = k]
      BY <2>2 DEF t
    <3> HIDE DEF k
    <3>7. Parted(m, k.at - 1, k)
      BY <3>5 DEF Parted
    <3>8. Len(PartsOf(m)) \in Nat
      BY PartsType
    <3>9. Working(k, m)
      BY <3>3, <3>5, <3>7, <3>8 DEF Working
    <3>10. QED
      BY <3>4, <3>6, <3>9 DEF JobInv
  <2>3. QED
    BY <2>1, <2>2 DEF Take
<1>4. PICK k \in Job : job' = [job EXCEPT ![w] = k] /\ JobInv(k)
  BY <1>3
<1>5. StoreGrows
  BY <1>1 DEF StoreGrows
<1>6. Types'
  BY <1>1, <1>2, <1>4, TypesOfJob DEF Types, TypeOK
<1>7. JobsInv'
  BY <1>4, <1>5, JobStays, OneJob
<1>8. EventsInv'
  BY <1>1, <1>5, EventsStay DEF EventsInv
<1>9. BlobsInv'
  <2>1. \A v \in Workers : job[v].pc = "write" => job'[v] = job[v]
    BY <1>1, <1>4, NoJobIsOne DEF Types
  <2>2. QED
    BY <1>1, <2>1, BlobsStay
<1>10. DeadInv'
  BY <1>1, <1>2, DeadStays
<1>11. QED
  BY <1>6, <1>7, <1>8, <1>9, <1>10

\* A worker opens a file: it is there, and unfinished, and the worker is its writer.
LEMMA OpenKeeps ==
  ASSUME ExtractionInv, NEW w \in Workers, Open(w)
  PROVE  ExtractionInv'
<1> USE DEF ExtractionInv
<1>1. setup' = setup /\ UNCHANGED <<keys, status, events, cut, faults>> /\ job[w].pc = "open"
  BY DEF Open, Untouched
<1>2. job[w] # NoJob /\ job[w] \in Job
  BY <1>1, NoJobIsOne DEF Types
<1>3. PICK m \in Mails : /\ Working(job[w], m) /\ Here(w) = PartsOf(m)[job[w].at]
                         /\ job[w].at \in DOMAIN PartsOf(m)
  BY <1>1, <1>2, AtPart
<1>4. PICK c \in Contents : c = Here(w).content
  BY <1>3, PartsType
<1>5. blobs' = [blobs EXCEPT ![c] = "partial"] /\ blobs'[c] = "partial"
  BY <1>4 DEF Open, Types, TypeOK
<1>6. StoreGrows
  <2>1. DOMAIN blobs = Contents
    BY DEF Types, TypeOK
  <2>2. QED
    BY <1>1, <1>5, <2>1 DEF StoreGrows
<1>7. PICK k : k = [job[w] EXCEPT !.pc = "write"]
  OBVIOUS
<1>8. k \in Job /\ k.pc = "write" /\ k.mail = job[w].mail /\ k.at = job[w].at
      /\ k.kept = job[w].kept /\ k.stripped = job[w].stripped /\ k.text = job[w].text
      /\ k.html = job[w].html /\ k.tagged = job[w].tagged
  BY <1>2, <1>7 DEF Job
<1>9. job' = [job EXCEPT ![w] = k] /\ job'[w] = k
  BY <1>7 DEF Open, Types
<1>10. PartsOf(m)' = PartsOf(m) /\ Forbidden(m)' = Forbidden(m)
  BY <1>1 DEF PartsOf, Forbidden, Rule
<1>11. JobInv(k)'
  <2>1. PICK n : n = k.at - 1
    OBVIOUS
  <2>2. Parted(m, n, k)
    BY <1>3, <1>8, <2>1 DEF Working, Parted
  <2>3. Parted(m, n, k)'
    BY <1>6, <2>2, PartedStays
  <2>4. Storable(m, k.at)'
    BY <1>1, <1>3, <1>8, <1>10 DEF Working, Storable, Rule
  <2>5. Stored(PartsOf(m)[k.at].content)'
    BY <1>3, <1>4, <1>5, <1>8, <1>10 DEF Stored
  <2>6. Working(k, m)'
    BY <1>1, <1>3, <1>8, <1>10, <2>1, <2>3, <2>4, <2>5 DEF Working, Screened
  <2>7. QED
    BY <2>6 DEF JobInv
<1>12. Types'
  BY <1>1, <1>5, <1>8, <1>9, TypesOfJob DEF Types, TypeOK
<1>13. JobsInv'
  BY <1>6, <1>8, <1>9, <1>11, OneJob
<1>14. EventsInv'
  BY <1>1, <1>6, EventsStay DEF EventsInv
<1>15. BlobsInv'
  <2> SUFFICES ASSUME NEW d \in Contents PROVE BlobInv(d)'
    BY DEF BlobsInv
  <2>1. \A n : PartsOf(n)' = PartsOf(n) /\ Forbidden(n)' = Forbidden(n)
    BY <1>1 DEF PartsOf, Forbidden, Rule
  <2>2. CASE d = c
    <3>1. job[w].at \notin Forbidden(m) /\ Checked(PartsOf(m)[job[w].at])
      BY <1>1, <1>3 DEF Working, Storable, Forbidden, LetsThrough
    <3>2. w \in Writers(c)'
      <4>1. Here(w)' = PartsOf(m)'[job'[w].at]
        BY <1>3, <1>8, <1>9, MailIs DEF Working
      <4>2. QED
        BY <1>3, <1>4, <1>8, <1>9, <1>10, <4>1 DEF Writers
    <3>3. QED
      BY <1>3, <1>4, <2>1, <2>2, <3>1, <3>2 DEF BlobInv
  <2>3. CASE d # c
    <3>1. blobs'[d] = blobs[d]
      BY <1>5, <2>3 DEF Types, TypeOK
    <3>2. Writers(d) # {} => Writers(d)' # {}
      <4>1. \A v \in Writers(d) : job'[v] = job[v]
        BY <1>1, <1>9 DEF Writers, Types
      <4>2. QED
        BY <1>1, <4>1, WritersStay
    <3>3. QED
      BY <1>1, <2>1, <3>1, <3>2 DEF BlobsInv, BlobInv
  <2>4. QED
    BY <2>2, <2>3
<1>16. DeadInv'
  BY <1>1, DeadStays
<1>17. QED
  BY <1>12, <1>13, <1>14, <1>15, <1>16

\* The last chunk: the file is whole, unless somebody else has truncated it.
LEMMA WriteKeeps ==
  ASSUME ExtractionInv, NEW w \in Workers, Write(w)
  PROVE  ExtractionInv'
<1> USE DEF ExtractionInv
<1>1. setup' = setup /\ UNCHANGED <<keys, status, events, cut, faults>> /\ job[w].pc = "write"
  BY DEF Write, Untouched
<1>2. job[w] # NoJob /\ job[w] \in Job
  BY <1>1, NoJobIsOne DEF Types
<1>3. PICK m \in Mails : /\ Working(job[w], m) /\ Here(w) = PartsOf(m)[job[w].at]
                         /\ job[w].at \in DOMAIN PartsOf(m) /\ job[w].at - 1 \in Nat
  BY <1>1, <1>2, AtPart
<1>4. PICK c \in Contents : c = Here(w).content
  BY <1>3, PartsType
<1>5. blobs' = IF Writers(c) = {w} THEN [blobs EXCEPT ![c] = "whole"] ELSE blobs
  BY <1>4 DEF Write
<1>6. StoreGrows
  <2>1. DOMAIN blobs = Contents
    BY DEF Types, TypeOK
  <2>2. QED
    BY <1>1, <1>5, <2>1 DEF StoreGrows
<1>7. \E l \in Job : job' = [job EXCEPT ![w] = l] /\ JobInv(l) /\ l.pc = "walk"
  <2>1. PICK n : n = job[w].at
    OBVIOUS
  <2>2. PICK k : k = [job[w] EXCEPT !.kept = @ \cup {n}]
    OBVIOUS
  <2>3. n \in Nat \ {0}
    BY <1>2, <1>3, <2>1 DEF Job
  <2>4. k \in Job /\ k.at = n /\ k.mail = job[w].mail /\ k.tagged = job[w].tagged
        /\ k.kept = job[w].kept \cup {n} /\ k.stripped = job[w].stripped
        /\ k.text = job[w].text /\ k.html = job[w].html
    BY <1>2, <2>1, <2>2, <2>3 DEF Job
  <2>5. n \notin Forbidden(m) /\ Stored(PartsOf(m)[n].content) /\ Media(PartsOf(m)[n])
    BY <1>1, <1>3, <2>1 DEF Working, Storable, Forbidden, LetsThrough, Checked
  <2>6. Parted(m, n - 1, job[w])
    BY <1>3, <2>1 DEF Working
  <2>7. Parted(m, n, k)
    BY <2>3, <2>4, <2>5, <2>6, PartAccounted
  <2>8. job' = [job EXCEPT ![w] = [k EXCEPT !.at = @ + 1, !.pc = "walk"]]
    BY <2>1, <2>2 DEF Write, Advance
  <2>9. [k EXCEPT !.at = @ + 1, !.pc = "walk"].pc = "walk"
    BY <2>4 DEF Job
  <2>10. QED
    BY <1>2, <1>3, <2>1, <2>4, <2>7, <2>8, <2>9, Advances
<1>8. PICK l \in Job : job' = [job EXCEPT ![w] = l] /\ JobInv(l) /\ l.pc = "walk"
  BY <1>7
<1>9. Types'
  <2>1. blobs' \in [Contents -> {"none", "partial", "whole"}]
    BY <1>5 DEF Types, TypeOK
  <2>2. QED
    BY <1>1, <1>8, <2>1, TypesOfJob DEF Types, TypeOK
<1>10. JobsInv'
  BY <1>6, <1>8, JobStays, OneJob
<1>11. EventsInv'
  BY <1>1, <1>6, EventsStay DEF EventsInv
<1>12. BlobsInv'
  <2> SUFFICES ASSUME NEW d \in Contents PROVE BlobInv(d)'
    BY DEF BlobsInv
  <2>1. \A n : PartsOf(n)' = PartsOf(n) /\ Forbidden(n)' = Forbidden(n)
    BY <1>1 DEF PartsOf, Forbidden, Rule
  <2>2. \A v \in Writers(d) : v # w => v \in Writers(d)'
    <3>1. \A v \in Writers(d) : v # w => job'[v] = job[v]
      BY <1>8 DEF Writers, Types
    <3>2. QED
      BY <1>1, <3>1, WritersStay
  <2>3. blobs'[d] # "none" => blobs[d] # "none"
    <3>1. blobs[c] # "none"
      <4>1. c # Empty /\ Stored(c)
        BY <1>1, <1>3, <1>4 DEF Working, Storable
      <4>2. QED
        BY <4>1 DEF Stored
    <3>2. QED
      BY <1>5, <3>1 DEF Types, TypeOK
  <2>4. blobs'[d] = "partial" => d \in cut \/ Writers(d)' # {}
    <3>1. CASE d = c
      <4>1. w \in Writers(c)
        BY <1>1, <1>4 DEF Writers
      <4>2. CASE Writers(c) = {w}
        BY <1>5, <3>1, <4>2 DEF Types, TypeOK
      <4>3. CASE Writers(c) # {w}
        BY <2>2, <3>1, <4>1, <4>3
      <4>4. QED
        BY <4>2, <4>3
    <3>2. CASE d # c
      <4>1. blobs'[d] = blobs[d]
        BY <1>5, <3>2 DEF Types, TypeOK
      <4>2. w \notin Writers(d)
        BY <1>4, <3>2 DEF Writers
      <4>3. QED
        BY <2>2, <4>1, <4>2 DEF BlobsInv, BlobInv
    <3>3. QED
      BY <3>1, <3>2
  <2>5. QED
    BY <1>1, <2>1, <2>3, <2>4 DEF BlobsInv, BlobInv
<1>13. DeadInv'
  BY <1>1, DeadStays
<1>14. QED
  BY <1>9, <1>10, <1>11, <1>12, <1>13

\* A mail that must be blocked is dead-lettered, and the worker is free.
LEMMA BlockKeeps ==
  ASSUME ExtractionInv, NEW w \in Workers, Block(w)
  PROVE  ExtractionInv'
<1> USE DEF ExtractionInv
<1>1. setup' = setup /\ UNCHANGED <<keys, blobs, events, cut, faults>>
      /\ Walking(w) /\ job' = [job EXCEPT ![w] = NoJob]
  BY DEF Block
<1>2. job[w] # NoJob /\ job[w].pc = "walk"
  BY <1>1, NoJobIsOne DEF Walking
<1>3. PICK m \in Mails : /\ MailOf(w) = m /\ Here(w) = PartsOf(m)[job[w].at]
                         /\ job[w].at \in DOMAIN PartsOf(m)
  BY <1>1, <1>2, AtPart
<1>4. setup.mode = "legacy" /\ Forbidden(m) # {}
  BY <1>3 DEF Block, Forbidden, LetsThrough
<1>5. status' = [status EXCEPT ![m] = "dead"]
  BY <1>3 DEF Block
<1>6. StoreGrows
  BY <1>1 DEF StoreGrows
<1>7. Types'
  <2>1. status' \in [Mails -> {"new", "taken", "emitted", "dropped", "dead", "duplicate"}]
    BY <1>5 DEF Types, TypeOK
  <2>2. QED
    BY <1>1, <2>1, NoJobIsOne, TypesOfJob DEF Types, TypeOK
<1>8. JobsInv'
  <2>1. JobInv(NoJob)'
    BY DEF JobInv
  <2>2. QED
    BY <1>1, <1>6, <2>1, OneJob
<1>9. EventsInv'
  BY <1>1, <1>6, EventsStay DEF EventsInv
<1>10. BlobsInv'
  <2>1. \A v \in Workers : job[v].pc = "write" => job'[v] = job[v]
    BY <1>1, <1>2 DEF Types
  <2>2. QED
    BY <1>1, <2>1, BlobsStay
<1>11. DeadInv'
  <2>1. \A n \in Mails : Forbidden(n)' = Forbidden(n)
    BY <1>1 DEF Forbidden, PartsOf, Rule
  <2>2. QED
    BY <1>1, <1>4, <1>5, <2>1 DEF DeadInv, Types, TypeOK
<1>12. QED
  BY <1>7, <1>8, <1>9, <1>10, <1>11

\* A write is cut off: its file is remembered as one that may stay unfinished.
LEMMA WriteFailsKeeps ==
  ASSUME ExtractionInv, NEW w \in Workers, WriteFails(w)
  PROVE  ExtractionInv'
<1> USE DEF ExtractionInv
<1>1. setup' = setup /\ UNCHANGED <<blobs, events>> /\ job[w].pc = "write"
      /\ job' = [job EXCEPT ![w] = NoJob]
  BY DEF WriteFails
<1>2. job[w] # NoJob /\ job[w] \in Job
  BY <1>1, NoJobIsOne DEF Types
<1>3. PICK m \in Mails : /\ MailOf(w) = m /\ Here(w) = PartsOf(m)[job[w].at]
                         /\ job[w].at \in DOMAIN PartsOf(m)
  BY <1>1, <1>2, AtPart
<1>4. PICK c \in Contents : c = Here(w).content
  BY <1>3, PartsType
<1>5. cut' = cut \cup {c} /\ status' = [status EXCEPT ![m] = "new"]
  BY <1>3, <1>4 DEF WriteFails
<1>6. StoreGrows
  BY <1>1 DEF StoreGrows
<1>7. Types'
  <2>1. status' \in [Mails -> {"new", "taken", "emitted", "dropped", "dead", "duplicate"}]
    BY <1>5 DEF Types, TypeOK
  <2>2. cut' \subseteq Contents
    BY <1>5 DEF Types, TypeOK
  <2>3. faults' \in Nat
    BY DEF WriteFails, Types, TypeOK
  <2>4. QED
    BY <1>1, <2>1, <2>2, <2>3, NoJobIsOne, TypesOfJob DEF Types, TypeOK
<1>8. JobsInv'
  <2>1. JobInv(NoJob)'
    BY DEF JobInv
  <2>2. QED
    BY <1>1, <1>6, <2>1, OneJob
<1>9. EventsInv'
  BY <1>1, <1>6, EventsStay DEF EventsInv
<1>10. BlobsInv'
  <2> SUFFICES ASSUME NEW d \in Contents PROVE BlobInv(d)'
    BY DEF BlobsInv
  <2>1. \A n : PartsOf(n)' = PartsOf(n) /\ Forbidden(n)' = Forbidden(n)
    BY <1>1 DEF PartsOf, Forbidden, Rule
  <2>2. d # c => (Writers(d) # {} => Writers(d)' # {})
    <3>1. d # c => \A v \in Writers(d) : job'[v] = job[v]
      BY <1>1, <1>4 DEF Writers, Types
    <3>2. QED
      BY <1>1, <3>1, WritersStay
  <2>3. QED
    BY <1>1, <1>5, <2>1, <2>2 DEF BlobsInv, BlobInv
<1>11. DeadInv'
  BY <1>1, <1>5, DeadStays DEF Types, TypeOK
<1>12. QED
  BY <1>7, <1>8, <1>9, <1>10, <1>11

\* The event says what the walk has found.
LEMMA EmitKeeps ==
  ASSUME ExtractionInv, NEW w \in Workers, Emit(w)
  PROVE  ExtractionInv'
<1> USE DEF ExtractionInv
<1>1. setup' = setup /\ UNCHANGED <<keys, status, blobs, cut, faults>>
      /\ job[w].pc = "walk" /\ ~Walking(w)
  BY DEF Emit
<1>2. job[w] # NoJob /\ job[w] \in Job
  BY <1>1, NoJobIsOne DEF Types
<1>3. PICK m \in Mails : Working(job[w], m) /\ MailOf(w) = m
  BY <1>2, AtPart
<1>4. PICK j \in Job : j = job[w]
  BY <1>2
<1>5. PICK e : e = [mail |-> m, text |-> j.text, html |-> j.html, kept |-> j.kept,
                    stripped |-> j.stripped, tagged |-> j.tagged]
  OBVIOUS
<1>6. events' = events \cup {e} /\ e \in Account
  BY <1>3, <1>4, <1>5 DEF Emit, Job, Account
<1>7. Len(PartsOf(m)) \in Nat /\ j.at \in Nat
  BY PartsType DEF Job
<1>8. j.at - 1 = Len(PartsOf(m))
  BY <1>1, <1>3, <1>4, <1>7 DEF Walking, Working
<1>9. EventInv(e)
  <2>1. Parted(m, Len(PartsOf(m)), j)
    BY <1>3, <1>4, <1>8 DEF Working
  <2>2. Parted(m, Len(PartsOf(m)), e)
    BY <1>5, <2>1 DEF Parted
  <2>3. Screened(m, e)
    BY <1>3, <1>4, <1>5 DEF Working, Screened
  <2>4. QED
    BY <1>5, <2>2, <2>3 DEF EventInv
<1>10. PICK k : k = [j EXCEPT !.pc = "mark"]
  OBVIOUS
<1>11. k \in Job /\ k.pc = "mark" /\ k.mail = j.mail /\ k.at = j.at /\ k.kept = j.kept
       /\ k.stripped = j.stripped /\ k.text = j.text /\ k.html = j.html /\ k.tagged = j.tagged
  BY <1>10 DEF Job
<1>12. job' = [job EXCEPT ![w] = k]
  BY <1>4, <1>10 DEF Emit
<1>13. JobInv(k)
  <2>1. Parted(m, k.at - 1, k)
    BY <1>3, <1>4, <1>11 DEF Working, Parted
  <2>2. Working(k, m)
    BY <1>3, <1>4, <1>11, <2>1 DEF Working, Screened
  <2>3. QED
    BY <2>2 DEF JobInv
<1>14. StoreGrows
  BY <1>1 DEF StoreGrows
<1>15. Types'
  BY <1>1, <1>6, <1>11, <1>12, TypesOfJob DEF Types, TypeOK
<1>16. JobsInv'
  BY <1>11, <1>12, <1>13, <1>14, JobStays, OneJob
<1>17. EventsInv'
  <2>1. EventInv(e)'
    <3>1. EventsInv /\ events \cup {e} = events \cup {e}
      OBVIOUS
    <3>2. PartsOf(e.mail)' = PartsOf(e.mail)
      BY <1>1 DEF PartsOf
    <3>3. PICK n : n = Len(PartsOf(e.mail))
      OBVIOUS
    <3>4. Parted(e.mail, n, e)'
      BY <1>9, <1>14, <3>3, PartedStays DEF EventInv
    <3>5. Parted(e.mail, Len(PartsOf(e.mail)), e)'
      BY <3>2, <3>3, <3>4 DEF Parted
    <3>6. QED
      BY <1>1, <1>9, <3>5 DEF EventInv, Screened
  <2>2. \A f \in events : EventInv(f)'
    BY <1>14, EventsStay
  <2>3. QED
    BY <1>6, <2>1, <2>2 DEF EventsInv
<1>18. BlobsInv'
  <2>1. \A v \in Workers : job[v].pc = "write" => job'[v] = job[v]
    BY <1>1, <1>12 DEF Types
  <2>2. QED
    BY <1>1, <2>1, BlobsStay
<1>19. DeadInv'
  BY <1>1, DeadStays
<1>20. QED
  BY <1>15, <1>16, <1>17, <1>18, <1>19

LEMMA MarkKeeps ==
  ASSUME ExtractionInv, NEW w \in Workers, Mark(w)
  PROVE  ExtractionInv'
<1> USE DEF ExtractionInv
<1>1. setup' = setup /\ UNCHANGED <<keys, blobs, events, cut, faults>>
      /\ job[w].pc = "mark" /\ job' = [job EXCEPT ![w] = NoJob]
  BY DEF Mark
<1>2. job[w] # NoJob
  BY <1>1, NoJobIsOne
<1>3. PICK m \in Mails : status' = [status EXCEPT ![m] = "emitted"]
  BY <1>2, AtPart DEF Mark
<1>4. StoreGrows
  BY <1>1 DEF StoreGrows
<1>5. Types'
  <2>1. status' \in [Mails -> {"new", "taken", "emitted", "dropped", "dead", "duplicate"}]
    BY <1>3 DEF Types, TypeOK
  <2>2. QED
    BY <1>1, <2>1, NoJobIsOne, TypesOfJob DEF Types, TypeOK
<1>6. JobsInv'
  <2>1. JobInv(NoJob)'
    BY DEF JobInv
  <2>2. QED
    BY <1>1, <1>4, <2>1, OneJob
<1>7. EventsInv'
  BY <1>1, <1>4, EventsStay DEF EventsInv
<1>8. BlobsInv'
  <2>1. \A v \in Workers : job[v].pc = "write" => job'[v] = job[v]
    BY <1>1 DEF Types
  <2>2. QED
    BY <1>1, <2>1, BlobsStay
<1>9. DeadInv'
  BY <1>1, <1>3, DeadStays DEF Types, TypeOK
<1>10. QED
  BY <1>5, <1>6, <1>7, <1>8, <1>9

\* The process dies: every file that was being written stays as it is.
LEMMA CrashKeeps ==
  ASSUME ExtractionInv, Crash
  PROVE  ExtractionInv'
<1> USE DEF ExtractionInv
<1>1. setup' = setup /\ UNCHANGED <<blobs, events>> /\ job' = [w \in Workers |-> NoJob]
      /\ cut' = cut \cup {c \in Contents : Writers(c) # {}}
  BY DEF Crash
<1>2. StoreGrows
  BY <1>1 DEF StoreGrows
<1>3. status' \in [Mails -> {"new", "taken", "emitted", "dropped", "dead", "duplicate"}]
      /\ \A m \in Mails : status'[m] = "dead" => status[m] = "dead"
  BY DEF Crash, Types, TypeOK
<1>4. Types'
  <2>1. job' \in [Workers -> Job]
    BY <1>1, NoJobIsOne
  <2>2. \A w \in Workers : job'[w].pc = "idle"
    BY <1>1, NoJobIsOne
  <2>3. cut' \subseteq Contents
    BY <1>1 DEF Types, TypeOK
  <2>4. faults' \in Nat
    BY DEF Crash, Types, TypeOK
  <2>5. QED
    BY <1>1, <1>3, <2>1, <2>2, <2>3, <2>4 DEF Types, TypeOK
<1>5. JobsInv'
  BY <1>1 DEF JobsInv, JobInv
<1>6. EventsInv'
  BY <1>1, <1>2, EventsStay DEF EventsInv
<1>7. BlobsInv'
  <2>1. \A n : PartsOf(n)' = PartsOf(n) /\ Forbidden(n)' = Forbidden(n)
    BY <1>1 DEF PartsOf, Forbidden, Rule
  <2>2. QED
    BY <1>1, <2>1 DEF BlobsInv, BlobInv
<1>8. DeadInv'
  BY <1>1, <1>3, DeadStays
<1>9. QED
  BY <1>4, <1>5, <1>6, <1>7, <1>8

LEMMA StutterKeeps ==
  ASSUME ExtractionInv, UNCHANGED vars
  PROVE  ExtractionInv'
<1> USE DEF ExtractionInv
<1>1. setup' = setup /\ UNCHANGED <<keys, status, job, blobs, events, cut, faults>>
  BY DEF vars
<1>2. StoreGrows
  BY <1>1 DEF StoreGrows
<1>3. Types'
  BY <1>1 DEF Types, TypeOK
<1>4. JobsInv'
  <2> SUFFICES ASSUME NEW w \in Workers PROVE JobInv(job[w])'
    BY DEF JobsInv
  <2>1. PICK k : k = job[w]
    OBVIOUS
  <2>2. JobInv(k)'
    BY <1>2, <2>1, JobStays DEF JobsInv
  <2>3. QED
    BY <1>1, <2>1, <2>2 DEF JobInv
<1>5. EventsInv'
  BY <1>1, <1>2, EventsStay DEF EventsInv
<1>6. BlobsInv'
  BY <1>1, BlobsStay
<1>7. DeadInv'
  BY <1>1, DeadStays
<1>8. QED
  BY <1>3, <1>4, <1>5, <1>6, <1>7

LEMMA InitHolds == Init => ExtractionInv
<1> SUFFICES ASSUME Init PROVE ExtractionInv
  OBVIOUS
<1>1. Types
  <2>1. job \in [Workers -> Job] /\ \A w \in Workers : job[w].pc = "idle"
    BY NoJobIsOne DEF Init
  <2>2. QED
    BY <2>1 DEF Init, Types, TypeOK
<1>2. JobsInv /\ EventsInv /\ BlobsInv /\ DeadInv
  BY DEF Init, JobsInv, JobInv, EventsInv, BlobsInv, BlobInv, DeadInv
<1>3. QED
  BY <1>1, <1>2 DEF ExtractionInv

LEMMA NextKeeps == ExtractionInv /\ [Next]_vars => ExtractionInv'
<1> SUFFICES ASSUME ExtractionInv, [Next]_vars PROVE ExtractionInv'
  OBVIOUS
<1>1. CASE Crash
  BY <1>1, CrashKeeps
<1>2. CASE UNCHANGED vars
  BY <1>2, StutterKeeps
<1>3. ASSUME NEW w \in Workers, Work(w) \/ WriteFails(w)
      PROVE  ExtractionInv'
  BY <1>3, TakeKeeps, WalkKeeps, BlockKeeps, OpenKeeps, WriteKeeps, WriteFailsKeeps,
     EmitKeeps, MarkKeeps DEF Work, Walk
<1>4. QED
  BY <1>1, <1>2, <1>3 DEF Next

LEMMA Invariance == Spec => []ExtractionInv
  BY InitHolds, NextKeeps, PTL DEF Spec

----------------------------------------------------------------------------
(* What follows.                                                           *)

\* Every event says of all the parts of its mail what Parted asks for.
LEMMA EventTells ==
  ASSUME ExtractionInv, NEW e \in events
  PROVE  /\ e.mail \in Mails /\ DOMAIN PartsOf(e.mail) = 1 .. Len(PartsOf(e.mail))
         /\ Parted(e.mail, Len(PartsOf(e.mail)), e) /\ Screened(e.mail, e)
<1>1. e.mail \in Mails
  BY DEF ExtractionInv, Types, Account
<1>2. PartsOf(e.mail) \in Seq(Part(Contents))
  BY <1>1, PartsType DEF ExtractionInv
<1>3. QED
  BY <1>1, <1>2 DEF ExtractionInv, EventsInv, EventInv

\* Whatever an event refers to is whole, being written, or was cut off, with any number of
\* workers that write the same file, failing writes and crashes (local_blob.py put_stream).
THEOREM RefsAreWhole == Spec => []RefsWhole
<1>1. ExtractionInv => RefsWhole
  <2> SUFFICES ASSUME ExtractionInv PROVE RefsWhole
    OBVIOUS
  <2>1. TypeOK
    BY DEF ExtractionInv, Types
  <2>2. ASSUME NEW e \in events, NEW i \in e.kept, setup.mode # "graph",
               PartsOf(e.mail)[i].content # Empty, PartsOf(e.mail)[i].content \notin cut
        PROVE  LET c == PartsOf(e.mail)[i].content IN blobs[c] = "whole" \/ Writers(c) # {}
    <3>1. Stored(PartsOf(e.mail)[i].content) /\ i \in DOMAIN PartsOf(e.mail)
      BY <2>2, EventTells DEF Parted
    <3>2. PICK c \in Contents : c = PartsOf(e.mail)[i].content
      BY <3>1, EventTells, PartsType DEF ExtractionInv
    <3>3. blobs[c] \in {"partial", "whole"}
      BY <2>1, <2>2, <3>1, <3>2 DEF Stored, TypeOK
    <3>4. blobs[c] = "partial" => Writers(c) # {}
      BY <2>2, <3>2 DEF ExtractionInv, BlobsInv, BlobInv
    <3>5. QED
      BY <3>2, <3>3, <3>4
  <2>3. QED
    BY <2>1, <2>2 DEF RefsWhole
<1>2. QED
  BY <1>1, Invariance, PTL

\* No forbidden part reaches the store or an event, and only legacy mode dead-letters a
\* mail for one, whatever the rules and the parts (extract/mime.py, extract/streaming.py).
THEOREM ChecksFailClosed == Spec => []FailsClosed
<1>1. ExtractionInv => FailsClosed
  <2> SUFFICES ASSUME ExtractionInv PROVE FailsClosed
    OBVIOUS
  <2>1. \A c \in Contents : blobs[c] # "none" =>
          \E m \in Mails : \E i \in DOMAIN PartsOf(m) \ Forbidden(m) :
            Checked(PartsOf(m)[i]) /\ PartsOf(m)[i].content = c
    BY DEF ExtractionInv, BlobsInv, BlobInv
  <2>2. \A m \in Mails : status[m] = "dead" => setup.mode = "legacy" /\ Forbidden(m) # {}
    BY DEF ExtractionInv, DeadInv
  <2>3. \A e \in events : setup.mode = "legacy" => Forbidden(e.mail) = {}
    <3> SUFFICES ASSUME NEW e \in events, setup.mode = "legacy" PROVE Forbidden(e.mail) = {}
      OBVIOUS
    <3>1. Forbidden(e.mail) \subseteq DOMAIN PartsOf(e.mail)
      BY DEF Forbidden
    <3>2. Forbidden(e.mail) \cap 1 .. Len(PartsOf(e.mail)) = {}
      BY EventTells DEF Parted
    <3>3. QED
      BY <3>1, <3>2, EventTells
  <2>4. \A e \in events : setup.mode # "graph" => e.kept \cap Forbidden(e.mail) = {}
    BY EventTells DEF Parted
  <2>5. QED
    BY <2>1, <2>2, <2>3, <2>4 DEF FailsClosed, Forbidden
<1>2. QED
  BY <1>1, Invariance, PTL

\* A set of numbers that is not empty has a least.
LEMMA MinIs ==
  ASSUME NEW S, S \subseteq Nat, S # {}
  PROVE  Min(S) \in S /\ \A i \in S : Min(S) <= i
<1>1. \E m \in S : \A k \in S : ~ (<<k, m>> \in OpToRel(<, Nat))
  BY WFMin, NatLessThanWellFounded
<1>2. PICK m \in S : \A k \in S : ~ (<<k, m>> \in OpToRel(<, Nat))
  BY <1>1
<1>3. ASSUME NEW k \in S PROVE m =< k
  <2>1. ~ (k < m)
    BY <1>2, <1>3 DEF OpToRel
  <2>2. QED
    BY <2>1
<1>4. QED
  BY <1>3 DEF Min

\* What a filter drops it drops; only a whitelist keeps.
LEMMA OnlyWhitelistKeeps ==
  ASSUME NEW f, NEW env
  PROVE  /\ Drops(f, env) => Evaluate(f, env) = "drop"
         /\ Evaluate(f, env) \notin {"uncertain", "drop"} =>
              f.name = "whitelist" /\ env.domain \in f.set
<1>1. f.name = "whitelist" => ~Drops(f, env)
  BY DEF Drops
<1>2. CASE Drops(f, env)
  BY <1>1, <1>2 DEF Evaluate
<1>3. CASE ~Drops(f, env)
  BY <1>3 DEF Evaluate
<1>4. QED
  BY <1>2, <1>3

LEMMA VerdictDrops ==
  ASSUME NEW chain, NEW env, DOMAIN chain \subseteq Nat \ {0},
         NEW i \in DOMAIN chain, Drops(chain[i], env),
         \A k \in 1 .. i - 1 : ~ (chain[k].name = "whitelist" /\ env.domain \in chain[k].set)
  PROVE  Verdict(chain, env) = "drop"
<1> DEFINE deciding == {k \in DOMAIN chain : Evaluate(chain[k], env) # "uncertain"}
<1>1. i \in deciding /\ deciding \subseteq Nat
  BY OnlyWhitelistKeeps
<1>2. Verdict(chain, env) = Evaluate(chain[Min(deciding)], env)
  BY <1>1 DEF Verdict
<1>3. PICK k \in deciding : k = Min(deciding) /\ k <= i
  BY <1>1, MinIs
<1>4. CASE k = i
  BY <1>2, <1>3, <1>4, OnlyWhitelistKeeps
<1>5. CASE k # i
  <2>1. k \in 1 .. i - 1
    BY <1>3, <1>5
  <2>2. QED
    BY <1>2, <1>3, <2>1, OnlyWhitelistKeeps
<1>6. QED
  BY <1>4, <1>5

\* For every chain of filters of every kind and every mail, and through retries and
\* crashes: what a filter drops is tagged, unless a whitelist came first (filters/chain.py).
THEOREM WhatIsBlockedIsTagged == Spec => []BlockedStaysOut
<1>1. ExtractionInv => BlockedStaysOut
  <2> SUFFICES ASSUME ExtractionInv, NEW e \in events, NEW i \in DOMAIN setup.chain,
                      Drops(setup.chain[i], Envelope(setup.mail[e.mail].headers)),
                      \A k \in 1 .. i - 1 :
                        ~ (/\ setup.chain[k].name = "whitelist"
                           /\ Envelope(setup.mail[e.mail].headers).domain \in setup.chain[k].set)
               PROVE  e.tagged
    BY DEF BlockedStaysOut
  <2>1. DOMAIN setup.chain \subseteq Nat \ {0}
    BY ExtractionAssumption DEF ExtractionInv, Types, SetupOK
  <2>2. Verdict(setup.chain, Envelope(setup.mail[e.mail].headers)) = "drop"
    BY <2>1, VerdictDrops
  <2>3. QED
    BY <2>2, EventTells DEF Screened
<1>2. QED
  BY <1>1, Invariance, PTL

----------------------------------------------------------------------------
(* Mails that are told apart.                                              *)

\* Names are sequences of characters, no id has the separator in it, and no two mails of
\* a mailbox have the same id.
Separable ==
  \A s \in Setups : \A m, n \in Mails :
    /\ s.mail[m].mailbox \in Seq(STRING) /\ s.mail[m].id \in Seq(STRING)
    /\ \A i \in DOMAIN s.mail[m].id : s.mail[m].id[i] # Sep
    /\ s.mail[m].mailbox = s.mail[n].mailbox /\ s.mail[m].id = s.mail[n].id => m = n

LEMMA SameElements ==
  ASSUME NEW S, NEW a \in Seq(S), NEW b \in Seq(S), Len(a) = Len(b),
         \A i \in 1 .. Len(a) : a[i] = b[i]
  PROVE  a = b
<1>1. DOMAIN a = DOMAIN b
  OBVIOUS
<1>2. a = [i \in DOMAIN a |-> a[i]] /\ b = [i \in DOMAIN b |-> b[i]]
  OBVIOUS
<1>3. QED
  BY <1>1, <1>2

\* What a key is made of.  The last separator of a key stands before the id, whatever is in the mailbox's name.
Shaped(k, a, x) ==
  /\ Len(k) = Len(a) + Len(x) + 3
  /\ \A i \in 1 .. Len(a) : k[i + 2] = a[i]
  /\ k[Len(a) + 3] = Sep
  /\ \A i \in 1 .. Len(x) : k[Len(a) + 3 + i] = x[i]

LEMMA KeyShape ==
  ASSUME NEW S, NEW t, NEW a \in Seq(S), NEW x \in Seq(S)
  PROVE  Shaped(IdempotencyKey(<<t>>, a, x), a, x)
  BY DEF IdempotencyKey, Shaped, Sep

LEMMA NotShorter ==
  ASSUME NEW S, NEW t, NEW a \in Seq(S), NEW x \in Seq(S),
         NEW b \in Seq(S), NEW y \in Seq(S), \A i \in DOMAIN x : x[i] # Sep,
         IdempotencyKey(<<t>>, a, x) = IdempotencyKey(<<t>>, b, y)
  PROVE  Len(b) <= Len(a)
<1> SUFFICES ASSUME Len(a) < Len(b) PROVE FALSE
  OBVIOUS
<1>1. PICK k : Shaped(k, a, x) /\ Shaped(k, b, y)
  BY KeyShape
<1>2. Len(k) = Len(a) + Len(x) + 3 /\ \A i \in 1 .. Len(x) : k[Len(a) + 3 + i] = x[i]
  BY <1>1 DEF Shaped
<1>3. Len(k) = Len(b) + Len(y) + 3 /\ k[Len(b) + 3] = Sep
  BY <1>1 DEF Shaped
<1>4. Len(b) - Len(a) \in 1 .. Len(x) /\ Len(a) + 3 + (Len(b) - Len(a)) = Len(b) + 3
  BY <1>2, <1>3
<1>5. PICK i \in 1 .. Len(x) : Len(a) + 3 + i = Len(b) + 3
  BY <1>4
<1>6. x[i] = Sep
  BY <1>2, <1>3, <1>5
<1>7. QED
  BY <1>6

LEMMA KeyTells ==
  ASSUME NEW S, NEW t, NEW a \in Seq(S), NEW x \in Seq(S),
         NEW b \in Seq(S), NEW y \in Seq(S),
         \A i \in DOMAIN x : x[i] # Sep, \A i \in DOMAIN y : y[i] # Sep,
         IdempotencyKey(<<t>>, a, x) = IdempotencyKey(<<t>>, b, y)
  PROVE  a = b /\ x = y
<1>1. PICK k : Shaped(k, a, x) /\ Shaped(k, b, y)
  BY KeyShape
<1>2. Len(a) = Len(b)
  <2>1. Len(b) <= Len(a)
    BY NotShorter
  <2>2. Len(a) <= Len(b)
    BY NotShorter
  <2>3. QED
    BY <2>1, <2>2
<1>3. /\ Len(k) = Len(a) + Len(x) + 3
      /\ \A i \in 1 .. Len(a) : k[i + 2] = a[i]
      /\ \A i \in 1 .. Len(x) : k[Len(a) + 3 + i] = x[i]
  BY <1>1 DEF Shaped
<1>4. /\ Len(k) = Len(b) + Len(y) + 3
      /\ \A i \in 1 .. Len(b) : k[i + 2] = b[i]
      /\ \A i \in 1 .. Len(y) : k[Len(b) + 3 + i] = y[i]
  BY <1>1 DEF Shaped
<1>5. Len(x) = Len(y)
  BY <1>2, <1>3, <1>4
<1>6. \A i \in 1 .. Len(a) : a[i] = b[i]
  BY <1>2, <1>3, <1>4
<1>7. \A i \in 1 .. Len(x) : x[i] = y[i]
  BY <1>2, <1>3, <1>4, <1>5
<1>8. a = b
  BY <1>2, <1>6, SameElements
<1>9. x = y
  BY <1>5, <1>7, SameElements
<1>10. QED
  BY <1>8, <1>9

LEMMA KeysApart ==
  ASSUME Separable, setup \in Setups, NEW m \in Mails, NEW n \in Mails, KeyOf(m) = KeyOf(n)
  PROVE  m = n
<1>1. PICK a, x, b, y : /\ a = setup.mail[m].mailbox /\ x = setup.mail[m].id
                        /\ b = setup.mail[n].mailbox /\ y = setup.mail[n].id
  OBVIOUS
<1>2. /\ a \in Seq(STRING) /\ x \in Seq(STRING) /\ b \in Seq(STRING) /\ y \in Seq(STRING)
      /\ \A i \in DOMAIN x : x[i] # Sep
      /\ \A i \in DOMAIN y : y[i] # Sep
      /\ a = b /\ x = y => m = n
  BY <1>1 DEF Separable
<1>3. IdempotencyKey(<<"tenant">>, a, x) = IdempotencyKey(<<"tenant">>, b, y)
  BY <1>1 DEF KeyOf
<1>4. a = b /\ x = y
  BY <1>2, <1>3, KeyTells
<1>5. QED
  BY <1>2, <1>4

LEMMA NextKeepsKeys ==
  ASSUME Separable, ExtractionInv, KeysInv, [Next]_vars
  PROVE  KeysInv'
<1>1. setup \in Setups /\ setup' = setup /\ DOMAIN status = Mails
  BY DEF ExtractionInv, Types, TypeOK, Next, vars, Crash, Work, WriteFails, Take, Walk, Skip, BodyPart,
         GraphPart, Strip, Block, Keep, Open, Write, Emit, Mark, Untouched
<1>2. \A m : KeyOf(m)' = KeyOf(m)
  BY <1>1 DEF KeyOf
<1>3. ASSUME UNCHANGED <<keys, status>> PROVE KeysInv'
  BY <1>2, <1>3 DEF KeysInv
<1>4. ASSUME NEW w \in Workers, Take(w) PROVE KeysInv'
  <2>1. PICK m \in Mails :
          /\ status[m] = "new"
          /\ \/ KeyOf(m) \in keys
             \/ /\ keys' = keys \cup {KeyOf(m)}
                /\ \E d \in {"dropped", "taken"} : status' = [status EXCEPT ![m] = d]
    BY <1>4 DEF Take
  <2>2. KeyOf(m) \notin keys
    BY <1>1, <2>1, KeysApart DEF KeysInv
  <2>3. PICK d \in {"dropped", "taken"} : status' = [status EXCEPT ![m] = d]
    BY <2>1, <2>2
  <2>4. status'[m] = d /\ \A n \in Mails : n # m => status'[n] = status[n]
    BY <1>1, <2>3
  <2>5. keys' \subseteq {KeyOf(n) : n \in {l \in Mails : status'[l] # "new"}}
    BY <2>1, <2>2, <2>3, <2>4 DEF KeysInv
  <2>6. QED
    BY <1>2, <2>3, <2>4, <2>5 DEF KeysInv
<1>5. ASSUME NEW m, NEW d \in {"dead", "emitted"}, keys' = keys,
             status' = [status EXCEPT ![m] = d]
      PROVE  KeysInv'
  <2>1. \A n \in Mails : status'[n] \in {status[n], d}
    BY <1>1, <1>5
  <2>2. QED
    BY <1>2, <1>5, <2>1 DEF KeysInv
<1>6. ASSUME NEW w \in Workers, WriteFails(w) PROVE KeysInv'
  <2>1. PICK m : status' = [status EXCEPT ![m] = "new"] /\ keys' = keys \ {KeyOf(m)}
    BY <1>6 DEF WriteFails
  <2>2. \A n \in Mails : n # m => status'[n] = status[n]
    BY <1>1, <2>1
  <2>3. \A n \in Mails : status'[n] \in {status[n], "new"}
    BY <1>1, <2>1
  <2>4. keys' \subseteq {KeyOf(n) : n \in {l \in Mails : status'[l] # "new"}}
    BY <2>1, <2>2 DEF KeysInv
  <2>5. QED
    BY <1>2, <2>3, <2>4 DEF KeysInv
<1>7. ASSUME Crash PROVE KeysInv'
  <2>1. keys' = keys \ {KeyOf(m) : m \in {n \in Mails : status[n] = "taken"}}
        /\ \A m \in Mails : status'[m] = IF status[m] = "taken" THEN "new" ELSE status[m]
    BY <1>7 DEF Crash
  <2>2. keys' \subseteq {KeyOf(n) : n \in {l \in Mails : status'[l] # "new"}}
    BY <2>1 DEF KeysInv
  <2>3. QED
    BY <1>2, <2>1, <2>2 DEF KeysInv
<1>8. ASSUME NEW w \in Workers, Work(w) PROVE KeysInv'
  <2>1. CASE Take(w)
    BY <1>4, <2>1
  <2>2. CASE Block(w)
    BY <1>5, <2>2 DEF Block
  <2>3. CASE Mark(w)
    BY <1>5, <2>3 DEF Mark
  <2>4. CASE Skip(w) \/ BodyPart(w) \/ GraphPart(w) \/ Strip(w) \/ Keep(w) \/ Open(w) \/ Write(w) \/ Emit(w)
    BY <1>3, <2>4 DEF Skip, BodyPart, GraphPart, Strip, Keep, Open, Write, Emit, Untouched
  <2>5. QED
    BY <1>8, <2>1, <2>2, <2>3, <2>4 DEF Work, Walk
<1>9. QED
  BY <1>3, <1>6, <1>7, <1>8 DEF Next, vars

\* Where mailbox and id name a mail, and no id has the separator of idempotency_key() in
\* it, no mail is taken for another; and no text of a mail that has one goes missing, nor a
\* marked part, but for attached mails and what Graph has no hasAttachments for
\* (core/identity.py, extract/mime.py, adapters/graph/provider.py).
THEOREM NothingGoesMissing == Separable => (Spec => []NothingVanishes)
<1> SUFFICES ASSUME Separable PROVE Spec => []NothingVanishes
  OBVIOUS
<1>1. Init => KeysInv
  BY DEF Init, KeysInv
<1>2. ExtractionInv /\ KeysInv /\ [Next]_vars => KeysInv'
  BY NextKeepsKeys
<1>3. ExtractionInv /\ KeysInv => NothingVanishes
  <2> SUFFICES ASSUME ExtractionInv, KeysInv PROVE NothingVanishes
    OBVIOUS
  <2>1. ASSUME NEW e \in events, NEW i \in DOMAIN PartsOf(e.mail)
        PROVE  LET p == PartsOf(e.mail)[i] IN
               /\ Seen(e.mail, p) /\ (p.named \/ p.cid \/ p.disp = "attachment") =>
                    i \in e.kept \cup e.stripped
               /\ PlainBody(p) /\ p.disp # "attachment" /\ p.content # Empty =>
                    e.text \cup e.html # {}
    <3>1. \A p : p.named \/ p.cid \/ p.disp = "attachment" => Media(p)
      BY DEF Media, IsAttachment, InlineMedia, PlainBody
    <3>2. QED
      BY <2>1, <3>1, EventTells DEF Parted
  <2>2. QED
    BY <2>1 DEF NothingVanishes, KeysInv, Seen
<1>4. QED
  BY <1>1, <1>2, <1>3, Invariance, PTL DEF Spec
=============================================================================
