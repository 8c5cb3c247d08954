----------------------------- MODULE Extraction -----------------------------
(***************************************************************************)
(* From a claimed mail to its event (core/pipeline.py _do_work, extract/,  *)
(* filters/, stores/local_blob.py): workers screen mails, walk their parts,*)
(* and write attachments to a blob store they share, under the hash of     *)
(* what is in them.  A write takes time, is not atomic, and can fail.      *)
(*                                                                         *)
(* Retries and leases are Pipeline's; here a mail that failed is taken     *)
(* again.                                                                  *)
(***************************************************************************)
EXTENDS Screening

CONSTANTS
  Mails,
  Workers,
  Contents,     \* what parts hold; Empty is one
  Setups,       \* see SetupOK
  MaxFaults     \* bound on failed writes and crashes together

\* What is configured, and what is in the mailboxes: the extractor (MIME without or with
\* an attachment policy, or Graph), the rule of each class, the filter chain, on_filtered;
\* and each mail's mailbox, provider id, headers, parts, and what Graph says of it.
SetupOK(s) ==
  /\ s.mode \in {"legacy", "policy", "graph"}
  /\ s.rules \in [{"real", "inline"} -> SUBSET {"type", "size", "virus"}]
  /\ s.mode = "legacy" => s.rules["real"] = s.rules["inline"]
  /\ s.onFiltered \in {"tag", "drop"}
  /\ DOMAIN s.chain \subseteq Nat \ {0} /\ \A i \in DOMAIN s.chain : s.chain[i].name \in FilterNames
  /\ DOMAIN s.mail = Mails
  /\ \A m \in Mails : /\ s.mail[m].parts \in Seq(Part(Contents))
                      /\ s.mail[m].hasAttachments \in BOOLEAN

ASSUME ExtractionAssumption ==
  /\ Empty \in Contents
  /\ \A s \in Setups : SetupOK(s)
  /\ MaxFaults \in Nat

VARIABLES
  setup,     \* chosen when the pipeline is built and the mail sent; never changes
  keys,      \* dedupe keys that are claimed or done
  status,    \* each mail: "new", "taken", "emitted", "dropped", "dead" or "duplicate"
  job,       \* each worker's extraction
  blobs,     \* LocalBlobStore: the files, "partial" or "whole"
  \* history: no step reads these, but for the bound
  events,    \* what was emitted
  cut,       \* contents of which a write was cut off
  faults

vars == <<setup, keys, status, job, blobs, events, cut, faults>>

NoJob == [pc |-> "idle", mail |-> {}, at |-> 1, text |-> {}, html |-> {},
          kept |-> {}, stripped |-> {}, tagged |-> FALSE]

MailOf(w) == CHOOSE m \in job[w].mail : TRUE
PartsOf(m) == setup.mail[m].parts
Here(w) == PartsOf(MailOf(w))[job[w].at]
KeyOf(m) == IdempotencyKey(<<"tenant">>, setup.mail[m].mailbox, setup.mail[m].id)

Init ==
  /\ setup \in Setups
  /\ keys = {} /\ status = [m \in Mails |-> "new"]
  /\ job = [w \in Workers |-> NoJob]
  /\ blobs = [c \in Contents |-> "none"]
  /\ events = {} /\ cut = {} /\ faults = 0

----------------------------------------------------------------------------
(* The envelope and the filters.                                           *)

\* Claimed, screened, and if it is dropped marked at once.
Take(w) ==
  /\ job[w] = NoJob
  /\ \E m \in Mails :
       LET verdict == Verdict(setup.chain, Envelope(setup.mail[m].headers)) IN
       /\ status[m] = "new"
       /\ IF KeyOf(m) \in keys
            THEN status' = [status EXCEPT ![m] = "duplicate"] /\ UNCHANGED <<keys, job>>
          ELSE IF verdict = "drop" /\ setup.onFiltered = "drop"
            THEN /\ status' = [status EXCEPT ![m] = "dropped"]
                 /\ keys' = keys \cup {KeyOf(m)}
                 /\ UNCHANGED job
          ELSE /\ status' = [status EXCEPT ![m] = "taken"]
               /\ keys' = keys \cup {KeyOf(m)}
               /\ job' = [job EXCEPT ![w] = [NoJob EXCEPT !.pc = "walk", !.mail = {m},
                                                          !.tagged = verdict = "drop"]]
  /\ UNCHANGED <<setup, blobs, events, cut, faults>>

----------------------------------------------------------------------------
(* The parts.                                                              *)

Rule(p) == setup.rules[PolicyClass(p)]
Walking(w) == job[w].pc = "walk" /\ job[w].at <= Len(PartsOf(MailOf(w)))
Advance(w, changes) == job' = [job EXCEPT ![w] = [changes EXCEPT !.at = @ + 1, !.pc = "walk"]]
Untouched == UNCHANGED <<setup, keys, status, events>>

\* Multiparts and attached mails are neither checked, stored nor mentioned.
Skip(w) ==
  /\ setup.mode # "graph" /\ Walking(w) /\ Here(w).type = "container"
  /\ Advance(w, job[w])
  /\ UNCHANGED blobs /\ UNCHANGED <<cut, faults>> /\ Untouched

\* The first text of each kind that has content is the body; a later one is passed over,
\* and so is what is neither text nor marked as an attachment or as inline.
BodyPart(w) ==
  LET p == Here(w)  j == job[w]  filled == {p.content} \ {Empty} IN
  /\ setup.mode # "graph" /\ Walking(w) /\ ~Media(p) /\ p.type # "container"
  /\ Advance(w, IF p.type = "plain" /\ j.text = {} THEN [j EXCEPT !.text = filled]
              ELSE IF p.type = "html" /\ j.html = {} THEN [j EXCEPT !.html = filled]
              ELSE j)
  /\ UNCHANGED blobs /\ UNCHANGED <<cut, faults>> /\ Untouched

\* Graph attachments are fetched where hasAttachments says so, which inline media alone do
\* not make it say.
Attached(m) == setup.mail[m].hasAttachments

\* Graph JSON: one body, and metadata of the attachments, which no rule looks at.
GraphPart(w) ==
  LET p == Here(w)  j == job[w] IN
  /\ setup.mode = "graph" /\ Walking(w)
  /\ Advance(w, CASE Media(p) /\ Attached(MailOf(w)) -> [j EXCEPT !.kept = @ \cup {j.at}]
                [] PlainBody(p) /\ ~Media(p) ->
                      [j EXCEPT !.text = @ \cup ({p.content} \ {Empty})]
                [] OTHER -> j)
  /\ UNCHANGED blobs /\ UNCHANGED <<cut, faults>> /\ Untouched

\* Policy mode: what a rule forbids is stripped, and nothing of it stored.
Strip(w) ==
  LET p == Here(w) IN
  /\ setup.mode = "policy" /\ Walking(w) /\ Checked(p) /\ ~LetsThrough(Rule(p), p)
  /\ Advance(w, [job[w] EXCEPT !.stripped = @ \cup {job[w].at}])
  /\ UNCHANGED blobs /\ UNCHANGED <<cut, faults>> /\ Untouched

BlockRealOnly(w) ==
  LET p == Here(w) IN
  /\ setup.mode = "legacy" /\ Walking(w) /\ Checked(p) /\ ~LetsThrough(Rule(p), p)
  /\ IF IsAttachment(p)
       THEN /\ status' = [status EXCEPT ![MailOf(w)] = "dead"]
            /\ job' = [job EXCEPT ![w] = NoJob]
       ELSE Advance(w, job[w]) /\ UNCHANGED status
  /\ UNCHANGED <<setup, keys, blobs, events, cut, faults>>

\* Legacy mode: PermanentError, and the whole mail is dead-lettered; what earlier parts
\* have stored stays.
Block(w) ==
  LET p == Here(w) IN
  /\ setup.mode = "legacy" /\ Walking(w) /\ Checked(p) /\ ~LetsThrough(Rule(p), p)
  /\ status' = [status EXCEPT ![MailOf(w)] = "dead"]
  /\ job' = [job EXCEPT ![w] = NoJob]
  /\ UNCHANGED <<setup, keys, blobs, events, cut, faults>>

\* put_stream() looks whether the file is there; nothing is stored of an empty part.
Keep(w) ==
  LET p == Here(w)  j == job[w] IN
  /\ setup.mode # "graph" /\ Walking(w) /\ Checked(p) /\ LetsThrough(Rule(p), p)
  /\ IF p.content = Empty \/ blobs[p.content] # "none"
       THEN Advance(w, [j EXCEPT !.kept = @ \cup {j.at}])
       ELSE job' = [job EXCEPT ![w].pc = "open"]
  /\ UNCHANGED blobs /\ UNCHANGED <<cut, faults>> /\ Untouched

Writers(c) == {w \in Workers : job[w].pc = "write" /\ Here(w).content = c}

Open(w) ==
  /\ job[w].pc = "open"
  /\ blobs' = [blobs EXCEPT ![Here(w).content] = "partial"]
  /\ job' = [job EXCEPT ![w].pc = "write"]
  /\ UNCHANGED <<cut, faults>> /\ Untouched

\* The last chunk is written.  Another worker may have truncated the file since, and then
\* writes the same bytes.
Write(w) ==
  LET c == Here(w).content IN
  /\ job[w].pc = "write"
  /\ blobs' = IF Writers(c) = {w} THEN [blobs EXCEPT ![c] = "whole"] ELSE blobs
  /\ Advance(w, [job[w] EXCEPT !.kept = @ \cup {job[w].at}])
  /\ UNCHANGED <<cut, faults>> /\ Untouched

WriteFailsSilently(w) ==
  /\ job[w].pc = "write" /\ faults < MaxFaults
  /\ faults' = faults + 1
  /\ Advance(w, [job[w] EXCEPT !.kept = @ \cup {job[w].at}])
  /\ UNCHANGED <<blobs, cut>> /\ Untouched

\* The disk is full: not a MailflowError, so transient.  The file stays, the mail is
\* released.
WriteFails(w) ==
  LET m == MailOf(w) IN
  /\ job[w].pc = "write" /\ faults < MaxFaults
  /\ faults' = faults + 1
  /\ cut' = cut \cup {Here(w).content}
  /\ status' = [status EXCEPT ![m] = "new"] /\ keys' = keys \ {KeyOf(m)}
  /\ job' = [job EXCEPT ![w] = NoJob]
  /\ UNCHANGED <<setup, blobs, events>>

----------------------------------------------------------------------------
(* The event, and the mark.                                                *)

Emit(w) ==
  LET j == job[w] IN
  /\ j.pc = "walk" /\ ~Walking(w)
  /\ events' = events \cup {[mail |-> MailOf(w), text |-> j.text, html |-> j.html,
                             kept |-> j.kept, stripped |-> j.stripped, tagged |-> j.tagged]}
  /\ job' = [job EXCEPT ![w].pc = "mark"]
  /\ UNCHANGED <<setup, keys, status, blobs, cut, faults>>

Mark(w) ==
  /\ job[w].pc = "mark"
  /\ status' = [status EXCEPT ![MailOf(w)] = "emitted"]
  /\ job' = [job EXCEPT ![w] = NoJob]
  /\ UNCHANGED <<setup, keys, blobs, events, cut, faults>>

\* The process dies; leases elapse, files stay as they are.
Crash ==
  LET taken == {m \in Mails : status[m] = "taken"} IN
  /\ faults < MaxFaults /\ taken # {}
  /\ faults' = faults + 1
  /\ cut' = cut \cup {c \in Contents : Writers(c) # {}}
  /\ status' = [m \in Mails |-> IF m \in taken THEN "new" ELSE status[m]]
  /\ keys' = keys \ {KeyOf(m) : m \in taken}
  /\ job' = [w \in Workers |-> NoJob]
  /\ UNCHANGED <<setup, blobs, events>>

----------------------------------------------------------------------------
Walk(w) == Skip(w) \/ BodyPart(w) \/ GraphPart(w) \/ Strip(w) \/ Block(w) \/ Keep(w)
Work(w) == Take(w) \/ Walk(w) \/ Open(w) \/ Write(w) \/ Emit(w) \/ Mark(w)

Next == Crash \/ \E w \in Workers : Work(w) \/ WriteFails(w)

Spec == Init /\ [][Next]_vars

----------------------------------------------------------------------------
(* Properties.                                                             *)

\* Every variable has its type.
TypeOK ==
  /\ status \in [Mails -> {"new", "taken", "emitted", "dropped", "dead", "duplicate"}]
  /\ \A w \in Workers : job[w].pc \in {"idle", "walk", "open", "write", "mark"}
  /\ blobs \in [Contents -> {"none", "partial", "whole"}]
  /\ cut \subseteq Contents /\ faults \in Nat

\* Every file that an event refers to is whole, or somebody is still writing it.  The one
\* exception is the file of a write that was cut off: it stays as it is, and a retry, or
\* any mail with the same attachment, takes it for stored (local_blob.py 22-26).
RefsWhole ==
  /\ TypeOK
  /\ \A e \in events : \A i \in e.kept :
       LET c == PartsOf(e.mail)[i].content IN
       setup.mode # "graph" /\ c # Empty /\ c \notin cut => blobs[c] = "whole" \/ Writers(c) # {}

\* Checks fail closed (streaming.py 5-10, mime.py 322-323) on leaf parts: nothing is in the
\* blob store that some part was not let through with; without a policy one forbidden
\* part, inline ones too, keeps the whole mail out, and with one no mail is lost to it.
\* (An attached mail bypasses the checks and is not stored: mime.py 224-225.)
FailsClosed ==
  LET forbidden(m) == {i \in DOMAIN PartsOf(m) :
        LET p == PartsOf(m)[i] IN
        Checked(p) /\ p.flaws \cap ({"unreadable"} \cup Rule(p)) # {}} IN
  /\ \A c \in Contents : blobs[c] # "none" =>
       \E m \in Mails : \E i \in DOMAIN PartsOf(m) \ forbidden(m) :
         Checked(PartsOf(m)[i]) /\ PartsOf(m)[i].content = c
  /\ \A m \in Mails : status[m] = "dead" => setup.mode = "legacy" /\ forbidden(m) # {}
  /\ \A e \in events : setup.mode = "legacy" => forbidden(e.mail) = {}
  /\ \A e \in events : setup.mode # "graph" => e.kept \cap forbidden(e.mail) = {}

\* Nothing a sender has marked goes missing, but for two holes: a leaf part that has a
\* name, a Content-ID or is an attachment by disposition is in the event, kept or stripped;
\* a mail that has text has a body; and no mail is taken for another one, whatever is in
\* its mailbox's name.  The holes: MIME drops an attached mail as such, and goes on with the
\* parts in it (mime.py 224-225); Graph media are not fetched unless hasAttachments is true
\* (graph/provider.py 143-149).  (A second text, and other data without a mark, are passed
\* over, and nobody is told.)
NothingVanishes ==
  /\ \A e \in events : \A i \in DOMAIN PartsOf(e.mail) :
       LET p == PartsOf(e.mail)[i]
           seen == IF setup.mode = "graph" THEN setup.mail[e.mail].hasAttachments
                   ELSE p.type # "container" IN
       /\ seen /\ (p.named \/ p.cid \/ p.disp = "attachment") => i \in e.kept \cup e.stripped
       /\ PlainBody(p) /\ p.disp # "attachment" /\ p.content # Empty => e.text \cup e.html # {}
  /\ \A m \in Mails : status[m] # "duplicate"

\* A mail that some filter of the chain drops, of whatever kind, is not delivered as if
\* nothing had matched, unless a whitelist before that filter keeps it (chain.py 1): to be
\* allowed by only_domain, only_sender or a function is no pass for the next filter.
BlockedStaysOut ==
  \A e \in events :
    LET env == Envelope(setup.mail[e.mail].headers)
        whitelisted(i) == \E k \in 1..(i - 1) :
          setup.chain[k].name = "whitelist" /\ env.domain \in setup.chain[k].set
    IN (\E i \in DOMAIN setup.chain : Drops(setup.chain[i], env) /\ ~whitelisted(i)) => e.tagged
=============================================================================
