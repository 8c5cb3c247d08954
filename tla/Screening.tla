----------------------------- MODULE Screening -----------------------------
(***************************************************************************)
(* What is decided about a mail from its data alone: its identity, the     *)
(* signals of its headers, the verdict of the filter chain, the role of    *)
(* each MIME part, and whether a rule lets an attachment through.          *)
(*                                                                         *)
(* Addresses, domains, subjects and contents are members of small sets; a  *)
(* pattern is the set it matches.  Left out: decoding, unfolding, dates,   *)
(* HTML to text, file names but for their presence.                        *)
(***************************************************************************)
EXTENDS Naturals, Sequences, FiniteSetsExt

CONSTANTS Personal    \* the consumer domains of no_personal

----------------------------------------------------------------------------
(* Identity.                                                               *)

Sep == "|"

\* idempotency_key(): tenant, mailbox and provider id, joined.
KeyUnseparated(tenant, mailbox, id) == tenant \o mailbox \o id

IdempotencyKey(tenant, mailbox, id) == tenant \o <<Sep>> \o mailbox \o <<Sep>> \o id

----------------------------------------------------------------------------
(* The envelope, of MIME headers and of Graph JSON alike.                  *)

\* derive_auto_submitted(): present, and not the literal "no".
AutoSubmitted(header) == header \notin {"absent", "no"}

\* Headers carry sender, domain, to, cc, subject, list and auto.
Envelope(headers) ==
  [sender |-> headers.sender, domain |-> headers.domain, to |-> headers.to, cc |-> headers.cc,
   subject |-> headers.subject, list |-> headers.list, auto |-> AutoSubmitted(headers.auto)]

----------------------------------------------------------------------------
(* Filters: a name and what it is configured with.                         *)

FilterNames == {"whitelist", "blacklist", "internal_domain", "only_domain", "only_sender",
                "block_sender", "subject", "to", "cc", "list_mail", "no_personal", "custom"}

\* An empty configuration drops nothing, but no_personal has a default; list_mail has no
\* configuration, and the set of custom is the senders its function is true of.
Drops(f, env) ==
  CASE f.name = "whitelist" -> FALSE
    [] f.name \in {"blacklist", "internal_domain"} -> env.domain \in f.set
    [] f.name = "only_domain" -> f.set # {} /\ env.domain \notin f.set
    [] f.name = "only_sender" -> f.set # {} /\ env.sender \notin f.set
    [] f.name = "block_sender" -> env.sender \in f.set
    [] f.name = "subject" -> env.subject \in f.set
    [] f.name = "to" -> env.to \cap f.set # {}
    [] f.name = "cc" -> env.cc \cap f.set # {}
    [] f.name = "list_mail" -> env.list \/ env.auto
    [] f.name = "no_personal" -> env.domain \in (IF f.set = {} THEN Personal ELSE f.set)
    [] f.name = "custom" -> env.sender \notin f.set

EvaluateOnlyKeeping(f, env) ==
  CASE Drops(f, env) -> "drop"
    [] f.name \in {"whitelist", "only_domain"} /\ env.domain \in f.set -> "keep"
    [] OTHER -> "uncertain"

\* only_domain, only_sender and custom let pass, they do not keep.
Evaluate(f, env) ==
  CASE Drops(f, env) -> "drop"
    [] f.name = "whitelist" /\ env.domain \in f.set -> "keep"
    [] OTHER -> "uncertain"

\* FilterChain.run(): the first that keeps or drops.
Verdict(chain, env) ==
  LET deciding == {i \in DOMAIN chain : Evaluate(chain[i], env) # "uncertain"}
  IN IF deciding = {} THEN "uncertain" ELSE Evaluate(chain[Min(deciding)], env)

----------------------------------------------------------------------------
(* The parts of a MIME message.                                            *)

Empty == "empty"    \* the content of a part without a byte

\* type, disposition, has a file name, has a Content-ID; what it holds, and what is wrong
\* with that.  A container is a multipart or an attached mail (message/rfc822): what is in
\* it follows as parts of its own, as in msg.walk().
Part(contents) ==
  [type: {"plain", "html", "other", "container"}, disp: {"none", "inline", "attachment"},
   named: BOOLEAN, cid: BOOLEAN, content: contents,
   flaws: SUBSET {"type", "size", "virus", "unreadable"}]

PlainBody(p) == p.type \in {"plain", "html"} /\ ~p.named /\ ~p.cid
AttachmentByDisposition(p) == p.disp = "attachment"

IsAttachment(p) == p.disp = "attachment" \/ (p.named /\ p.disp # "inline")

InlineMedia(p) == p.cid \/ (p.disp = "inline" /\ ~PlainBody(p))
Media(p) == IsAttachment(p) \/ InlineMedia(p)

\* The media that allowlist, cap and scanner see: is_multipart() passes the others over.
Checked(p) == Media(p) /\ p.type # "container"

\* The class whose rule a policy applies, which is not the is_inline of the event.
PolicyClass(p) == IF InlineMedia(p) /\ p.disp # "attachment" THEN "inline" ELSE "real"

\* Allowlist, cap and scanner, each of which a rule may have; what cannot be decoded never
\* passes.
LetsThrough(rule, p) == p.flaws \cap (rule \cup {"unreadable"}) = {}
=============================================================================
