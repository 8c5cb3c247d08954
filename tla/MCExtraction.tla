---------------------------- MODULE MCExtraction ----------------------------
(* Small instances of Extraction: values for its constants.                *)
EXTENDS Extraction

CONSTANTS w1, w2

TwoWorkers == {w1, w2}
TwoMails == {1, 2}
TwoContents == {"x", Empty}
Consumer == {"personal"}

----------------------------------------------------------------------------
(* Headers, parts and mails.  The second mail is the same in every setup:  *)
(* it shares its attachment's content with the first.                      *)

Plain ==
  [sender |-> "ann", domain |-> "work", to |-> {"me"}, cc |-> {"him"}, subject |-> "hello",
   list |-> FALSE, auto |-> "no"]

Body == [type |-> "plain", disp |-> "none", named |-> FALSE, cid |-> FALSE,
         content |-> "x", flaws |-> {}]
File == [Body EXCEPT !.type = "other", !.disp = "attachment", !.named = TRUE]

Whole(parts, headers, flag, mailbox, id) ==
  [parts |-> parts, headers |-> headers, hasAttachments |-> flag, mailbox |-> mailbox, id |-> id]

Box(parts, headers, flag) ==
  [m \in TwoMails |->
     IF m = 1 THEN Whole(parts, headers, flag, <<"a", "b">>, <<"c">>)
     ELSE Whole(<<Body, File>>, Plain, TRUE, <<"a">>, <<"b", "c">>)]

Built(mode, real, inline, chain, onFiltered, mail) ==
  [mode |-> mode, rules |-> [class \in {"real", "inline"} |-> IF class = "real" THEN real ELSE inline],
   chain |-> chain, onFiltered |-> onFiltered, mail |-> mail]

All == {"type", "size", "virus"}

----------------------------------------------------------------------------
(* Every part there is, with at most one flaw, after a body of its own.    *)

SomeParts ==
  {p \in Part(TwoContents) :
     /\ Cardinality(p.flaws) <= 1
     /\ p.content = Empty => p.flaws = {}}

PartSetups ==
  {Built(rule[1], rule[2], rule[3], <<>>, "tag", Box(<<Body, p>>, Plain, rule[4])) :
     p \in SomeParts,
     rule \in {<<"legacy", All, All, TRUE>>, <<"policy", All, {}, TRUE>>,
               <<"policy", {}, All, TRUE>>, <<"graph", {}, {}, TRUE>>, <<"graph", {}, {}, FALSE>>}}

----------------------------------------------------------------------------
(* Every chain of two filters, each of which matches some mail, for        *)
(* senders of all kinds and each signal of the headers.                    *)

Filter(name, set) == [name |-> name, set |-> set]

Filters ==
  {Filter("blacklist", {"work"}), Filter("internal_domain", {"work"}),
   Filter("only_domain", {"work"}), Filter("only_domain", {}), Filter("only_sender", {"ann"}),
   Filter("block_sender", {"bob"}), Filter("subject", {"offer"}), Filter("to", {"you"}),
   Filter("cc", {"you"}), Filter("list_mail", {}), Filter("no_personal", {}),
   Filter("custom", {"ann"}), Filter("whitelist", {"work"})}

Signals ==
  {Plain, [Plain EXCEPT !.to = {"me", "you"}], [Plain EXCEPT !.cc = {"you"}],
   [Plain EXCEPT !.subject = "offer"], [Plain EXCEPT !.list = TRUE], [Plain EXCEPT !.auto = "yes"]}

ChainSetups ==
  {Built("legacy", {}, {}, <<f, g>>, onFiltered,
         Box(<<Body>>, [h EXCEPT !.sender = s, !.domain = d], TRUE)) :
     f \in Filters, g \in Filters, onFiltered \in {"tag", "drop"},
     s \in {"ann", "bob"}, d \in {"work", "personal"}, h \in Signals}

BothSetups == PartSetups \cup ChainSetups
=============================================================================
