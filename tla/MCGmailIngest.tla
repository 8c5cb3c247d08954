---------------------------- MODULE MCGmailIngest ----------------------------
(* Small instances of GmailIngest: values for its constants.               *)
EXTENDS GmailIngest

CONSTANTS c1, sw

OneCallback == {c1}
Sweeper     == {sw}
FirstMail   == {1}
Either      == BOOLEAN
============================================================================
