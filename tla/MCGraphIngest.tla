--------------------------- MODULE MCGraphIngest ---------------------------
(* Small instances of GraphIngest: values for its constants.               *)
EXTENDS GraphIngest

CONSTANTS inbox, archive

BothTransports == {"hub", "bus"}
TwoStreams     == {inbox, archive}
Alternating    == [m \in 1 .. 3 |-> IF m = 2 THEN archive ELSE inbox]
LastMail       == {NumMails}
============================================================================
