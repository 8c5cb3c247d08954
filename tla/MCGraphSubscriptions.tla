------------------------ MODULE MCGraphSubscriptions ------------------------
(* Small instances of GraphSubscriptions: values for its constants.        *)
EXTENDS GraphSubscriptions

CONSTANTS inbox, archive

TwoFolders == <<inbox, archive>>
============================================================================
