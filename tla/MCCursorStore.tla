---------------------------- MODULE MCCursorStore ----------------------------
(* Small instances of CursorStore: values for its constants.               *)
EXTENDS CursorStore

CONSTANTS t1, t2, t3

ThreeThreads == {t1, t2, t3}

BothStores == {"postgres", "sqlite"}
OneStore   == [t \in Threads |-> t1]     \* threads of one process
============================================================================
