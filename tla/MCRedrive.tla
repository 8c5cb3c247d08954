------------------------------ MODULE MCRedrive ------------------------------
(* Small instances of Redrive: values for its constants.                   *)
EXTENDS Redrive

CONSTANTS o1, o2

OneOperator  == {o1}
TwoOperators == {o1, o2}
FirstOne     == {1}
============================================================================
