----------------------------- MODULE MCPipeline -----------------------------
(* Small instances of Pipeline: values for its constants.                  *)
EXTENDS Pipeline, TLC

CONSTANTS w1, w2

OneWorker  == {w1}
TwoWorkers == {w1, w2}
Symmetry   == Permutations(TwoWorkers)

\* Messages within the limit, and a last message that is oversized.
Sizes2        == <<5, 5>>
Sizes3        == <<5, 5, 5>>
LastOversized == <<5, 9>>

NoFaults   == {}
Nowhere    == {}
AllFaults  == FaultKinds
Everywhere == RaisePoints
============================================================================
