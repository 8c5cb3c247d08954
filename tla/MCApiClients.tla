---------------------------- MODULE MCApiClients ----------------------------
(* Small instances of ApiClients: values for its constants.                *)
EXTENDS ApiClients

CONSTANTS t1, t2

TwoThreads == {t1, t2}

With(kind, fetchers, strict, inFlight) ==
  [kind |-> kind, fetchers |-> fetchers, strict |-> strict, inFlight |-> inFlight]

FiveSetups ==
  {With("gmail", {}, TRUE, 2), With("gmail", {}, FALSE, 1), With("gmail", {t2}, TRUE, 1),
   With("delegated", {}, TRUE, 2), With("apponly", {}, FALSE, 2)}
=============================================================================
