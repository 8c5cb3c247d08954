----------------------------- MODULE MCDelivery -----------------------------
(* Small instances of Delivery: values for its constants.                  *)
EXTENDS Delivery

CONSTANTS a1, a2, l1, l2, s1, k

TwoApps == {a1, a2}
OneLive == {l1}
TwoLives == {l1, l2}
OneSaver == {s1}
TwoMails == {1, 2}
OneKey == {k}
SameKey == [m \in TwoMails |-> k]
Second == {2}

Call(provider, output, onFiltered, durable, stages, lives, poison) ==
  [provider |-> provider, output |-> output, onFiltered |-> onFiltered,
   durable |-> durable, stages |-> stages, lives |-> lives, poison |-> poison]

NineCalls ==
  {Call("memory", "queue", "tag", FALSE, FALSE, {}, {}),
   Call("memory", "queue", "drop", TRUE, FALSE, {}, {1}),
   Call("memory", "callback", "tag", FALSE, FALSE, {}, {}),
   Call("gmail", "queue", "tag", TRUE, TRUE, TwoLives, {1}),
   Call("gmail", "queue", "tag", FALSE, FALSE, TwoLives, {}),
   Call("gmail", "callback", "tag", TRUE, FALSE, TwoLives, {}),
   Call("servicebus", "callback", "drop", FALSE, FALSE, TwoLives, {}),
   Call("eventhub", "queue", "drop", TRUE, FALSE, TwoLives, {2}),
   Call("gmail", "topic", "tag", TRUE, FALSE, OneLive, {})}
============================================================================
