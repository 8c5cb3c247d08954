----------------------------- MODULE CursorStore -----------------------------
(***************************************************************************)
(* The cursor store of one (tenant, stream): what commit_if_ahead does when *)
(* several threads, in several processes, call it at once.                  *)
(*                                                                          *)
(*   postgres  one conditional upsert, serialised by the row's lock         *)
(*   sqlite    SELECT, compare, upsert, under a lock of the store object:   *)
(*             each process opens its own, so it orders only its threads    *)
(*   memory    get, compare, set, with no lock                              *)
(*                                                                          *)
(* Pipeline takes the call as one step; this module says when it is one.    *)
(* Its names are its own, so that it can be extended beside another store.  *)
(***************************************************************************)
EXTENDS Naturals

CONSTANTS
  Backends,   \* the stores to consider: a deployment configures one of them
  Threads,    \* callers
  ProcessOf,  \* the process each thread runs in
  MaxOrder    \* cursors have orders 1..MaxOrder; 0 stands for no row

Orders == 1 .. MaxOrder

ASSUME CursorStoreAssumption ==
  /\ Backends \subseteq {"postgres", "sqlite", "memory"}
  /\ ProcessOf \in [Threads -> Threads]   \* a process is named by one of its threads
  /\ MaxOrder \in Nat

VARIABLES
  backend, \* the store this deployment configured
  order,   \* the stored row's order_n
  at,      \* where each call stands
  offer,   \* the order each call wants to commit
  seen,    \* what the call's SELECT returned
  answer   \* what the last call returned

cursorVars == <<backend, order, at, offer, seen, answer>>

CursorInit ==
  /\ backend \in Backends
  /\ order = 0
  /\ at = [t \in Threads |-> "idle"]
  /\ offer = [t \in Threads |-> 0]
  /\ seen = [t \in Threads |-> 0]
  /\ answer = [t \in Threads |-> FALSE]

InCriticalSection(t) == at[t] \in {"select", "upsert"}

\* Single-edit slips.
LockFreeIgnored(t) == TRUE
StaleAccepting(new, old) == TRUE

\* `with self._lock`: free unless another thread of the process is inside.
LockFree(t) ==
  backend = "sqlite" =>
    \A u \in Threads : ProcessOf[u] = ProcessOf[t] => ~InCriticalSection(u)

\* Forward only: a stale or an equal order is rejected.
Ahead(new, old) == new > old

Call(t) ==
  /\ at[t] \in {"idle", "returned"}
  /\ \E n \in Orders : offer' = [offer EXCEPT ![t] = n]
  /\ at' = [at EXCEPT ![t] = IF backend = "postgres" THEN "statement" ELSE "lock"]
  /\ UNCHANGED <<backend, order, seen, answer>>

Answer(t, b) ==
  /\ answer' = [answer EXCEPT ![t] = b]
  /\ at' = [at EXCEPT ![t] = "returned"]

\* INSERT .. ON CONFLICT DO UPDATE .. WHERE cursors.order_n < excluded.order_n
Statement(t) ==
  /\ at[t] = "statement"
  /\ order' = IF Ahead(offer[t], order) THEN offer[t] ELSE order
  /\ Answer(t, Ahead(offer[t], order))
  /\ UNCHANGED <<backend, offer, seen>>

Lock(t) ==
  /\ at[t] = "lock"
  /\ LockFree(t)
  /\ at' = [at EXCEPT ![t] = "select"]
  /\ UNCHANGED <<backend, order, offer, seen, answer>>

Select(t) ==
  /\ at[t] = "select"
  /\ seen' = [seen EXCEPT ![t] = order]
  /\ at' = [at EXCEPT ![t] = "upsert"]
  /\ UNCHANGED <<backend, order, offer, answer>>

Reject(t) ==
  /\ at[t] = "upsert"
  /\ ~Ahead(offer[t], seen[t])
  /\ Answer(t, FALSE)
  /\ UNCHANGED <<backend, order, offer, seen>>

\* The upsert overwrites whatever is there by now.
Upsert(t) ==
  /\ at[t] = "upsert"
  /\ Ahead(offer[t], seen[t])
  /\ order' = offer[t]
  /\ Answer(t, TRUE)
  /\ UNCHANGED <<backend, offer, seen>>

CursorNext ==
  \E t \in Threads :
    Call(t) \/ Statement(t) \/ Lock(t) \/ Select(t) \/ Reject(t) \/ Upsert(t)

CursorSpec == CursorInit /\ [][CursorNext]_cursorVars

----------------------------------------------------------------------------
(* Properties.                                                             *)

\* Every variable has its type.
CursorTypeOK ==
  /\ backend \in Backends
  /\ order \in 0 .. MaxOrder
  /\ at \in [Threads -> {"idle", "statement", "lock", "select", "upsert", "returned"}]
  /\ offer \in [Threads -> 0 .. MaxOrder]
  /\ seen \in [Threads -> 0 .. MaxOrder]
  /\ answer \in [Threads -> BOOLEAN]

\* The committed cursor never goes backwards, whatever orders the callers race with.
NeverBackwards == [][order <= order']_cursorVars

\* When a call has returned, accepted or rejected, the cursor is at or past what it
\* offered, and stays there: the caller need not look again.
AnsweredSoundly == \A t \in Threads : at[t] = "returned" => order >= offer[t]

----------------------------------------------------------------------------
(* Why sqlite is safe for the threads of one process: the row cannot change *)
(* between a thread's SELECT and its upsert.                                *)

OneProcess == \A t, u \in Threads : ProcessOf[t] = ProcessOf[u]

\* Each of the stores serialises its calls.
Serialised == Backends \subseteq {"postgres"} \cup (IF OneProcess THEN {"sqlite"} ELSE {})

MutualExclusion ==
  \A t, u \in Threads : t # u => ~(InCriticalSection(t) /\ InCriticalSection(u))

\* A store has one implementation: its calls take the statement or the lock.
UsesStatement ==
  \A t \in Threads :
    at[t] \in {"idle", "returned"} \cup
      (IF backend = "postgres" THEN {"statement"} ELSE {"lock", "select", "upsert"})

CursorInv ==
  /\ CursorTypeOK
  /\ UsesStatement
  /\ MutualExclusion
  /\ \A t \in Threads : at[t] = "upsert" => seen[t] = order
  /\ AnsweredSoundly

============================================================================
