---------------------------- MODULE DedupeStore ----------------------------
(***************************************************************************)
(* One row of the dedupe store (the `claims` table): what try_claim,       *)
(* record_attempt, mark_done, release and purge_expired do to it.  The     *)
(* in-memory store and the two SQL stores share the row's life cycle; they *)
(* differ in one guard, the lease (HasLease).                              *)
(*                                                                         *)
(* Wall-clock time is abstracted to one bit of the row, `fresh`: TRUE from *)
(* the stamp of the last claim until lease_seconds have passed since.      *)
(***************************************************************************)
EXTENDS Naturals

CONSTANT HasLease     \* TRUE: sqlite, postgres.  FALSE: the in-memory store.

ASSUME LeaseAssumption == HasLease \in BOOLEAN

Row == [claimed: BOOLEAN, done: BOOLEAN, attempts: Nat, fresh: BOOLEAN]

\* An absent row and an untouched one behave alike in every operation below.
NoRow == [claimed |-> FALSE, done |-> FALSE, attempts |-> 0, fresh |-> FALSE]

----------------------------------------------------------------------------
(* Single-edit slips in the operations, each a plausible bug.              *)

ClaimableIgnoringHolder(row) == ~row.done

ReleasedByDeleting(row) == IF row.done THEN row ELSE NoRow

MarkedReleasedOnly(row) == [row EXCEPT !.claimed = FALSE]

----------------------------------------------------------------------------
\* memory: a claim is exclusive until released or done.
ClaimableUntimed(row) == ~row.done /\ ~row.claimed

\* sqlite, postgres: a claim whose lease has run out is up for grabs again.
ClaimableLeased(row) == ~row.done /\ (~row.claimed \/ ~row.fresh)

Claimable(row) == IF HasLease THEN ClaimableLeased(row) ELSE ClaimableUntimed(row)

Claimed(row) == [row EXCEPT !.claimed = TRUE, !.fresh = TRUE]

Attempted(row) == [row EXCEPT !.attempts = @ + 1]

\* `claimed` is left as it is: the row of a finished message stays claimed.
MarkedDone(row) == [row EXCEPT !.done = TRUE]

\* Anyone may release: the row does not say who holds it.  `attempts` is kept.
Released(row) == IF row.done THEN row ELSE [row EXCEPT !.claimed = FALSE]

\* purge_expired deletes a done row whose ttl has passed.
Purgeable(row) == row.done
Purged(row) == NoRow

============================================================================
