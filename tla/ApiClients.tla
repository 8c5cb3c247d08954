----------------------------- MODULE ApiClients -----------------------------
(***************************************************************************)
(* The two REST clients and their tokens: GmailClient with                 *)
(* OAuthTokenProvider and FileTokenRotationSink, GraphClient with the      *)
(* delegated or the app-only token provider.  Threads make requests; the   *)
(* access token they share expires or is revoked; to mint another one the  *)
(* token endpoint may hand out a new refresh token, and may revoke the old.*)
(*                                                                         *)
(* The live service and the fetcher of get_email() have a client and a     *)
(* provider each, over one account; only the live one has a rotation sink. *)
(* Left out: what is asked and answered, the lengths of the sleeps, scopes.*)
(***************************************************************************)
EXTENDS Naturals, FiniteSets

CONSTANTS
  Threads,
  Setups,        \* see Setup
  Torn,          \* the content of a file that is truncated and not yet written
  MaxRetries,    \* max_retries
  MaxFaults      \* bound on unavailable answers, expiries and crashes together

Sides == {"live", "fetch"}

\* The provider, the threads that serve get_email(), and whether a new refresh token
\* revokes the one before it; max_in_flight of a client.
Setup == [kind: {"gmail", "delegated", "apponly"}, fetchers: SUBSET Threads,
          strict: BOOLEAN, inFlight: Nat \ {0}]

ASSUME ApiClientsAssumption ==
  /\ Setups \subseteq Setup
  /\ Torn \notin Nat
  /\ MaxRetries \in Nat /\ MaxFaults \in Nat

ASSUME FiniteThreads == IsFiniteSet(Threads)

VARIABLES
  setup,      \* chosen when the process is configured; never changes
  \* the authority
  minted,     \* the number of tokens it has handed out; a token is its number
  accepted,   \* access tokens the API takes
  valid,      \* refresh tokens the token endpoint takes
  \* the process
  up, creds,  \* each side's [access, refresh]; access 0 is none
  stale,      \* sides whose access token looks expired
  slots,      \* each side's semaphore: requests in flight
  req,        \* each thread's request
  file,       \* the sink's file: 0 is none, else the token, or Torn
  \* history: no step reads these, but for the bound
  calls,      \* calls of the transport for each thread's request
  refused,    \* the tokens a thread's request was refused with
  outcome,    \* how each thread's last request ended
  harm,       \* what has befallen the persistence of a rotated token
  faults

authority == <<minted, accepted, valid>>
process   == <<up, creds, stale, slots, req>>
history   == <<calls, refused, outcome, harm>>
vars == <<setup, authority, process, file, history, faults>>

Side(t)  == IF t \in setup.fetchers THEN "fetch" ELSE "live"
Gmail    == setup.kind = "gmail"
MayFail  == faults < MaxFaults
Idle     == [pc |-> "idle", held |-> 0, attempt |-> 0, forced |-> FALSE,
             access |-> 0, before |-> 0, refresh |-> 0]

\* resolve_refresh_token(): what was persisted, or else the configured token, 0.  The
\* delegated provider persists nothing; the fetcher's asks no sink.
Resolved(side) == IF side = "live" THEN file ELSE 0

Fresh == [s \in Sides |-> [access |-> 0, refresh |-> Resolved(s)]]

Init ==
  /\ setup \in Setups
  /\ minted = 0 /\ accepted = {} /\ valid = {0}
  /\ up = TRUE /\ file = 0 /\ creds = Fresh /\ stale = Sides
  /\ slots = [s \in Sides |-> 0] /\ req = [t \in Threads |-> Idle]
  /\ calls = [t \in Threads |-> 0] /\ refused = [t \in Threads |-> {}]
  /\ outcome = [t \in Threads |-> "none"] /\ harm = {} /\ faults = 0

----------------------------------------------------------------------------
(* A request.                                                              *)

At(t, pc) == up /\ req[t].pc = pc
Goto(t, pc) == req' = [req EXCEPT ![t].pc = pc]

\* The loop of _request_inner() starts again.
Again(t, attempt, forced, pc) ==
  req' = [req EXCEPT ![t] = [Idle EXCEPT !.pc = pc, !.attempt = attempt, !.forced = forced]]

EndLeaking(t, how) ==
  /\ req' = [req EXCEPT ![t] = Idle]
  /\ outcome' = [outcome EXCEPT ![t] = how]
  /\ slots' = IF how = "ok" THEN [slots EXCEPT ![Side(t)] = @ - 1] ELSE slots

\* The request returns or raises; the slot is freed in the `finally`.
End(t, how) ==
  /\ req' = [req EXCEPT ![t] = Idle]
  /\ outcome' = [outcome EXCEPT ![t] = how]
  /\ slots' = [slots EXCEPT ![Side(t)] = @ - 1]

Begin(t) ==
  /\ At(t, "idle") /\ (Gmail => slots[Side(t)] < setup.inFlight)
  /\ slots' = [slots EXCEPT ![Side(t)] = @ + 1]
  /\ Goto(t, "token")
  /\ calls' = [calls EXCEPT ![t] = 0] /\ refused' = [refused EXCEPT ![t] = {}]
  /\ outcome' = [outcome EXCEPT ![t] = "none"]
  /\ UNCHANGED <<setup, authority, up, creds, stale, file, harm, faults>>

\* The semaphore is not waited for.
Shed(t) ==
  /\ At(t, "idle") /\ Gmail /\ slots[Side(t)] >= setup.inFlight
  /\ outcome' = [outcome EXCEPT ![t] = "error"]
  /\ UNCHANGED <<setup, authority, process, file, calls, refused, harm, faults>>

----------------------------------------------------------------------------
(* get_token().  No lock: threads of one side read and write its           *)
(* credentials as they come.                                               *)

Cached(t) == creds[Side(t)].access # 0 /\ Side(t) \notin stale

UseToken(t) ==
  /\ At(t, "token") /\ Cached(t)
  /\ req' = [req EXCEPT ![t].pc = "call", ![t].held = creds[Side(t)].access]
  /\ UNCHANGED <<setup, authority, up, creds, stale, slots, file, history, faults>>

NeedToken(t) ==
  /\ At(t, "token") /\ ~Cached(t)
  /\ Goto(t, "post")
  /\ UNCHANGED <<setup, authority, up, creds, stale, slots, file, history, faults>>

Rotating == {t \in Threads : req[t].pc \in {"store", "compare", "persist", "write"}}

\* The token endpoint answers: an access token, and with it perhaps a new refresh token.
\* The app-only grant has no refresh token.
Post(t) ==
  LET old == creds[Side(t)].refresh IN
  /\ At(t, "post") /\ (old \in valid \/ setup.kind = "apponly")
  /\ minted' = minted + 1 /\ accepted' = accepted \cup {minted + 1}
  /\ \E rotates \in {FALSE, setup.kind # "apponly"} :
       /\ req' = [req EXCEPT ![t].pc = "store", ![t].access = minted + 1,
                             ![t].before = old, ![t].refresh = IF rotates THEN minted + 1 ELSE old]
       /\ valid' = IF rotates THEN (IF setup.strict THEN valid \ {old} ELSE valid) \cup {minted + 1}
                   ELSE valid
       /\ harm' = harm \cup (IF rotates /\ Side(t) = "fetch" THEN {"fetcher"} ELSE {})
                       \cup (IF Rotating # {} THEN {"overlap"} ELSE {})
  /\ UNCHANGED <<setup, up, creds, stale, slots, file, calls, refused, outcome, faults>>

\* The refresh token is refused: no GmailError, so it is not retried.
PostRefused(t) ==
  /\ At(t, "post") /\ creds[Side(t)].refresh \notin valid /\ setup.kind # "apponly"
  /\ End(t, "error")
  /\ UNCHANGED <<setup, authority, up, creds, stale, file, calls, refused, harm, faults>>

\* The credentials take the answer.  OAuthTokenProvider then looks for a rotation to
\* persist; the Graph providers return the token they were given.
Store(t) ==
  /\ At(t, "store")
  /\ creds' = [creds EXCEPT ![Side(t)] = [access |-> req[t].access, refresh |-> req[t].refresh]]
  /\ stale' = stale \ {Side(t)}
  /\ req' = IF Gmail THEN [req EXCEPT ![t].pc = "compare"]
            ELSE [req EXCEPT ![t].pc = "call", ![t].held = req[t].access, ![t].access = 0,
                             ![t].before = 0, ![t].refresh = 0]
  /\ UNCHANGED <<setup, authority, up, slots, file, history, faults>>

CompareUnlessForced(t) ==
  LET after == creds[Side(t)].refresh IN
  /\ At(t, "compare")
  /\ IF Side(t) = "live" /\ after # req[t].before /\ ~req[t].forced
       THEN req' = [req EXCEPT ![t].pc = "persist", ![t].refresh = after]
       ELSE Again(t, req[t].attempt, req[t].forced, "token")
  /\ UNCHANGED <<setup, authority, up, creds, stale, slots, file, history, faults>>

\* `after` is read from the credentials all threads share.
Compare(t) ==
  LET after == creds[Side(t)].refresh IN
  /\ At(t, "compare")
  /\ IF Side(t) = "live" /\ after # req[t].before
       THEN req' = [req EXCEPT ![t].pc = "persist", ![t].refresh = after]
       ELSE Again(t, req[t].attempt, req[t].forced, "token")
  /\ UNCHANGED <<setup, authority, up, creds, stale, slots, file, history, faults>>

\* on_refresh(): the file is read, and opened with O_TRUNC.
Persist(t) ==
  /\ At(t, "persist") /\ file # Torn
  /\ file' = Torn
  /\ Goto(t, "write")
  /\ UNCHANGED <<setup, authority, up, creds, stale, slots, history, faults>>

\* Another thread has the file open, or a crash has left it empty: not JSON.
PersistRaises(t) ==
  /\ At(t, "persist") /\ file = Torn
  /\ End(t, "error")
  /\ UNCHANGED <<setup, authority, up, creds, stale, file, calls, refused, harm, faults>>

Write(t) ==
  /\ At(t, "write")
  /\ file' = req[t].refresh
  /\ Again(t, req[t].attempt, req[t].forced, "token")
  /\ UNCHANGED <<setup, authority, up, creds, stale, slots, history, faults>>

----------------------------------------------------------------------------
(* The call.  429, and for Gmail 5xx and a broken connection, is tried     *)
(* again; a first 401 of Gmail costs a forced refresh; the rest raises.    *)

Ok(t) ==
  /\ At(t, "call") /\ req[t].held \in accepted
  /\ calls' = [calls EXCEPT ![t] = @ + 1]
  /\ End(t, "ok")
  /\ UNCHANGED <<setup, authority, up, creds, stale, file, refused, harm, faults>>

BusyUncounted(t) ==
  /\ At(t, "call") /\ MayFail
  /\ faults' = faults + 1
  /\ calls' = [calls EXCEPT ![t] = @ + 1]
  /\ IF req[t].attempt < MaxRetries
       THEN Again(t, req[t].attempt, req[t].forced, "token") /\ UNCHANGED <<slots, outcome>>
       ELSE End(t, "error")
  /\ UNCHANGED <<setup, authority, up, creds, stale, file, refused, harm>>

\* Throttled: one budget for every reason to retry.
Busy(t) ==
  /\ At(t, "call") /\ MayFail
  /\ faults' = faults + 1
  /\ calls' = [calls EXCEPT ![t] = @ + 1]
  /\ IF req[t].attempt < MaxRetries
       THEN /\ Again(t, req[t].attempt + 1, req[t].forced, "token")
            /\ UNCHANGED <<slots, outcome>>
       ELSE End(t, "error")
  /\ UNCHANGED <<setup, authority, up, creds, stale, file, refused, harm>>

\* A server error or no connection, which the Graph client does not retry.
Fails(t) ==
  /\ ~Gmail /\ At(t, "call") /\ MayFail
  /\ faults' = faults + 1
  /\ calls' = [calls EXCEPT ![t] = @ + 1]
  /\ End(t, "error")
  /\ UNCHANGED <<setup, authority, up, creds, stale, file, refused, harm>>

Refuse(t) ==
  /\ At(t, "call") /\ req[t].held \notin accepted
  /\ calls' = [calls EXCEPT ![t] = @ + 1]
  /\ refused' = [refused EXCEPT ![t] = @ \cup {req[t].held}]

DeniedCached(t) ==
  /\ Refuse(t)
  /\ IF Gmail /\ ~req[t].forced
       THEN /\ Again(t, req[t].attempt, TRUE, "token")
            /\ UNCHANGED <<slots, outcome>>
       ELSE End(t, "denied")
  /\ UNCHANGED <<setup, authority, up, creds, stale, file, harm, faults>>

\* 401.  force_refresh() does not look at what is cached.
Denied(t) ==
  /\ Refuse(t)
  /\ IF Gmail /\ ~req[t].forced
       THEN /\ Again(t, req[t].attempt, TRUE, "post")
            /\ UNCHANGED <<slots, outcome>>
       ELSE End(t, "denied")
  /\ UNCHANGED <<setup, authority, up, creds, stale, file, harm, faults>>

----------------------------------------------------------------------------
(* The outside.                                                            *)

\* The server takes no token minted so far, whatever the process thinks of it.
Revoke ==
  /\ up /\ MayFail /\ accepted # {}
  /\ faults' = faults + 1 /\ accepted' = {}
  /\ UNCHANGED <<setup, minted, valid, process, file, history>>

\* The access token of a side comes to its expiry.
Elapse(s) ==
  /\ up /\ s \notin stale /\ creds[s].access \notin accepted
  /\ stale' = stale \cup {s}
  /\ UNCHANGED <<setup, authority, up, creds, slots, req, file, history, faults>>

Crash ==
  /\ up /\ MayFail
  /\ faults' = faults + 1 /\ up' = FALSE
  /\ req' = [t \in Threads |-> Idle] /\ slots' = [s \in Sides |-> 0]
  /\ harm' = harm \cup (IF Rotating # {} THEN {"crash"} ELSE {})
  /\ UNCHANGED <<setup, authority, creds, stale, file, calls, refused, outcome>>

\* A file that is not JSON stops the start, whenever it is tried.
Boot ==
  /\ ~up /\ file # Torn
  /\ up' = TRUE /\ creds' = Fresh /\ stale' = Sides
  /\ UNCHANGED <<setup, authority, slots, req, file, history, faults>>

----------------------------------------------------------------------------
Token(t) == UseToken(t) \/ NeedToken(t) \/ Post(t) \/ PostRefused(t) \/ Store(t)
            \/ Compare(t) \/ Persist(t) \/ PersistRaises(t) \/ Write(t)
Call(t) == Ok(t) \/ Denied(t)
Work(t) == Begin(t) \/ Shed(t) \/ Token(t) \/ Call(t)

Next ==
  \/ \E t \in Threads : Work(t) \/ Busy(t) \/ Fails(t)
  \/ Revoke \/ \E s \in Sides : Elapse(s)
  \/ Crash \/ Boot

\* Threads run, clocks tick and a supervisor restarts the process; nothing has to fail.
Fairness ==
  /\ \A t \in Threads : WF_vars(Begin(t)) /\ WF_vars(Token(t) \/ Call(t))
  /\ \A s \in Sides : WF_vars(Elapse(s))
  /\ WF_vars(Boot)

Spec == Init /\ [][Next]_vars /\ Fairness

----------------------------------------------------------------------------
(* Properties.                                                             *)

\* Every variable has its type.
TypeOK ==
  /\ setup \in Setups /\ minted \in Nat
  /\ accepted \subseteq 1..minted /\ valid \subseteq 0..minted
  /\ creds \in [Sides -> [access: 0..minted, refresh: 0..minted]] /\ stale \subseteq Sides
  /\ file \in {Torn} \cup 0..minted
  /\ harm \subseteq {"crash", "overlap", "fetcher"}

\* The rotation sink keeps its promise (live.py 62-64): when nobody is in the middle of a
\* refresh, the token the next start would use is one the endpoint takes.  Three things
\* break it where a new token revokes the old one: a crash during a refresh, two refreshes
\* at once, and the fetcher, whose rotations nobody persists.
NextStartSurvives == Gmail /\ harm = {} /\ Rotating = {} => Resolved("live") \in valid

\* A request calls the transport at most once per try of its one budget, and once more for
\* a forced refresh (client.py 76-92), however failures and refusals mix; and the semaphore
\* counts the requests in flight: whatever raises, no slot leaks (48-55).
RequestsBounded ==
  /\ TypeOK
  /\ \A t \in Threads : calls[t] <= MaxRetries + (IF Gmail THEN 2 ELSE 1)
  /\ \A s \in Sides :
       slots[s] = Cardinality({t \in Threads : Side(t) = s /\ req[t].pc # "idle"})

\* The Gmail client gives up on a 401 only when a second token, minted after the first was
\* refused, is refused too (client.py 82-92), whatever other threads do to the credentials.
FreshTokenRefused ==
  [][\A t \in Threads :
       Gmail /\ outcome'[t] = "denied" /\ outcome[t] # "denied" => Cardinality(refused'[t]) = 2]_vars

\* A side that is locked out: its refresh token is refused, or the start fails on a torn
\* file.
LockedOut(s) ==
  \/ setup.kind # "apponly" /\ creds[s].refresh \notin valid
  \/ ~up /\ file = Torn

\* Revocations, failures and restarts pass: each side answers again and again, and on a
\* Graph client the wait for the cached token's expiry ends too.  Otherwise it is locked out.
KeepsAnswering ==
  \A t \in Threads :
    \/ []<>(\E u \in Threads : Side(u) = Side(t) /\ outcome[u] = "ok")
    \/ <>[]LockedOut(Side(t))
=============================================================================
