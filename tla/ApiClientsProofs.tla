--------------------------- MODULE ApiClientsProofs ---------------------------
(***************************************************************************)
(* Theorems about ApiClients, for any number of threads, faults, tokens    *)
(* and retries, and every setup.                                           *)
(***************************************************************************)
EXTENDS ApiClients, FiniteSetTheorems, TLAPS

----------------------------------------------------------------------------
(* The inductive invariants.                                               *)

Labels == {"idle", "token", "post", "store", "compare", "persist", "write", "call"}

Request == [pc: Labels, held: Nat, attempt: Nat, forced: BOOLEAN,
            access: Nat, before: Nat, refresh: Nat]

\* No token is one that was not minted yet; a thread without a request has nothing.
Types ==
  /\ TypeOK
  /\ up \in BOOLEAN
  /\ req \in [Threads -> Request]
  /\ \A t \in Threads :
       /\ req[t].held <= minted /\ req[t].access <= minted /\ req[t].refresh <= minted
       /\ req[t].before <= minted
       /\ req[t].pc = "idle" => req[t] = Idle
       /\ ~up => req[t] = Idle
       /\ req[t].pc \in {"persist", "write"} => Side(t) = "live"
  /\ slots \in [Sides -> Int]
  /\ calls \in [Threads -> Nat]
  /\ refused \in [Threads -> SUBSET (0..minted)]
  /\ outcome \in [Threads -> {"none", "ok", "error", "denied"}]
  /\ faults \in Nat

InFlight(s) == {t \in Threads : Side(t) = s /\ req[t].pc # "idle"}

SlotsInv == \A s \in Sides : slots[s] = Cardinality(InFlight(s))

\* Each call has used up a try, or the one forced refresh.
CallsInv ==
  \A t \in Threads :
    /\ calls[t] <= MaxRetries + (IF Gmail THEN 2 ELSE 1)
    /\ req[t].attempt <= MaxRetries /\ (req[t].forced => Gmail)
    /\ req[t].pc # "idle" => calls[t] <= req[t].attempt + (IF req[t].forced THEN 1 ELSE 0)

\* A token that nobody has stored yet is nobody else's, and nobody was refused with it.
Unused(t) ==
  LET new == req[t].access IN
  /\ new # 0 /\ \A s \in Sides : creds[s].access # new
  /\ \A u \in Threads : req[u].held # new /\ new \notin refused[u]
  /\ \A u \in Threads \ {t} : req[u].pc = "store" => req[u].access # new

UnusedInv == \A t \in Threads : req[t].pc = "store" => Unused(t)

\* After a refusal the token that was refused comes back neither to the thread nor, once
\* the refresh is stored, to the credentials.
RefusedInv ==
  \A t \in Threads : req[t].pc # "idle" =>
    IF req[t].forced
      THEN \E x \in 0..minted :
             /\ refused[t] = {x}
             /\ req[t].pc = "call" => req[t].held # x
             /\ req[t].pc \in {"token", "call", "compare", "persist", "write"} =>
                  creds[Side(t)].access # x
      ELSE refused[t] = {}

ClientsInv == Types /\ CallsInv /\ UnusedInv /\ RefusedInv

\* Where nothing has befallen it, at most one refresh is under way, and the file, the
\* credentials and the endpoint agree on the token but for what that refresh has in hand.
Held == creds["live"].refresh

AtRest == file = Held /\ Held \in valid

HandsOver(t) ==
  /\ Side(t) = "fetch" => AtRest
  /\ Side(t) = "live" =>
       CASE req[t].pc = "store"   -> /\ file = req[t].before /\ file = Held
                                     /\ req[t].refresh \in valid
         [] req[t].pc = "compare" -> file = req[t].before /\ Held \in valid
         [] req[t].pc = "persist" -> file \in Nat /\ req[t].refresh = Held /\ Held \in valid
         [] req[t].pc = "write"   -> req[t].refresh = Held /\ Held \in valid

FileInv ==
  Gmail /\ harm = {} =>
    /\ \A t, u \in Rotating : t = u
    /\ \A t \in Rotating : HandsOver(t)
    /\ Rotating = {} => AtRest

----------------------------------------------------------------------------
(* One thread's step.                                                      *)

\* Thread t's request becomes k.
Moves(t, k) ==
  /\ k \in Request
  /\ up /\ up' = up /\ setup' = setup /\ req' = [req EXCEPT ![t] = k]
  /\ k.held <= minted' /\ k.access <= minted' /\ k.refresh <= minted' /\ k.before <= minted'
  /\ k.pc = "idle" => k = Idle
  /\ k.pc \in {"persist", "write"} => Side(t) = "live"

LEMMA SideStays ==
  ASSUME setup' = setup
  PROVE  (\A t : Side(t)' = Side(t) /\ Side(t) \in Sides) /\ Gmail' = Gmail
  BY DEF Side, Gmail, Sides

LEMMA TypesStay ==
  ASSUME Types, NEW t \in Threads, NEW k, Moves(t, k), minted' \in {minted, minted + 1},
         accepted' \subseteq 1..minted', valid' \subseteq 0..minted',
         creds' \in [Sides -> [access: 0..minted', refresh: 0..minted']],
         stale' \subseteq Sides, file' \in {Torn} \cup 0..minted',
         harm' \subseteq {"crash", "overlap", "fetcher"},
         slots' \in [Sides -> Int], calls' \in [Threads -> Nat],
         refused' \in [Threads -> SUBSET (0..minted')],
         outcome' \in [Threads -> {"none", "ok", "error", "denied"}], faults' \in Nat
  PROVE  Types'
<1>1. minted \in Nat /\ minted' \in Nat /\ minted <= minted'
  BY DEF Types, TypeOK
<1>2. TypeOK'
  BY <1>1 DEF Types, TypeOK, Moves
<1>3. req' \in [Threads -> Request] /\ req'[t] = k /\ \A u \in Threads : u # t => req'[u] = req[u]
  BY DEF Types, Moves
<1>4. \A u \in Threads : Side(u)' = Side(u)
  BY SideStays DEF Moves
<1>5. ASSUME NEW u \in Threads
      PROVE  /\ req'[u].held <= minted' /\ req'[u].access <= minted'
             /\ req'[u].refresh <= minted' /\ req'[u].before <= minted'
             /\ req'[u].pc = "idle" => req'[u] = Idle
             /\ ~up' => req'[u] = Idle
             /\ req'[u].pc \in {"persist", "write"} => Side(u) = "live"
  <2>1. CASE u = t
    BY <1>3, <2>1 DEF Moves
  <2>2. CASE u # t
    <3>1. req'[u] = req[u] /\ req[u] \in Request
      BY <1>3, <2>2 DEF Types
    <3>2. req[u].held <= minted' /\ req[u].access <= minted'
          /\ req[u].refresh <= minted' /\ req[u].before <= minted'
      BY <1>1, <3>1 DEF Types, Request
    <3>3. QED
      BY <3>1, <3>2 DEF Types, Moves
  <2>3. QED
    BY <2>1, <2>2
<1>6. QED
  BY <1>2, <1>3, <1>4, <1>5 DEF Types, Moves, Idle

\* A request k that has called the transport c times is within its budget.
Budgeted(k, c) ==
  /\ c <= MaxRetries + (IF Gmail THEN 2 ELSE 1)
  /\ k.attempt <= MaxRetries /\ (k.forced => Gmail)
  /\ k.pc # "idle" => c <= k.attempt + (IF k.forced THEN 1 ELSE 0)

LEMMA CallsStay ==
  ASSUME Types, CallsInv, NEW t \in Threads, NEW k, Moves(t, k),
         NEW c, calls' = [calls EXCEPT ![t] = c], Budgeted(k, c)
  PROVE  CallsInv'
<1>1. Gmail' = Gmail
  BY SideStays DEF Moves
<1>2. \A u \in Threads :
        (req'[u] = IF u = t THEN k ELSE req[u]) /\ (calls'[u] = IF u = t THEN c ELSE calls[u])
  BY DEF Types, Moves
<1>3. QED
  BY <1>1, <1>2 DEF CallsInv, Budgeted

\* A step that stores no token, and hands out none.
LEMMA UnusedStays ==
  ASSUME Types, UnusedInv, NEW t \in Threads, NEW k, Moves(t, k), creds' = creds,
         k.pc # "store", k.held \in {0, req[t].held, creds[Side(t)].access},
         NEW r, refused' = [refused EXCEPT ![t] = r], r \subseteq refused[t] \cup {req[t].held}
  PROVE  UnusedInv'
<1>1. \A u \in Threads :
        (req'[u] = IF u = t THEN k ELSE req[u]) /\ (refused'[u] = IF u = t THEN r ELSE refused[u])
  BY DEF Types, Moves
<1>2. Side(t) \in Sides
  BY DEF Side, Sides
<1>3. ASSUME NEW u \in Threads, req'[u].pc = "store" PROVE Unused(u)'
  <2>1. u # t /\ req'[u] = req[u] /\ Unused(u)
    BY <1>1, <1>3 DEF UnusedInv
  <2>2. QED
    BY <1>1, <1>2, <2>1 DEF Unused
<1>4. QED
  BY <1>3 DEF UnusedInv

\* What a request was refused with, and is not to come back.
Spared(t, k, r) ==
  IF k.forced
    THEN \E x \in 0..minted :
           /\ r = {x}
           /\ k.pc = "call" => k.held # x
           /\ k.pc \in {"token", "call", "compare", "persist", "write"} =>
                creds[Side(t)].access # x
    ELSE r = {}

LEMMA RefusedIs ==
  RefusedInv <=> \A t \in Threads : req[t].pc # "idle" => Spared(t, req[t], refused[t])
  BY DEF RefusedInv, Spared

LEMMA RefusedStays ==
  ASSUME Types, RefusedInv, NEW t \in Threads, NEW k, Moves(t, k), minted' \in {minted, minted + 1},
         creds' = creds, NEW r, refused' = [refused EXCEPT ![t] = r],
         k.pc # "idle" => Spared(t, k, r)
  PROVE  RefusedInv'
<1>1. \A u \in Threads :
        (req'[u] = IF u = t THEN k ELSE req[u]) /\ (refused'[u] = IF u = t THEN r ELSE refused[u])
  BY DEF Types, Moves
<1>2. \A u \in Threads : Side(u)' = Side(u)
  BY SideStays DEF Moves
<1>3. 0..minted \subseteq 0..minted'
  BY DEF Types, TypeOK
<1>4. ASSUME NEW u \in Threads, req'[u].pc # "idle"
      PROVE  Spared(u, req[u], refused[u])' 
  <2>1. CASE u = t
    BY <1>1, <1>2, <1>3, <1>4, <2>1 DEF Spared
  <2>2. CASE u # t
    <3>1. Spared(u, req[u], refused[u])
      BY <1>1, <1>4, <2>2, RefusedIs
    <3>2. QED
      BY <1>1, <1>2, <1>3, <2>2, <3>1 DEF Spared
  <2>3. QED
    BY <2>1, <2>2
<1>5. QED
  BY <1>4 DEF RefusedInv, Spared

----------------------------------------------------------------------------
(* The steps of a thread that neither mint nor store.                      *)

Around ==
  /\ UNCHANGED <<minted, accepted, valid, creds, stale, harm>>
  /\ file' \in {Torn} \cup 0..minted /\ slots' \in [Sides -> Int]
  /\ outcome' \in [Threads -> {"none", "ok", "error", "denied"}] /\ faults' \in Nat

LEMMA MoveKeeps ==
  ASSUME ClientsInv, NEW t \in Threads, NEW k, Moves(t, k), Around,
         k.pc # "store", k.held \in {0, req[t].held, creds[Side(t)].access},
         NEW c \in Nat, calls' = [calls EXCEPT ![t] = c], Budgeted(k, c),
         NEW r, refused' = [refused EXCEPT ![t] = r], r \subseteq refused[t] \cup {req[t].held},
         k.pc # "idle" => Spared(t, k, r)
  PROVE  ClientsInv'
<1> USE DEF ClientsInv, Around
<1>1. calls' \in [Threads -> Nat]
  BY DEF Types
<1>2. refused' \in [Threads -> SUBSET (0..minted')]
  <2>1. req[t].held \in 0..minted
    BY DEF Types, Request
  <2>2. r \subseteq 0..minted
    BY <2>1 DEF Types
  <2>3. QED
    BY <2>2 DEF Types
<1>3. Types'
  BY <1>1, <1>2, TypesStay DEF Types, TypeOK
<1>4. CallsInv'
  BY CallsStay
<1>5. UnusedInv'
  BY UnusedStays
<1>6. RefusedInv'
  BY RefusedStays
<1>7. QED
  BY <1>3, <1>4, <1>5, <1>6

\* What is known of a request under way.
LEMMA Ready ==
  ASSUME ClientsInv, NEW t \in Threads
  PROVE  /\ req[t] \in Request /\ Side(t) \in Sides
         /\ req[t].held <= minted /\ req[t].access <= minted /\ req[t].refresh <= minted
         /\ req[t].before <= minted
         /\ req[t].pc = "idle" => req[t] = Idle
         /\ calls[t] \in Nat /\ Budgeted(req[t], calls[t])
         /\ req[t].pc # "idle" => Spared(t, req[t], refused[t])
         /\ minted \in Nat /\ MaxRetries \in Nat /\ slots[Side(t)] \in Int
         /\ creds[Side(t)].access \in 0..minted /\ creds[Side(t)].refresh \in 0..minted
<1>1. Side(t) \in Sides
  BY DEF Side, Sides
<1>2. creds[Side(t)] \in [access: 0..minted, refresh: 0..minted]
  BY <1>1 DEF ClientsInv, Types, TypeOK
<1>3. req[t].pc # "idle" => Spared(t, req[t], refused[t])
  BY RefusedIs DEF ClientsInv
<1>4. QED
  BY <1>1, <1>2, <1>3, ApiClientsAssumption DEF ClientsInv, Types, TypeOK, CallsInv, Budgeted

LEMMA IdleIs ==
  ASSUME NEW t
  PROVE  /\ Idle \in Request /\ Idle.pc = "idle" /\ Idle.held = 0 /\ Idle.access = 0
         /\ Idle.before = 0 /\ Idle.refresh = 0 /\ Idle.attempt = 0 /\ ~Idle.forced
  BY DEF Idle, Request, Labels

LEMMA SameCalls == ClientsInv => /\ calls = [t \in Threads |-> calls[t]]
                                 /\ refused = [t \in Threads |-> refused[t]]
                                 /\ req = [t \in Threads |-> req[t]]
  BY DEF ClientsInv, Types

\* The next try of the loop.
LEMMA AgainMoves ==
  ASSUME ClientsInv, NEW t \in Threads, up, up' = up, setup' = setup, minted' = minted,
         NEW a \in Nat, NEW f \in BOOLEAN, NEW pc \in {"token", "post"}, Again(t, a, f, pc)
  PROVE  \E k : /\ Moves(t, k) /\ k.pc = pc /\ k.held = 0 /\ k.attempt = a /\ k.forced = f
<1>1. PICK k : k = [Idle EXCEPT !.pc = pc, !.attempt = a, !.forced = f]
  OBVIOUS
<1>2. /\ k \in Request /\ k.pc = pc /\ k.held = 0 /\ k.attempt = a /\ k.forced = f
      /\ k.access = 0 /\ k.before = 0 /\ k.refresh = 0
  BY <1>1 DEF Idle, Request, Labels
<1>3. Moves(t, k)
  BY <1>1, <1>2, Ready DEF Again, Moves
<1>4. QED
  BY <1>2, <1>3

\* The end of a request.
LEMMA EndKeeps ==
  ASSUME ClientsInv, NEW t \in Threads, up, up' = up, setup' = setup,
         UNCHANGED <<minted, accepted, valid, creds, stale, harm>>,
         file' \in {Torn} \cup 0..minted, faults' \in Nat,
         NEW how \in {"ok", "error", "denied"}, End(t, how),
         NEW c \in Nat, calls' = [calls EXCEPT ![t] = c], c <= MaxRetries + (IF Gmail THEN 2 ELSE 1),
         NEW r, refused' = [refused EXCEPT ![t] = r], r \subseteq refused[t] \cup {req[t].held}
  PROVE  ClientsInv'
<1>1. 0 <= minted' /\ MaxRetries \in Nat
  BY Ready
<1>2. Moves(t, Idle)
  BY <1>1, IdleIs DEF End, Moves
<1>3. Around
  BY Ready DEF Around, End, ClientsInv, Types
<1>4. Budgeted(Idle, c)
  BY <1>1, IdleIs DEF Budgeted
<1>5. QED
  BY <1>2, <1>3, <1>4, IdleIs, MoveKeeps

LEMMA BeginKeeps ==
  ASSUME ClientsInv, NEW t \in Threads, Begin(t)
  PROVE  ClientsInv'
<1>1. req[t] = Idle
  BY Ready DEF Begin, At
<1>2. PICK k : k = [Idle EXCEPT !.pc = "token"]
  OBVIOUS
<1>3. k \in Request /\ k.pc = "token" /\ k.held = 0 /\ k.access = 0 /\ k.refresh = 0
      /\ k.before = 0 /\ k.attempt = 0 /\ k.forced = FALSE
  BY <1>2 DEF Idle, Request, Labels
<1>4. 0 <= minted' /\ MaxRetries \in Nat /\ up' = up /\ up /\ setup' = setup
  BY Ready DEF Begin, At, authority
<1>5. req' = [req EXCEPT ![t] = k]
  BY <1>1, <1>2 DEF Begin, Goto
<1>6. Moves(t, k)
  BY <1>3, <1>4, <1>5 DEF Moves
<1>7. Around
  BY Ready DEF Begin, Around, ClientsInv, Types, TypeOK, authority
<1>8. calls' = [calls EXCEPT ![t] = 0] /\ refused' = [refused EXCEPT ![t] = {}]
  BY DEF Begin
<1>9. Spared(t, k, {}) /\ Budgeted(k, 0)
  BY <1>3, <1>4 DEF Spared, Budgeted
<1>10. QED
  BY <1>3, <1>6, <1>7, <1>8, <1>9, MoveKeeps

\* A request that goes on, with the same tries, calls and refusals.
LEMMA GoOn ==
  ASSUME ClientsInv, NEW t \in Threads, NEW k, Moves(t, k), Around, req[t].pc # "idle",
         k.pc \notin {"idle", "store"}, k.held \in {0, req[t].held, creds[Side(t)].access},
         k.attempt = req[t].attempt, k.forced = req[t].forced,
         k.pc = "call" => k.held = creds[Side(t)].access,
         k.pc # "post" => req[t].pc \in {"token", "compare", "persist", "write"},
         UNCHANGED <<calls, refused>>
  PROVE  ClientsInv'
<1>1. calls' = [calls EXCEPT ![t] = calls[t]] /\ refused' = [refused EXCEPT ![t] = refused[t]]
  BY SameCalls
<1>2. Budgeted(k, calls[t]) /\ calls[t] \in Nat
  BY Ready DEF Budgeted
<1>3. Spared(t, k, refused[t])
  BY Ready DEF Spared
<1>4. QED
  BY <1>1, <1>2, <1>3, MoveKeeps

LEMMA TokenKeeps ==
  ASSUME ClientsInv, NEW t \in Threads, UseToken(t) \/ NeedToken(t)
  PROVE  ClientsInv'
<1>1. minted' = minted /\ UNCHANGED <<calls, refused>> /\ up /\ up' = up /\ setup' = setup
      /\ req[t].pc = "token"
  BY DEF UseToken, NeedToken, authority, history, At
<1>2. Around
  BY DEF UseToken, NeedToken, authority, history, Around, ClientsInv, Types, TypeOK
<1>3. PICK x \in Nat : x = creds[Side(t)].access /\ x <= minted
  BY Ready
<1>4. PICK q \in Request : q = req[t] /\ q.access <= minted /\ q.refresh <= minted
                           /\ q.before <= minted /\ q.held <= minted
  BY Ready
<1>5. CASE UseToken(t)
  <2>1. PICK k : k = [q EXCEPT !.pc = "call", !.held = x]
    OBVIOUS
  <2>2. k \in Request /\ k.pc = "call" /\ k.held = x
        /\ k.attempt = q.attempt /\ k.forced = q.forced /\ k.access = q.access
        /\ k.refresh = q.refresh /\ k.before = q.before
    BY <2>1 DEF Request, Labels
  <2>3. req' = [req EXCEPT ![t] = k]
    BY <1>3, <1>4, <1>5, <2>1 DEF UseToken
  <2>4. Moves(t, k)
    BY <1>1, <1>3, <1>4, <2>2, <2>3 DEF Moves
  <2>5. QED
    BY <1>1, <1>2, <1>3, <1>4, <2>2, <2>4, GoOn
<1>6. CASE NeedToken(t)
  <2>1. PICK k : k = [q EXCEPT !.pc = "post"]
    OBVIOUS
  <2>2. k \in Request /\ k.pc = "post" /\ k.held = q.held
        /\ k.attempt = q.attempt /\ k.forced = q.forced /\ k.access = q.access
        /\ k.refresh = q.refresh /\ k.before = q.before
    BY <2>1 DEF Request, Labels
  <2>3. req' = [req EXCEPT ![t] = k]
    BY <1>4, <1>6, <2>1 DEF NeedToken, Goto
  <2>4. Moves(t, k)
    BY <1>1, <1>4, <2>2, <2>3 DEF Moves
  <2>5. QED
    BY <1>1, <1>2, <1>4, <2>2, <2>4, GoOn
<1>7. QED
  BY <1>5, <1>6

LEMMA RotationKeeps ==
  ASSUME ClientsInv, NEW t \in Threads,
         Compare(t) \/ Persist(t) \/ PersistRaises(t) \/ PostRefused(t) \/ Write(t) \/ Shed(t)
  PROVE  ClientsInv'
<1> USE DEF authority, history, process
<1>1. UNCHANGED <<minted, accepted, valid, creds, stale, harm, faults, calls, refused>>
      /\ up /\ up' = up /\ setup' = setup
  BY DEF Compare, Persist, PersistRaises, PostRefused, Write, Shed, At
<1>2. slots \in [Sides -> Int] /\ outcome \in [Threads -> {"none", "ok", "error", "denied"}]
      /\ faults' \in Nat /\ file \in {Torn} \cup 0..minted
  BY <1>1 DEF ClientsInv, Types, TypeOK
<1>3. PICK q \in Request : q = req[t] /\ q.access <= minted /\ q.refresh <= minted
                           /\ q.before <= minted /\ q.held <= minted
  BY Ready
<1>4. file' \in {Torn} \cup 0..minted
  <2>1. q.refresh \in 0..minted
    BY <1>3 DEF Request
  <2>2. file' \in {file, Torn, q.refresh}
    BY <1>3 DEF Compare, Persist, PersistRaises, PostRefused, Write, Shed
  <2>3. QED
    BY <1>2, <2>1, <2>2
<1>5. CASE PersistRaises(t) \/ PostRefused(t)
  <2>1. End(t, "error")
    BY <1>5 DEF PersistRaises, PostRefused
  <2>2. calls' = [calls EXCEPT ![t] = calls[t]] /\ refused' = [refused EXCEPT ![t] = refused[t]]
    BY <1>1, SameCalls
  <2>3. calls[t] \in Nat /\ calls[t] <= MaxRetries + (IF Gmail THEN 2 ELSE 1)
    BY Ready DEF Budgeted
  <2>4. QED
    BY <1>1, <1>2, <1>4, <2>1, <2>2, <2>3, EndKeeps
<1>6. CASE Shed(t)
  <2>1. req' = [req EXCEPT ![t] = Idle] /\ req[t] = Idle
    BY <1>6, Ready, SameCalls DEF Shed, At
  <2>2. Moves(t, Idle)
    BY <1>1, <2>1, IdleIs, Ready DEF Moves
  <2>3. Around
    BY <1>1, <1>2, <1>4, <1>6 DEF Shed, Around, ClientsInv, Types
  <2>4. calls' = [calls EXCEPT ![t] = calls[t]] /\ refused' = [refused EXCEPT ![t] = refused[t]]
    BY <1>1, SameCalls
  <2>5. Budgeted(Idle, calls[t]) /\ calls[t] \in Nat
    BY <2>1, Ready
  <2>6. QED
    BY <2>2, <2>3, <2>4, <2>5, IdleIs, MoveKeeps
<1>7. ASSUME Again(t, q.attempt, q.forced, "token"), q.pc \in {"compare", "write"},
             UNCHANGED <<slots, outcome>>
      PROVE  ClientsInv'
  <2>1. q.attempt \in Nat /\ q.forced \in BOOLEAN
    BY DEF Request
  <2>2. PICK k : /\ Moves(t, k) /\ k.pc = "token" /\ k.held = 0
                 /\ k.attempt = q.attempt /\ k.forced = q.forced
    BY <1>1, <1>7, <2>1, AgainMoves
  <2>3. Around
    BY <1>1, <1>2, <1>4, <1>7 DEF Around
  <2>4. QED
    BY <1>1, <1>3, <1>7, <2>2, <2>3, GoOn
<1>8. CASE Compare(t) /\ ~Again(t, req[t].attempt, req[t].forced, "token")
  <2>1. PICK x \in Nat : x = creds[Side(t)].refresh /\ x <= minted
    BY Ready
  <2>2. PICK k : k = [q EXCEPT !.pc = "persist", !.refresh = x]
    OBVIOUS
  <2>3. k \in Request /\ k.pc = "persist" /\ k.held = q.held
        /\ k.attempt = q.attempt /\ k.forced = q.forced /\ k.access = q.access
        /\ k.refresh = x /\ k.before = q.before
    BY <2>2 DEF Request, Labels
  <2>4. req' = [req EXCEPT ![t] = k] /\ Side(t) = "live"
    BY <1>3, <1>8, <2>1, <2>2 DEF Compare
  <2>5. q.pc = "compare" /\ UNCHANGED <<slots, outcome>>
    BY <1>3, <1>8 DEF Compare, At
  <2>6. Moves(t, k)
    BY <1>1, <1>3, <2>1, <2>3, <2>4 DEF Moves
  <2>7. Around
    BY <1>1, <1>2, <1>4, <2>5 DEF Around
  <2>8. QED
    BY <1>1, <1>3, <2>3, <2>5, <2>6, <2>7, GoOn
<1>9. CASE Persist(t)
  <2>1. PICK k : k = [q EXCEPT !.pc = "write"]
    OBVIOUS
  <2>2. k \in Request /\ k.pc = "write" /\ k.held = q.held
        /\ k.attempt = q.attempt /\ k.forced = q.forced /\ k.access = q.access
        /\ k.refresh = q.refresh /\ k.before = q.before
    BY <2>1 DEF Request, Labels
  <2>3. req' = [req EXCEPT ![t] = k]
    BY <1>3, <1>9, <2>1 DEF Persist, Goto
  <2>4. Side(t) = "live" /\ q.pc = "persist"
    BY <1>3, <1>9 DEF Persist, At, ClientsInv, Types
  <2>5. UNCHANGED <<slots, outcome>>
    BY <1>9 DEF Persist
  <2>6. Moves(t, k)
    BY <1>1, <1>3, <2>2, <2>3, <2>4 DEF Moves
  <2>7. Around
    BY <1>1, <1>2, <1>4, <2>5 DEF Around
  <2>8. QED
    BY <1>1, <1>3, <2>2, <2>4, <2>6, <2>7, GoOn
<1>10. CASE (Compare(t) \/ Write(t)) /\ Again(t, req[t].attempt, req[t].forced, "token")
  BY <1>3, <1>7, <1>10 DEF Compare, Write, At
<1>11. QED
  BY <1>5, <1>6, <1>8, <1>9, <1>10 DEF Write

\* The call of the transport.
LEMMA CallKeeps ==
  ASSUME ClientsInv, NEW t \in Threads, Ok(t) \/ Busy(t) \/ Fails(t) \/ Denied(t)
  PROVE  ClientsInv'
<1> USE DEF authority, history, process
<1>1. UNCHANGED <<minted, accepted, valid, creds, stale, harm, file>>
      /\ up /\ up' = up /\ setup' = setup /\ req[t].pc = "call"
      /\ calls' = [calls EXCEPT ![t] = calls[t] + 1]
  BY DEF Ok, Busy, Fails, Denied, Refuse, At
<1>2. slots \in [Sides -> Int] /\ outcome \in [Threads -> {"none", "ok", "error", "denied"}]
      /\ faults \in Nat /\ file' \in {Torn} \cup 0..minted
  BY <1>1 DEF ClientsInv, Types, TypeOK
<1>3. faults' \in Nat
  <2>1. faults' = faults \/ faults' = faults + 1
    BY DEF Ok, Busy, Fails, Denied
  <2>2. QED
    BY <1>2, <2>1
<1>4. PICK q \in Request : q = req[t] /\ q.held \in 0..minted
  BY Ready DEF Request
<1>5. q.attempt \in Nat /\ q.forced \in BOOLEAN /\ q.attempt <= MaxRetries
      /\ (q.forced => Gmail) /\ MaxRetries \in Nat
  BY <1>4, Ready DEF Request, Budgeted
<1>6. PICK c : c = calls[t] + 1
  OBVIOUS
<1>7. /\ c \in Nat /\ c <= q.attempt + (IF q.forced THEN 2 ELSE 1)
      /\ c <= MaxRetries + (IF Gmail THEN 2 ELSE 1) /\ calls' = [calls EXCEPT ![t] = c]
  <2>1. calls[t] <= q.attempt + (IF q.forced THEN 1 ELSE 0) /\ calls[t] \in Nat
    BY <1>1, <1>4, Ready DEF Budgeted
  <2>2. QED
    BY <1>1, <1>5, <1>6, <2>1
<1>8. Spared(t, q, refused[t])
  BY <1>1, <1>4, Ready
<1>9. ASSUME NEW how \in {"ok", "error", "denied"}, End(t, how) PROVE ClientsInv'
  <2>1. \E r : refused' = [refused EXCEPT ![t] = r] /\ r \subseteq refused[t] \cup {req[t].held}
    <3>1. CASE Refuse(t)
      BY <3>1 DEF Refuse
    <3>2. CASE ~Refuse(t)
      BY <3>2, SameCalls DEF Ok, Busy, Fails, Denied
    <3>3. QED
      BY <3>1, <3>2
  <2>2. QED
    BY <1>1, <1>2, <1>3, <1>7, <1>9, <2>1, EndKeeps
<1>10. ASSUME UNCHANGED <<slots, outcome>> PROVE Around
  BY <1>1, <1>2, <1>3, <1>10 DEF Around
<1>11. CASE Busy(t) /\ q.attempt < MaxRetries
  <2>1. q.attempt + 1 \in Nat /\ UNCHANGED <<slots, outcome>> /\ q.attempt + 1 <= MaxRetries
        /\ refused' = [refused EXCEPT ![t] = refused[t]]
        /\ Again(t, q.attempt + 1, q.forced, "token")
    BY <1>4, <1>5, <1>11, SameCalls DEF Busy
  <2>2. PICK k : /\ Moves(t, k) /\ k.pc = "token" /\ k.held = 0
                 /\ k.attempt = q.attempt + 1 /\ k.forced = q.forced
    BY <1>1, <1>5, <2>1, AgainMoves
  <2>3. Spared(t, k, refused[t])
    <3>1. CASE q.forced
      <4>1. PICK x \in 0..minted : refused[t] = {x} /\ creds[Side(t)].access # x
        BY <1>1, <1>4, <1>8, <3>1 DEF Spared
      <4>2. QED
        BY <2>2, <3>1, <4>1 DEF Spared
    <3>2. QED
      BY <1>8, <2>2, <3>1 DEF Spared
  <2>4. Budgeted(k, c)
    BY <1>5, <1>7, <2>1, <2>2 DEF Budgeted
  <2>5. QED
    BY <1>7, <1>10, <2>1, <2>2, <2>3, <2>4, MoveKeeps
<1>12. CASE Denied(t) /\ Gmail /\ ~q.forced
  <2>1. UNCHANGED <<slots, outcome>> /\ refused[t] = {} /\ Again(t, q.attempt, TRUE, "post")
        /\ refused' = [refused EXCEPT ![t] = refused[t] \cup {q.held}]
    BY <1>4, <1>8, <1>12 DEF Denied, Refuse, Spared
  <2>2. PICK k : /\ Moves(t, k) /\ k.pc = "post" /\ k.held = 0
                 /\ k.attempt = q.attempt /\ k.forced
    <3>1. PICK f \in BOOLEAN : f /\ f = TRUE
      OBVIOUS
    <3>2. Again(t, q.attempt, f, "post")
      BY <2>1, <3>1
    <3>3. PICK k : Moves(t, k) /\ k.pc = "post" /\ k.held = 0 /\ k.attempt = q.attempt /\ k.forced = f
      BY <1>1, <1>5, <3>2, AgainMoves
    <3>4. k.forced
      BY <3>1, <3>3
    <3>5. QED
      BY <3>3, <3>4
  <2>3. Spared(t, k, refused[t] \cup {q.held})
    BY <1>4, <2>1, <2>2 DEF Spared
  <2>4. Budgeted(k, c)
    BY <1>5, <1>7, <1>12, <2>2 DEF Budgeted
  <2>5. QED
    BY <1>4, <1>7, <1>10, <2>1, <2>2, <2>3, <2>4, MoveKeeps
<1>13. QED
  BY <1>4, <1>9, <1>11, <1>12 DEF Ok, Busy, Fails, Denied

----------------------------------------------------------------------------
(* Tokens are minted and stored; the outside.                              *)

\* The token that is handed out is one that nobody has.
LEMMA PostKeeps ==
  ASSUME ClientsInv, NEW t \in Threads, Post(t)
  PROVE  ClientsInv'
<1> DEFINE old == creds[Side(t)].refresh
<1>1. /\ minted' = minted + 1 /\ accepted' = accepted \cup {minted + 1}
      /\ UNCHANGED <<setup, up, creds, stale, slots, file, calls, refused, outcome, faults>>
      /\ up /\ req[t].pc = "post"
      /\ valid' \subseteq valid \cup {minted + 1} /\ harm' \subseteq harm \cup {"fetcher", "overlap"}
  BY DEF Post, At
<1>2. PICK new \in {old, minted + 1} :
        req' = [req EXCEPT ![t].pc = "store", ![t].access = minted + 1,
                           ![t].before = old, ![t].refresh = new]
  BY DEF Post
<1>3. PICK q \in Request : q = req[t] /\ q.held <= minted
  BY Ready
<1>4. minted \in Nat /\ old \in Nat /\ old <= minted
  BY Ready
<1>5. PICK k : k = [q EXCEPT !.pc = "store", !.access = minted + 1, !.before = old,
                             !.refresh = new]
  OBVIOUS
<1> HIDE DEF old
<1>14. new \in Nat /\ minted + 1 \in Nat /\ new <= minted + 1
  BY <1>2, <1>4
<1>6. k \in Request /\ k.pc = "store" /\ k.access = minted + 1 /\ k.before = old
      /\ k.refresh = new /\ k.held = q.held /\ k.attempt = q.attempt /\ k.forced = q.forced
  BY <1>4, <1>5, <1>14 DEF Request, Labels
<1>7. req' = [req EXCEPT ![t] = k]
  BY <1>2, <1>3, <1>5
<1>8. Moves(t, k)
  BY <1>1, <1>3, <1>4, <1>6, <1>7, <1>14, SideStays DEF Moves, Request
<1>9. Types'
  <2>1. accepted' \subseteq 1..minted' /\ valid' \subseteq 0..minted'
        /\ creds' \in [Sides -> [access: 0..minted', refresh: 0..minted']]
        /\ stale' \subseteq Sides /\ file' \in {Torn} \cup 0..minted'
        /\ harm' \subseteq {"crash", "overlap", "fetcher"}
    <3>1. 0..minted \subseteq 0..minted' /\ 1..minted \subseteq 1..minted'
          /\ minted + 1 \in 1..minted' /\ minted + 1 \in 0..minted'
      BY <1>1, <1>4
    <3>2. accepted \subseteq 1..minted /\ valid \subseteq 0..minted
          /\ creds \in [Sides -> [access: 0..minted, refresh: 0..minted]] /\ stale \subseteq Sides
          /\ file \in {Torn} \cup 0..minted /\ harm \subseteq {"crash", "overlap", "fetcher"}
      BY DEF ClientsInv, Types, TypeOK
    <3>3. creds \in [Sides -> [access: 0..minted', refresh: 0..minted']]
      BY <3>1, <3>2
    <3>4. QED
      BY <1>1, <3>1, <3>2, <3>3
  <2>2. slots' \in [Sides -> Int] /\ calls' \in [Threads -> Nat]
        /\ outcome' \in [Threads -> {"none", "ok", "error", "denied"}] /\ faults' \in Nat
    BY <1>1 DEF ClientsInv, Types
  <2>3. refused' \in [Threads -> SUBSET (0..minted')]
    <3>1. 0..minted \subseteq 0..minted'
      BY <1>1, <1>4
    <3>2. refused \in [Threads -> SUBSET (0..minted)]
      BY DEF ClientsInv, Types
    <3>3. QED
      BY <1>1, <3>1, <3>2
  <2>4. QED
    BY <1>1, <1>8, <2>1, <2>2, <2>3, TypesStay DEF ClientsInv
<1>10. CallsInv'
  <2>1. Budgeted(k, calls[t])
    BY <1>1, <1>3, <1>6, Ready DEF Budgeted
  <2>2. QED
    BY <1>1, <1>8, <2>1, SameCalls, CallsStay DEF ClientsInv
<1>11. UnusedInv'
  <2>1. \A u \in Threads : req'[u] = IF u = t THEN k ELSE req[u]
    BY <1>7 DEF ClientsInv, Types
  <2>2. \A n : n \in 0..minted => n # minted + 1
    BY <1>4
  <2>3. /\ \A s \in Sides : creds[s].access \in 0..minted
        /\ \A u \in Threads : /\ req[u].held \in 0..minted /\ refused[u] \subseteq 0..minted
                              /\ req[u].access \in 0..minted
    BY <1>4 DEF ClientsInv, Types, TypeOK, Request
  <2>4. ASSUME NEW u \in Threads, req'[u].pc = "store" PROVE Unused(u)'
    <3>1. CASE u = t
      <4>1. req'[u].access = minted + 1 /\ minted + 1 # 0
        BY <1>4, <1>6, <2>1, <3>1
      <4>2. \A s \in Sides : creds'[s].access # minted + 1
        BY <1>1, <2>2, <2>3
      <4>3. \A v \in Threads : req'[v].held # minted + 1 /\ minted + 1 \notin refused'[v]
        BY <1>1, <1>3, <1>6, <2>1, <2>2, <2>3
      <4>4. \A v \in Threads \ {t} : req'[v].access # minted + 1
        BY <2>1, <2>2, <2>3
      <4>5. QED
        BY <3>1, <4>1, <4>2, <4>3, <4>4 DEF Unused
    <3>2. CASE u # t
      <4>1. req'[u] = req[u] /\ Unused(u)
        BY <2>1, <2>4, <3>2 DEF ClientsInv, UnusedInv
      <4>2. \A v \in Threads : req'[v].held = req[v].held
        BY <1>3, <1>6, <2>1
      <4>3. req[u].access # minted + 1
        BY <2>2, <2>3
      <4>4. QED
        BY <1>1, <1>6, <2>1, <4>1, <4>2, <4>3 DEF Unused
    <3>3. QED
      BY <3>1, <3>2
  <2>5. QED
    BY <2>4 DEF UnusedInv
<1>12. RefusedInv'
  <2>1. Spared(t, k, refused[t])
    BY <1>1, <1>3, <1>6, Ready DEF Spared
  <2>2. refused' = [refused EXCEPT ![t] = refused[t]]
    BY <1>1, SameCalls
  <2>3. QED
    BY <1>1, <1>8, <2>1, <2>2, RefusedStays DEF ClientsInv
<1>13. QED
  BY <1>9, <1>10, <1>11, <1>12 DEF ClientsInv

\* The token that is stored is one that nobody was refused with.
LEMMA StoreKeeps ==
  ASSUME ClientsInv, NEW t \in Threads, Store(t)
  PROVE  ClientsInv'
<1>1. UNCHANGED <<setup, minted, accepted, valid, up, slots, file, calls, refused, outcome, harm,
                  faults>>
      /\ up /\ req[t].pc = "store" /\ stale' \subseteq stale
  BY DEF Store, At, authority, history
<1>2. PICK q \in Request : q = req[t] /\ q.held <= minted /\ q.access <= minted
                           /\ q.refresh <= minted /\ q.before <= minted
  BY Ready
<1>3. creds' = [creds EXCEPT ![Side(t)] = [access |-> q.access, refresh |-> q.refresh]]
  BY <1>2 DEF Store
<1>4. Unused(t) /\ Side(t) \in Sides /\ minted \in Nat
  BY <1>1, Ready DEF ClientsInv, UnusedInv
<1>5. \E k : /\ Moves(t, k) /\ k.pc \in {"compare", "call"} /\ k.attempt = q.attempt
             /\ k.forced = q.forced
             /\ k.pc = "call" => ~Gmail
             /\ k.held \in {q.held, q.access}
  <2>1. CASE Gmail
    <3>1. PICK k : k = [q EXCEPT !.pc = "compare"]
      OBVIOUS
    <3>2. k \in Request /\ k.pc = "compare" /\ k.held = q.held
          /\ k.attempt = q.attempt /\ k.forced = q.forced /\ k.access = q.access
          /\ k.refresh = q.refresh /\ k.before = q.before
      BY <3>1 DEF Request, Labels
    <3>3. req' = [req EXCEPT ![t] = k]
      BY <1>2, <2>1, <3>1 DEF Store
    <3>4. Moves(t, k)
      BY <1>1, <1>2, <3>2, <3>3 DEF Moves
    <3>5. QED
      BY <3>2, <3>4
  <2>2. CASE ~Gmail
    <3>1. PICK k : k = [q EXCEPT !.pc = "call", !.held = q.access, !.access = 0, !.before = 0,
                                 !.refresh = 0]
      OBVIOUS
    <3>2. k \in Request /\ k.pc = "call" /\ k.held = q.access
          /\ k.attempt = q.attempt /\ k.forced = q.forced /\ k.access = 0
          /\ k.refresh = 0 /\ k.before = 0
      BY <3>1 DEF Request, Labels
    <3>3. req' = [req EXCEPT ![t] = k]
      BY <1>2, <2>2, <3>1 DEF Store
    <3>4. Moves(t, k)
      BY <1>1, <1>2, <1>4, <3>2, <3>3 DEF Moves
    <3>5. QED
      BY <2>2, <3>2, <3>4
  <2>3. QED
    BY <2>1, <2>2
<1>6. PICK k : /\ Moves(t, k) /\ k.pc \in {"compare", "call"} /\ k.attempt = q.attempt
               /\ k.forced = q.forced
               /\ k.pc = "call" => ~Gmail
               /\ k.held \in {q.held, q.access}
  BY <1>5
<1>7. creds' \in [Sides -> [access: 0..minted, refresh: 0..minted]]
  <2>1. q.access \in 0..minted /\ q.refresh \in 0..minted
    BY <1>2 DEF Request
  <2>2. [access |-> q.access, refresh |-> q.refresh] \in [access: 0..minted, refresh: 0..minted]
    BY <2>1
  <2>3. creds \in [Sides -> [access: 0..minted, refresh: 0..minted]]
    BY DEF ClientsInv, Types, TypeOK
  <2>4. QED
    BY <1>3, <2>2, <2>3
<1>8. Types'
  BY <1>1, <1>6, <1>7, TypesStay DEF ClientsInv, Types, TypeOK
<1>9. CallsInv'
  <2>1. Budgeted(k, calls[t])
    BY <1>1, <1>2, <1>6, Ready DEF Budgeted
  <2>2. QED
    BY <1>1, <1>6, <2>1, SameCalls, CallsStay DEF ClientsInv
<1>10. /\ \A u \in Threads : req'[u] = IF u = t THEN k ELSE req[u]
       /\ \A s \in Sides : creds'[s].access \in {creds[s].access, q.access}
       /\ creds'[Side(t)].access = q.access
  <2>1. DOMAIN creds = Sides
    BY DEF ClientsInv, Types, TypeOK
  <2>2. QED
    BY <1>3, <1>4, <1>6, <2>1 DEF ClientsInv, Types, Moves
<1>11. UnusedInv'
  <2>1. ASSUME NEW u \in Threads, req'[u].pc = "store" PROVE Unused(u)'
    <3>1. u # t /\ req'[u] = req[u] /\ Unused(u)
      BY <1>6, <1>10, <2>1 DEF ClientsInv, UnusedInv
    <3>2. req[u].access # q.access
      BY <1>1, <1>2, <3>1 DEF Unused
    <3>3. \A v \in Threads : req'[v].held # req[u].access
      BY <1>2, <1>6, <1>10, <3>1, <3>2 DEF Unused
    <3>4. \A v \in Threads : req'[v].pc = "store" => req'[v] = req[v]
      BY <1>6, <1>10
    <3>5. QED
      BY <1>1, <1>10, <3>1, <3>2, <3>3, <3>4 DEF Unused
  <2>2. QED
    BY <2>1 DEF UnusedInv
<1>12. RefusedInv'
  <2>1. \A u \in Threads : Side(u)' = Side(u) /\ Side(u) \in Sides
    BY <1>1, SideStays
  <2>2. ASSUME NEW u \in Threads, req'[u].pc # "idle" PROVE Spared(u, req[u], refused[u])'
    <3>1. CASE u = t
      <4>1. Spared(t, q, refused[t]) /\ (q.forced => Gmail)
        BY <1>1, <1>2, Ready DEF Budgeted
      <4>2. q.access \notin refused[t]
        BY <1>2, <1>4 DEF Unused
      <4>3. QED
        BY <1>1, <1>6, <1>10, <2>1, <3>1, <4>1, <4>2 DEF Spared
    <3>2. CASE u # t
      <4>1. Spared(u, req[u], refused[u]) /\ req'[u] = req[u]
        BY <1>10, <2>2, <3>2, Ready
      <4>2. q.access \notin refused[u]
        BY <1>2, <1>4 DEF Unused
      <4>3. QED
        BY <1>1, <1>10, <2>1, <4>1, <4>2 DEF Spared
    <3>3. QED
      BY <3>1, <3>2
  <2>3. QED
    BY <2>2 DEF RefusedInv, Spared
<1>13. QED
  BY <1>8, <1>9, <1>11, <1>12 DEF ClientsInv

LEMMA OutsideKeeps ==
  ASSUME ClientsInv, Revoke \/ (\E s \in Sides : Elapse(s)) \/ UNCHANGED vars
  PROVE  ClientsInv'
<1>1. UNCHANGED <<setup, minted, up, creds, slots, req, file, calls, refused, outcome, harm, valid>>
      /\ accepted' \subseteq accepted /\ stale' \subseteq Sides /\ faults' \in Nat
  BY DEF Revoke, Elapse, vars, authority, process, history, ClientsInv, Types, TypeOK
<1>2. Types'
  BY <1>1, SideStays DEF ClientsInv, Types, TypeOK
<1>3. CallsInv' /\ UnusedInv' /\ RefusedInv'
  BY <1>1, SideStays DEF ClientsInv, CallsInv, UnusedInv, Unused, RefusedInv
<1>4. QED
  BY <1>2, <1>3 DEF ClientsInv

LEMMA CrashKeeps ==
  ASSUME ClientsInv, Crash
  PROVE  ClientsInv'
<1>1. UNCHANGED <<setup, minted, accepted, valid, creds, stale, file, calls, refused, outcome>>
      /\ req' = [t \in Threads |-> Idle] /\ slots' = [s \in Sides |-> 0] /\ up' = FALSE
      /\ harm' \subseteq harm \cup {"crash"} /\ faults' = faults + 1
  BY DEF Crash, authority
<1>2. Types'
  <2>1. minted \in Nat /\ faults' \in Nat
    BY <1>1 DEF ClientsInv, Types, TypeOK
  <2>2. \A t \in Threads : req'[t] = Idle
    BY <1>1
  <2>3. req' \in [Threads -> Request]
    BY <1>1, IdleIs
  <2>4. TypeOK'
    BY <1>1 DEF ClientsInv, Types, TypeOK
  <2>5. QED
    <3>1. ASSUME NEW t \in Threads
          PROVE  /\ req'[t] = Idle /\ 0 <= minted' /\ Idle.pc = "idle"
                 /\ Idle.held = 0 /\ Idle.access = 0 /\ Idle.refresh = 0 /\ Idle.before = 0
      BY <1>1, <2>1, <2>2, IdleIs
    <3>2. slots' \in [Sides -> Int] /\ up' \in BOOLEAN
      <4>1. slots' \in [Sides -> Int]
        BY <1>1
      <4>2. up' \in BOOLEAN
        BY <1>1
      <4>3. QED
        BY <4>1, <4>2
    <3>3. calls' \in [Threads -> Nat] /\ refused' \in [Threads -> SUBSET (0..minted')]
          /\ outcome' \in [Threads -> {"none", "ok", "error", "denied"}]
      BY <1>1 DEF ClientsInv, Types
    <3>4. QED
      BY <2>1, <2>3, <2>4, <3>1, <3>2, <3>3 DEF Types
<1>3. CallsInv'
  <2>1. MaxRetries \in Nat
    BY ApiClientsAssumption
  <2>2. QED
    BY <1>1, <2>1, IdleIs, SideStays DEF ClientsInv, CallsInv
<1>4. UnusedInv' /\ RefusedInv'
  BY <1>1, IdleIs DEF UnusedInv, RefusedInv
<1>5. QED
  BY <1>2, <1>3, <1>4 DEF ClientsInv

LEMMA BootKeeps ==
  ASSUME ClientsInv, Boot
  PROVE  ClientsInv'
<1>1. UNCHANGED <<setup, minted, accepted, valid, slots, req, file, calls, refused, outcome, harm,
                  faults>>
      /\ up' = TRUE /\ creds' = Fresh /\ stale' = Sides /\ ~up /\ file # Torn
  BY DEF Boot, authority, history
<1>2. \A t \in Threads : req[t] = Idle
  BY <1>1 DEF ClientsInv, Types
<1>3. Types'
  <2>1. creds' \in [Sides -> [access: 0..minted, refresh: 0..minted]]
    BY <1>1 DEF Fresh, Resolved, ClientsInv, Types, TypeOK
  <2>2. TypeOK'
    BY <1>1, <2>1 DEF ClientsInv, Types, TypeOK
  <2>3. QED
    BY <1>1, <1>2, <2>2, SideStays, IdleIs DEF ClientsInv, Types
<1>4. CallsInv' /\ UnusedInv' /\ RefusedInv'
  BY <1>1, <1>2, IdleIs, SideStays DEF ClientsInv, CallsInv, UnusedInv, RefusedInv
<1>5. QED
  BY <1>3, <1>4 DEF ClientsInv

LEMMA ClientsInit == Init => ClientsInv
<1> SUFFICES ASSUME Init PROVE ClientsInv
  OBVIOUS
<1>1. Types
  <2>1. creds \in [Sides -> [access: {0}, refresh: {0}]]
    BY DEF Init, Fresh, Resolved
  <2>2. TypeOK
    BY <2>1 DEF Init, TypeOK
  <2>3. QED
    BY <2>2, IdleIs DEF Init, Types
<1>2. CallsInv /\ UnusedInv /\ RefusedInv
  BY IdleIs, ApiClientsAssumption DEF Init, CallsInv, UnusedInv, RefusedInv
<1>3. QED
  BY <1>1, <1>2 DEF ClientsInv

LEMMA ClientsNext == ClientsInv /\ [Next]_vars => ClientsInv'
<1> SUFFICES ASSUME ClientsInv, [Next]_vars PROVE ClientsInv'
  OBVIOUS
<1>1. ASSUME NEW t \in Threads, Work(t) \/ Busy(t) \/ Fails(t) PROVE ClientsInv'
  BY <1>1, BeginKeeps, TokenKeeps, RotationKeeps, CallKeeps, PostKeeps, StoreKeeps
     DEF Work, Token, Call
<1>2. QED
  BY <1>1, OutsideKeeps, CrashKeeps, BootKeeps DEF Next

LEMMA ClientsInvariance == Spec => []ClientsInv
  BY ClientsInit, ClientsNext, PTL DEF Spec

----------------------------------------------------------------------------
(* The budget of a request, and the slots.                                 *)

LEMMA FewInFlight ==
  ASSUME NEW s
  PROVE  IsFiniteSet(InFlight(s)) /\ Cardinality(InFlight(s)) \in Nat
<1>1. InFlight(s) \in SUBSET Threads
  BY DEF InFlight
<1>2. QED
  BY <1>1, FiniteThreads, FS_Subset, FS_CardinalityType

\* A step after which the same requests are under way.
LEMMA SlotsStay ==
  ASSUME SlotsInv, setup' = setup, slots' = slots,
         \A t \in Threads : req'[t].pc = "idle" <=> req[t].pc = "idle"
  PROVE  SlotsInv'
<1>1. \A s : InFlight(s)' = InFlight(s)
  BY SideStays DEF InFlight
<1>2. QED
  BY <1>1 DEF SlotsInv

\* A request ends, and its slot is free.
LEMMA SlotFreed ==
  ASSUME ClientsInv, SlotsInv, NEW t \in Threads, NEW how, End(t, how), setup' = setup,
         req[t].pc # "idle"
  PROVE  SlotsInv'
<1>1. \A u \in Threads : req'[u] = IF u = t THEN Idle ELSE req[u]
  BY DEF End, ClientsInv, Types
<1>2. PICK side \in Sides : side = Side(t)
  BY Ready
<1>3. InFlight(side)' = InFlight(side) \ {t} /\ t \in InFlight(side)
      /\ \A s : s # side => InFlight(s)' = InFlight(s)
  BY <1>1, <1>2, SideStays, IdleIs DEF InFlight
<1>4. Cardinality(InFlight(side) \ {t}) = Cardinality(InFlight(side)) - 1
  BY <1>3, FewInFlight, FS_RemoveElement
<1>5. slots' = [slots EXCEPT ![side] = @ - 1] /\ DOMAIN slots = Sides
  BY <1>2 DEF End, ClientsInv, Types
<1>6. slots[side] = Cardinality(InFlight(side)) /\ slots'[side] = slots[side] - 1
  BY <1>5 DEF SlotsInv
<1>7. slots'[side] = Cardinality(InFlight(side)')
  BY <1>3, <1>4, <1>6
<1>8. \A s \in Sides : s # side => slots'[s] = Cardinality(InFlight(s)')
  BY <1>3, <1>5 DEF SlotsInv
<1>9. QED
  BY <1>7, <1>8 DEF SlotsInv

LEMMA SlotTaken ==
  ASSUME ClientsInv, SlotsInv, NEW t \in Threads, Begin(t)
  PROVE  SlotsInv'
<1>1. \A u \in Threads : u # t => req'[u] = req[u]
  BY DEF Begin, Goto, ClientsInv, Types
<1>2. req[t].pc = "idle" /\ req'[t].pc = "token" /\ setup' = setup
  <2>1. req' = [req EXCEPT ![t] = [req[t] EXCEPT !.pc = "token"]]
    BY DEF Begin, Goto
  <2>2. req[t] \in Request
    BY Ready
  <2>3. QED
    BY <2>1, <2>2 DEF Begin, At, ClientsInv, Types, Request
<1>3. PICK side \in Sides : side = Side(t)
  BY Ready
<1>4. InFlight(side)' = InFlight(side) \cup {t} /\ t \notin InFlight(side)
      /\ \A s : s # side => InFlight(s)' = InFlight(s)
  BY <1>1, <1>2, <1>3, SideStays DEF InFlight
<1>5. Cardinality(InFlight(side) \cup {t}) = Cardinality(InFlight(side)) + 1
  BY <1>4, FewInFlight, FS_AddElement
<1>6. slots' = [slots EXCEPT ![side] = @ + 1] /\ DOMAIN slots = Sides
  BY <1>3 DEF Begin, ClientsInv, Types
<1>7. slots[side] = Cardinality(InFlight(side)) /\ slots'[side] = slots[side] + 1
  BY <1>6 DEF SlotsInv
<1>8. slots'[side] = Cardinality(InFlight(side)')
  BY <1>4, <1>5, <1>7
<1>9. \A s \in Sides : s # side => slots'[s] = Cardinality(InFlight(s)')
  BY <1>4, <1>6 DEF SlotsInv
<1>10. QED
  BY <1>8, <1>9 DEF SlotsInv

LEMMA SlotsNext ==
  ASSUME ClientsInv, SlotsInv, [Next]_vars
  PROVE  SlotsInv'
<1> USE DEF authority, history, process
<1>1. ASSUME NEW t \in Threads, NEW l \in Labels \ {"idle"}, req[t].pc # "idle",
             setup' = setup, slots' = slots, req'[t].pc = l,
             \A u \in Threads : u # t => req'[u] = req[u]
      PROVE  SlotsInv'
  BY <1>1, SlotsStay DEF Labels
<1>2. ASSUME NEW t \in Threads, UseToken(t) \/ NeedToken(t) \/ Post(t) \/ Store(t) \/ Persist(t)
      PROVE  SlotsInv'
  <2>1. req[t].pc # "idle" /\ setup' = setup /\ slots' = slots
    BY <1>2 DEF UseToken, NeedToken, Post, Store, Persist, At
  <2>2. \A u \in Threads : u # t => req'[u] = req[u]
    BY <1>2 DEF UseToken, NeedToken, Post, Store, Persist, Goto, ClientsInv, Types
  <2>3. req'[t].pc \in {"call", "post", "store", "compare", "write"}
    BY <1>2 DEF UseToken, NeedToken, Post, Store, Persist, Goto, ClientsInv, Types, Request
  <2>4. QED
    BY <2>1, <2>2, <2>3, SlotsStay
<1>3. ASSUME NEW t \in Threads, NEW a, NEW f, NEW l \in {"token", "post"}, Again(t, a, f, l),
             req[t].pc # "idle", setup' = setup, slots' = slots
      PROVE  SlotsInv'
  <2>1. req'[t].pc = l /\ \A u \in Threads : u # t => req'[u] = req[u]
    BY <1>3 DEF Again, Idle, ClientsInv, Types
  <2>2. QED
    BY <1>3, <2>1, SlotsStay
<1>4. ASSUME NEW t \in Threads, Compare(t) PROVE SlotsInv'
  <2>1. req[t].pc # "idle" /\ setup' = setup /\ slots' = slots
    BY <1>4 DEF Compare, At
  <2>2. CASE Again(t, req[t].attempt, req[t].forced, "token")
    BY <1>3, <2>1, <2>2
  <2>3. CASE ~Again(t, req[t].attempt, req[t].forced, "token")
    <3>1. \A u \in Threads : u # t => req'[u] = req[u]
      BY <1>4, <2>3 DEF Compare, ClientsInv, Types
    <3>2. req'[t].pc = "persist"
      BY <1>4, <2>3 DEF Compare, ClientsInv, Types, Request
    <3>3. QED
      BY <2>1, <3>1, <3>2, SlotsStay
  <2>4. QED
    BY <2>2, <2>3
<1>5. ASSUME NEW t \in Threads, Write(t) PROVE SlotsInv'
  BY <1>3, <1>5 DEF Write, At
<1>6. ASSUME NEW t \in Threads, PostRefused(t) \/ PersistRaises(t) \/ Ok(t) \/ Fails(t)
      PROVE  SlotsInv'
  BY <1>6, SlotFreed DEF PostRefused, PersistRaises, Ok, Fails, At
<1>7. ASSUME NEW t \in Threads, Busy(t) PROVE SlotsInv'
  <2>1. req[t].pc # "idle" /\ setup' = setup
    BY <1>7 DEF Busy, At
  <2>2. CASE req[t].attempt < MaxRetries
    BY <1>3, <1>7, <2>1, <2>2 DEF Busy
  <2>3. CASE ~(req[t].attempt < MaxRetries)
    BY <1>7, <2>1, <2>3, SlotFreed DEF Busy
  <2>4. QED
    BY <2>2, <2>3
<1>8. ASSUME NEW t \in Threads, Denied(t) PROVE SlotsInv'
  <2>1. req[t].pc # "idle" /\ setup' = setup
    BY <1>8 DEF Denied, Refuse, At
  <2>2. CASE Gmail /\ ~req[t].forced
    BY <1>3, <1>8, <2>1, <2>2 DEF Denied
  <2>3. CASE ~(Gmail /\ ~req[t].forced)
    BY <1>8, <2>1, <2>3, SlotFreed DEF Denied
  <2>4. QED
    BY <2>2, <2>3
<1>9. CASE Crash
  <2>1. \A s : InFlight(s)' = {}
    BY <1>9, IdleIs DEF Crash, InFlight
  <2>2. \A s \in Sides : slots'[s] = 0
    BY <1>9 DEF Crash
  <2>3. QED
    BY <2>1, <2>2, FS_EmptySet DEF SlotsInv
<1>10. CASE Revoke \/ Boot \/ (\E s \in Sides : Elapse(s)) \/ UNCHANGED vars
            \/ (\E t \in Threads : Shed(t))
  <2>1. setup' = setup /\ slots' = slots /\ req' = req
    BY <1>10 DEF Revoke, Boot, Elapse, Shed, vars
  <2>2. QED
    BY <2>1, SlotsStay
<1>11. QED
  BY <1>2, <1>4, <1>5, <1>6, <1>7, <1>8, <1>9, <1>10, SlotTaken DEF Next, Work, Token, Call

\* However failures and refusals mix, a request stays within its budget of calls, and the
\* semaphore counts the requests in flight, through crashes too (gmail/client.py request,
\* _request_inner).
THEOREM BudgetHolds == Spec => []RequestsBounded
<1>1. Init => SlotsInv
  <2> SUFFICES ASSUME Init PROVE SlotsInv
    OBVIOUS
  <2>1. \A s \in Sides : slots[s] = 0 /\ InFlight(s) = {}
    BY IdleIs DEF Init, InFlight
  <2>2. QED
    BY <2>1, FS_EmptySet DEF SlotsInv
<1>2. ClientsInv /\ SlotsInv /\ [Next]_vars => SlotsInv'
  BY SlotsNext
<1>3. ClientsInv /\ SlotsInv => RequestsBounded
  BY DEF ClientsInv, Types, CallsInv, SlotsInv, InFlight, RequestsBounded
<1>4. QED
  BY <1>1, <1>2, <1>3, ClientsInvariance, PTL DEF Spec

----------------------------------------------------------------------------
(* A 401 that is given up on.                                              *)

\* The Gmail client raises for a 401 only when two different tokens were refused, the
\* second one minted after the first refusal, whatever other threads do to the credentials
\* in between (gmail/client.py 82-92).
THEOREM TwoTokensRefused == Spec => FreshTokenRefused
<1>1. ASSUME ClientsInv, Next, NEW t \in Threads, Gmail, outcome'[t] = "denied", outcome[t] # "denied"
      PROVE  Cardinality(refused'[t]) = 2
  <2> USE DEF authority, history, process
  <2>1. ASSUME NEW u \in Threads, u # t, Work(u) \/ Busy(u) \/ Fails(u) PROVE FALSE
    <3>1. \/ outcome' = outcome
          \/ \E how \in {"none", "ok", "error", "denied"} : outcome' = [outcome EXCEPT ![u] = how]
      BY <2>1 DEF Work, Token, Call, Begin, Shed, UseToken, NeedToken, Post, PostRefused, Store,
         Compare, Persist, PersistRaises, Write, Ok, Denied, Busy, Fails, End
    <3>2. QED
      BY <1>1, <2>1, <3>1 DEF ClientsInv, Types
  <2>2. ASSUME Revoke \/ Crash \/ Boot \/ (\E s \in Sides : Elapse(s)) PROVE FALSE
    BY <1>1, <2>2 DEF Revoke, Crash, Boot, Elapse
  <2>3. ASSUME Work(t) \/ Busy(t) \/ Fails(t), ~Denied(t) PROVE FALSE
    <3>1. \/ outcome' = outcome
          \/ \E how \in {"none", "ok", "error"} : outcome' = [outcome EXCEPT ![t] = how]
      BY <2>3 DEF Work, Token, Call, Begin, Shed, UseToken, NeedToken, Post, PostRefused, Store,
         Compare, Persist, PersistRaises, Write, Ok, Busy, Fails, End
    <3>2. QED
      BY <1>1, <3>1 DEF ClientsInv, Types
  <2>4. Denied(t)
    BY <1>1, <2>1, <2>2, <2>3 DEF Next
  <2>5. req[t].forced /\ req[t].pc = "call"
    BY <1>1, <2>4 DEF Denied, Refuse, At
  <2>6. PICK x \in 0..minted : refused[t] = {x} /\ req[t].held # x
    BY <1>1, <2>5 DEF ClientsInv, RefusedInv
  <2>7. refused'[t] = {x} \cup {req[t].held}
    BY <1>1, <2>4, <2>6 DEF Denied, Refuse, ClientsInv, Types
  <2>8. Cardinality({x} \cup {req[t].held}) = 2
    <3>1. IsFiniteSet({x}) /\ Cardinality({x}) = 1
      BY FS_Singleton
    <3>2. PICK y : y = req[t].held /\ y \notin {x}
      BY <2>6
    <3>3. Cardinality({x} \cup {y}) = Cardinality({x}) + 1
      BY <3>1, <3>2, FS_AddElement
    <3>4. QED
      BY <3>1, <3>2, <3>3
  <2>9. QED
    BY <2>7, <2>8
<1>2. ClientsInv /\ [Next]_vars =>
        [\A t \in Threads :
           Gmail /\ outcome'[t] = "denied" /\ outcome[t] # "denied" => Cardinality(refused'[t]) = 2]_vars
  BY <1>1
<1>3. QED
  BY <1>2, ClientsInvariance, PTL DEF Spec, FreshTokenRefused

----------------------------------------------------------------------------
(* The token the next start would use.                                     *)

LEMMA FileStays ==
  ASSUME FileInv, setup' = setup, harm \subseteq harm', file' = file, valid' = valid,
         creds'["live"] = creds["live"], Rotating' = Rotating,
         \A t \in Rotating : req'[t] = req[t]
  PROVE  FileInv'
<1>1. \A t : Side(t)' = Side(t)
  BY SideStays
<1>2. Gmail' = Gmail
  BY SideStays
<1>3. AtRest' = AtRest /\ Held' = Held
  BY DEF AtRest, Held
<1>4. ASSUME NEW t \in Rotating, HandsOver(t) PROVE HandsOver(t)'
  BY <1>1, <1>3, <1>4 DEF HandsOver
<1>5. QED
  BY <1>2, <1>3, <1>4 DEF FileInv

\* What is known when nothing has gone wrong.
LEMMA OnlyOne ==
  ASSUME FileInv, Gmail, harm = {}, NEW t \in Threads,
         req[t].pc \in {"store", "compare", "persist", "write"}
  PROVE  HandsOver(t) /\ Rotating = {t}
  BY DEF FileInv, Rotating

\* The only refresh under way comes to an end, and nobody else's is under way.
LEMMA FileSettles ==
  ASSUME NEW t \in Threads, Rotating' \subseteq {t}, t \notin Rotating', AtRest'
  PROVE  FileInv'
<1>1. Rotating' = {}
  OBVIOUS
<1>2. QED
  BY <1>1 DEF FileInv

LEMMA FileGoesOn ==
  ASSUME NEW t \in Threads, Rotating' \subseteq {t}, t \in Rotating', HandsOver(t)'
  PROVE  FileInv'
<1>1. Rotating' = {t}
  OBVIOUS
<1>2. QED
  BY <1>1 DEF FileInv

RotationLabels == {"store", "compare", "persist", "write"}

\* A step of one thread that is not in the middle of a refresh, and is not after it.
LEMMA FileAside ==
  ASSUME FileInv, NEW t \in Threads, \A u \in Threads : u # t => req'[u] = req[u],
         req[t].pc \notin RotationLabels, req'[t].pc \notin RotationLabels,
         setup' = setup, harm \subseteq harm', file' = file, valid' = valid, creds' = creds
  PROVE  FileInv'
<1>1. Rotating' = Rotating /\ \A u \in Rotating : req'[u] = req[u]
  BY DEF Rotating, RotationLabels
<1>2. QED
  BY <1>1, FileStays

\* Which steps are such.
LEMMA CallAside ==
  ASSUME ClientsInv, FileInv, NEW t \in Threads,
         \/ Begin(t) \/ UseToken(t) \/ NeedToken(t) \/ PostRefused(t) \/ Ok(t) \/ Busy(t)
         \/ Fails(t) \/ Denied(t)
  PROVE  FileInv'
<1> USE DEF authority, history, process
<1>1. setup' = setup /\ harm' = harm /\ file' = file /\ valid' = valid /\ creds' = creds
      /\ req[t].pc \notin RotationLabels
  BY DEF Begin, UseToken, NeedToken, PostRefused, Ok, Busy, Fails, Denied, Refuse, At,
     RotationLabels
<1>2. (\A u \in Threads : u # t => req'[u] = req[u]) /\ req'[t].pc \notin RotationLabels
  <2>1. CASE Begin(t) \/ UseToken(t) \/ NeedToken(t)
    BY <2>1 DEF Begin, UseToken, NeedToken, Goto, ClientsInv, Types, Request, RotationLabels
  <2>2. ASSUME NEW how, End(t, how)
        PROVE  (\A u \in Threads : u # t => req'[u] = req[u]) /\ req'[t].pc \notin RotationLabels
    BY <2>2, IdleIs DEF End, ClientsInv, Types, RotationLabels
  <2>3. ASSUME NEW a, NEW f, NEW l \in {"token", "post"}, Again(t, a, f, l)
        PROVE  (\A u \in Threads : u # t => req'[u] = req[u]) /\ req'[t].pc \notin RotationLabels
    BY <2>3 DEF Again, Idle, ClientsInv, Types, RotationLabels
  <2>4. QED
    BY <2>1, <2>2, <2>3 DEF PostRefused, Ok, Busy, Fails, Denied
<1>3. QED
  BY <1>1, <1>2, FileAside

LEMMA PostFile ==
  ASSUME ClientsInv, FileInv, NEW t \in Threads, Post(t)
  PROVE  FileInv'
<1> SUFFICES ASSUME Gmail', harm' = {} PROVE FileInv'
  BY DEF FileInv
<1> DEFINE old == creds[Side(t)].refresh
<1>1. setup' = setup /\ creds' = creds /\ file' = file /\ Gmail /\ harm = {} /\ Rotating = {}
  BY SideStays DEF Post
<1>2. AtRest
  BY <1>1 DEF FileInv
<1>3. PICK rotates \in {FALSE, setup.kind # "apponly"} :
        /\ req' = [req EXCEPT ![t].pc = "store", ![t].access = minted + 1,
                              ![t].before = old, ![t].refresh = IF rotates THEN minted + 1 ELSE old]
        /\ valid' = IF rotates
                      THEN (IF setup.strict THEN valid \ {old} ELSE valid) \cup {minted + 1}
                      ELSE valid
        /\ rotates => Side(t) # "fetch"
  BY DEF Post
<1>4. (\A u \in Threads : u # t => req'[u] = req[u]) /\ req'[t].pc = "store"
      /\ req'[t].before = old /\ req'[t].refresh = IF rotates THEN minted + 1 ELSE old
  <2>1. req[t] \in Request /\ DOMAIN req = Threads
    BY Ready DEF ClientsInv, Types
  <2>2. QED
    BY <1>3, <2>1 DEF Request
<1>5. Rotating' = {t}
  BY <1>1, <1>4 DEF Rotating
<1>6. Side(t)' = Side(t) /\ Side(t) \in {"live", "fetch"}
  BY <1>1, SideStays DEF Sides
<1>7. CASE Side(t) = "live"
  <2>1. old = Held /\ Held' = Held
    BY <1>1, <1>7 DEF Held
  <2>2. file' = req'[t].before /\ file' = Held' /\ req'[t].refresh \in valid'
    BY <1>1, <1>2, <1>3, <1>4, <2>1 DEF AtRest
  <2>3. HandsOver(t)'
    BY <1>4, <1>6, <1>7, <2>2 DEF HandsOver
  <2>4. QED
    BY <1>5, <2>3, FileGoesOn
<1>8. CASE Side(t) = "fetch"
  <2>1. valid' = valid
    BY <1>3, <1>8
  <2>2. AtRest'
    BY <1>1, <1>2, <2>1 DEF AtRest, Held
  <2>3. HandsOver(t)'
    BY <1>6, <1>8, <2>2 DEF HandsOver
  <2>4. QED
    BY <1>5, <2>3, FileGoesOn
<1>9. QED
  BY <1>6, <1>7, <1>8

LEMMA StoreFile ==
  ASSUME ClientsInv, FileInv, NEW t \in Threads, Store(t)
  PROVE  FileInv'
<1> SUFFICES ASSUME Gmail', harm' = {} PROVE FileInv'
  BY DEF FileInv
<1>1. setup' = setup /\ Gmail /\ harm = {} /\ file' = file /\ valid' = valid
      /\ req[t].pc = "store" /\ req' = [req EXCEPT ![t].pc = "compare"]
      /\ creds' = [creds EXCEPT ![Side(t)] = [access |-> req[t].access, refresh |-> req[t].refresh]]
  BY SideStays DEF Store, At, authority, history
<1>2. HandsOver(t) /\ Rotating = {t}
  BY <1>1, OnlyOne
<1>3. (\A u \in Threads : u # t => req'[u] = req[u]) /\ req'[t].pc = "compare"
      /\ req'[t].before = req[t].before
  <2>1. req[t] \in Request /\ DOMAIN req = Threads
    BY Ready DEF ClientsInv, Types
  <2>2. QED
    BY <1>1, <2>1 DEF Request
<1>4. Rotating' = {t}
  BY <1>2, <1>3 DEF Rotating
<1>5. Side(t)' = Side(t) /\ Side(t) \in {"live", "fetch"} /\ DOMAIN creds = {"live", "fetch"}
  BY <1>1, SideStays DEF Sides, ClientsInv, Types, TypeOK
<1>6. CASE Side(t) = "live"
  <2>1. Held' = req[t].refresh
    BY <1>1, <1>5, <1>6 DEF Held
  <2>2. HandsOver(t)'
    BY <1>1, <1>2, <1>3, <1>5, <1>6, <2>1 DEF HandsOver
  <2>3. QED
    BY <1>4, <2>2, FileGoesOn
<1>7. CASE Side(t) = "fetch"
  <2>1. Held' = Held
    BY <1>1, <1>5, <1>7 DEF Held
  <2>2. HandsOver(t)'
    BY <1>1, <1>2, <1>5, <1>7, <2>1 DEF HandsOver, AtRest
  <2>3. QED
    BY <1>4, <2>2, FileGoesOn
<1>8. QED
  BY <1>5, <1>6, <1>7

LEMMA CompareFile ==
  ASSUME ClientsInv, FileInv, NEW t \in Threads, Compare(t)
  PROVE  FileInv'
<1> SUFFICES ASSUME Gmail', harm' = {} PROVE FileInv'
  BY DEF FileInv
<1>1. setup' = setup /\ Gmail /\ harm = {} /\ file' = file /\ valid' = valid /\ creds' = creds
      /\ req[t].pc = "compare"
  BY SideStays DEF Compare, At, authority, history
<1>2. HandsOver(t) /\ Rotating = {t}
  BY <1>1, OnlyOne
<1>3. Side(t)' = Side(t) /\ Side(t) \in {"live", "fetch"} /\ Held' = Held
  BY <1>1, SideStays DEF Sides, Held
<1>4. CASE Side(t) = "live" /\ creds[Side(t)].refresh # req[t].before
  <2>1. req' = [req EXCEPT ![t].pc = "persist", ![t].refresh = creds[Side(t)].refresh]
    BY <1>4 DEF Compare
  <2>2. (\A u \in Threads : u # t => req'[u] = req[u]) /\ req'[t].pc = "persist"
        /\ req'[t].refresh = Held
    <3>1. req[t] \in Request /\ DOMAIN req = Threads
      BY Ready DEF ClientsInv, Types
    <3>2. QED
      BY <1>4, <2>1, <3>1 DEF Request, Held
  <2>3. Rotating' = {t}
    BY <1>2, <2>2 DEF Rotating
  <2>4. file' \in Nat
    <3>1. req[t].before \in Nat
      BY Ready DEF Request
    <3>2. QED
      BY <1>1, <1>2, <1>4, <3>1 DEF HandsOver
  <2>5. HandsOver(t)'
    BY <1>1, <1>2, <1>3, <1>4, <2>2, <2>4 DEF HandsOver
  <2>6. QED
    BY <2>3, <2>5, FileGoesOn
<1>5. CASE ~(Side(t) = "live" /\ creds[Side(t)].refresh # req[t].before)
  <2>1. Again(t, req[t].attempt, req[t].forced, "token")
    BY <1>5 DEF Compare
  <2>2. (\A u \in Threads : u # t => req'[u] = req[u]) /\ req'[t].pc = "token"
    BY <2>1 DEF Again, Idle, ClientsInv, Types
  <2>3. t \notin Rotating' /\ Rotating' \subseteq {t}
    BY <1>2, <2>2 DEF Rotating
  <2>4. AtRest
    BY <1>1, <1>2, <1>3, <1>5 DEF HandsOver, AtRest, Held
  <2>5. AtRest'
    BY <1>1, <1>3, <2>4 DEF AtRest
  <2>6. QED
    BY <2>3, <2>5, FileSettles
<1>6. QED
  BY <1>4, <1>5

LEMMA PersistFile ==
  ASSUME ClientsInv, FileInv, NEW t \in Threads, Persist(t) \/ PersistRaises(t) \/ Write(t)
  PROVE  FileInv'
<1> SUFFICES ASSUME Gmail', harm' = {} PROVE FileInv'
  BY DEF FileInv
<1>1. setup' = setup /\ Gmail /\ harm = {} /\ valid' = valid /\ creds' = creds
      /\ req[t].pc \in {"persist", "write"}
  BY SideStays DEF Persist, PersistRaises, Write, At, authority, history
<1>2. HandsOver(t) /\ Rotating = {t}
  BY <1>1, OnlyOne
<1>3. Side(t)' = Side(t) /\ Side(t) = "live" /\ Held' = Held
  BY <1>1, SideStays DEF Held, ClientsInv, Types
<1>4. CASE Persist(t)
  <2>1. (\A u \in Threads : u # t => req'[u] = req[u]) /\ req'[t].pc = "write"
        /\ req'[t].refresh = req[t].refresh /\ req[t].pc = "persist"
    <3>1. req[t] \in Request /\ DOMAIN req = Threads
      BY Ready DEF ClientsInv, Types
    <3>2. QED
      BY <1>4, <3>1 DEF Persist, Goto, At, Request
  <2>2. Rotating' = {t}
    BY <1>2, <2>1 DEF Rotating
  <2>3. HandsOver(t)'
    BY <1>1, <1>2, <1>3, <2>1 DEF HandsOver
  <2>4. QED
    BY <2>2, <2>3, FileGoesOn
<1>5. ASSUME PersistRaises(t) PROVE FALSE
  BY <1>2, <1>3, <1>5, ApiClientsAssumption DEF PersistRaises, At, HandsOver
<1>6. CASE Write(t)
  <2>1. (\A u \in Threads : u # t => req'[u] = req[u]) /\ req'[t].pc = "token"
        /\ req[t].pc = "write" /\ file' = req[t].refresh
    BY <1>6 DEF Write, Again, At, Idle, ClientsInv, Types
  <2>2. t \notin Rotating' /\ Rotating' \subseteq {t}
    BY <1>2, <2>1 DEF Rotating
  <2>3. AtRest'
    BY <1>1, <1>2, <1>3, <2>1 DEF AtRest, HandsOver
  <2>4. QED
    BY <2>2, <2>3, FileSettles
<1>7. QED
  BY <1>4, <1>5, <1>6

LEMMA FileNext ==
  ASSUME ClientsInv, FileInv, [Next]_vars
  PROVE  FileInv'
<1> USE DEF authority, history, process
<1>1. CASE Revoke \/ (\E s \in Sides : Elapse(s)) \/ (\E t \in Threads : Shed(t)) \/ UNCHANGED vars
  <2>1. setup' = setup /\ harm' = harm /\ file' = file /\ valid' = valid /\ creds' = creds
        /\ req' = req
    BY <1>1 DEF Revoke, Elapse, Shed, vars
  <2>2. Rotating' = Rotating
    BY <2>1 DEF Rotating
  <2>3. QED
    BY <2>1, <2>2, FileStays
<1>2. CASE Crash
  <2> SUFFICES ASSUME Gmail', harm' = {} PROVE FileInv'
    BY DEF FileInv
  <2>1. setup' = setup /\ Gmail /\ harm = {} /\ file' = file /\ valid' = valid /\ creds' = creds
        /\ Rotating = {} /\ Rotating' = {}
    BY <1>2, IdleIs, SideStays DEF Crash, Rotating
  <2>2. QED
    BY <2>1 DEF FileInv, AtRest, Held
<1>3. CASE Boot
  <2> SUFFICES ASSUME Gmail', harm' = {} PROVE FileInv'
    BY DEF FileInv
  <2>1. setup' = setup /\ Gmail /\ harm = {} /\ file' = file /\ valid' = valid /\ req' = req
        /\ creds' = Fresh /\ \A t \in Threads : req[t] = Idle
    BY <1>3, SideStays DEF Boot, ClientsInv, Types
  <2>2. Rotating = {} /\ Rotating' = {}
    BY <2>1, IdleIs DEF Rotating
  <2>3. Held' = file /\ file \in valid
    BY <2>1, <2>2 DEF Held, Fresh, Resolved, Sides, FileInv, AtRest
  <2>4. QED
    BY <2>1, <2>2, <2>3 DEF FileInv, AtRest
<1>4. QED
  BY <1>1, <1>2, <1>3, CallAside, PostFile, StoreFile, CompareFile, PersistFile
     DEF Next, Work, Token, Call

\* Whatever the threads do and however often the endpoint hands out new refresh tokens:
\* between two refreshes the file holds a token the endpoint takes, unless a crash came in
\* the middle of a refresh, two refreshes overlapped, or the fetcher was given a new token
\* (gmail/oauth.py on_refresh, live.py 62-64).
THEOREM RotationIsPersisted == Spec => []NextStartSurvives
<1>1. Init => FileInv
  <2> SUFFICES ASSUME Init PROVE FileInv
    OBVIOUS
  <2>1. Rotating = {} /\ Held = 0
    BY IdleIs DEF Init, Rotating, Held, Fresh, Resolved, Sides
  <2>2. QED
    BY <2>1 DEF Init, FileInv, AtRest
<1>2. ClientsInv /\ FileInv /\ [Next]_vars => FileInv'
  BY FileNext
<1>3. FileInv => NextStartSurvives
  BY DEF FileInv, AtRest, NextStartSurvives, Resolved
<1>4. QED
  BY <1>1, <1>2, <1>3, ClientsInvariance, PTL DEF Spec
=============================================================================
