------------------------------ MODULE Idempotency ------------------------------
(***************************************************************************)
(* The middleware every POST passes through (app/middleware/idempotency.py,*)
(* added in app/main.py): the answer to a successful request is kept in    *)
(* Redis under its Idempotency-Key and replayed to the next request with   *)
(* that key.  The key is looked up before the handler and written after    *)
(* it; the handler itself is the business of the module that extends this. *)
(***************************************************************************)
EXTENDS Naturals, Sequences, FiniteSets

CONSTANTS
  Requests,   \* calls in a behaviour, a client's retries among them
  KeyOf,      \* the Idempotency-Key of each, or NoKey
  WorkspaceOf,\* the X-Workspace-Id of each, which TenantMiddleware has stored
  Expiring    \* the keys whose TTL may run out within a behaviour

NoKey    == "no key"
HasKey(r) == KeyOf[r] # NoKey

\* The tenant is looked up in the __dict__ of request.state, a Starlette State,
\* which keeps its attributes in a dict of its own: the default is taken for
\* every request.
Tenant(r)   == "none"
CacheKey(r) == <<Tenant(r), KeyOf[r]>>
Keys     == {CacheKey(r) : r \in {q \in Requests : HasKey(q)}}
NoAnswer == 0    \* otherwise an answer is the id of what the handler created

VARIABLES
  pc,         \* where each request stands
  cache,      \* Redis: the answer kept under each key
  reply       \* what the client was told

idemVars == <<pc, cache, reply>>

IdemInit ==
  /\ pc = [r \in Requests |-> "idle"]
  /\ cache = [k \in Keys |-> NoAnswer]
  /\ reply = [r \in Requests |-> NoAnswer]

Goto(r, label) == pc' = [pc EXCEPT ![r] = label]

\* GET: a cached answer is replayed and the handler not called.
Receive(r) ==
  /\ pc[r] = "idle"
  /\ IF HasKey(r) /\ cache[CacheKey(r)] # NoAnswer
     THEN Goto(r, "answered") /\ reply' = [reply EXCEPT ![r] = cache[CacheKey(r)]]
     ELSE Goto(r, "handle") /\ UNCHANGED reply
  /\ UNCHANGED cache

\* SET, once the handler has returned an answer below 400.
Answer(r, id) ==
  /\ pc[r] = "handled"
  /\ cache' = IF HasKey(r) THEN [cache EXCEPT ![CacheKey(r)] = id] ELSE cache
  /\ reply' = [reply EXCEPT ![r] = id]
  /\ Goto(r, "answered")

\* The handler raises at one of its steps: an error is told and not kept.
HandlerFails(r, steps) ==
  /\ pc[r] \in steps
  /\ Goto(r, "failed")
  /\ UNCHANGED <<cache, reply>>

\* TTL_SECONDS after the SET.
ExpireKey(k) ==
  /\ k[2] \in Expiring /\ cache[k] # NoAnswer
  /\ cache' = [cache EXCEPT ![k] = NoAnswer]
  /\ UNCHANGED <<pc, reply>>

StopRequest(r) ==
  /\ pc[r] \notin {"idle", "answered", "failed", "stopped"}
  /\ Goto(r, "stopped")
  /\ UNCHANGED <<cache, reply>>
=============================================================================
