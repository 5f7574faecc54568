--------------------------- MODULE ResponseCache ---------------------------
(***************************************************************************)
(* What a handler makes of a request before it forwards it: the identity,  *)
(* the output clamp and the exact cache of the route (handlers.rs, native  *)
(* .rs), over the routes and response_cache tables an operator edits       *)
(* meanwhile (storage/mod.rs).  Every request names the same model; the    *)
(* body of a request is its kind.                                          *)
(***************************************************************************)
EXTENDS Integers, FiniteSets

CONSTANTS
  Requests,
  Routes,       \* row ids of routes of the proxy the model names
  Asked,        \* the route name every request asks for
  OtherName,    \* a name nobody asks for
  Identities,   \* route identities, NoIdentity among them
  NoIdentity,
  Kinds,        \* the kinds of requests that arrive
  Ttls,         \* cache_ttl_secs an operator sets
  Clamps,       \* max_tokens an operator sets
  MaxEdits,     \* bound on the edits of the operator
  MaxClock

VARIABLES
  clock,        \* Utc::now, shared with the limiter
  route,        \* the rows of routes
  rows,         \* the rows of response_cache
  call,         \* the locals of each handler
  edits         \* how many edits the operator has made

cacheVars == <<clock, route, rows, call, edits>>

RouteRows == [live : BOOLEAN, name : {Asked, OtherName}, identity : Identities,
              clamp : Clamps, ttl : Ttls]

(* What goes upstream.  The hash stands for what was hashed, with the       *)
(* profile and the model's name, which are the same for all.               *)
Bodies == [kind : Kinds, identity : Identities, clamp : Clamps]

(* from: the route whose chain answers. torn: the name moved to another    *)
(* route between the two lookups of the handler.                           *)
Calls == [pc : {"idle", "resolved", "lookup", "forward", "store", "over"},
          from : Routes, body : Bodies, key : BOOLEAN, hash : Bodies, rid : Routes,
          ttl : Ttls, now : 0 .. MaxClock, torn : BOOLEAN]

Answers == [from : Routes, body : Bodies]
CacheRows == [rid : Routes, hash : Bodies, answer : Answers, torn : BOOLEAN,
              created : 0 .. MaxClock, expires : Nat]

CacheTypeOK ==
  /\ clock \in 0 .. MaxClock
  /\ route \in [Routes -> RouteRows]
  /\ rows \subseteq CacheRows
  /\ call \in [Requests -> Calls]
  /\ edits \in 0 .. MaxEdits

(* The locals of a handler that has not begun, or that has returned.        *)
Blank(r) ==
  LET body == [kind |-> CHOOSE k \in Kinds : TRUE, identity |-> NoIdentity, clamp |-> 0]
  IN  [pc |-> "idle", from |-> r, body |-> body, key |-> FALSE, hash |-> body,
       rid |-> r, ttl |-> 0, now |-> 0, torn |-> FALSE]

CacheInit ==
  /\ clock = 0 /\ rows = {} /\ edits = 0
  /\ \E r \in Routes, t \in Ttls, c \in Clamps, i \in Identities :
       /\ route = [x \in Routes |->
                    [live |-> TRUE, name |-> IF x = r THEN Asked ELSE OtherName,
                     identity |-> i, clamp |-> c, ttl |-> t]]
       /\ call = [q \in Requests |-> Blank(r)]

-----------------------------------------------------------------------------
Named(r) == route[r].live /\ route[r].name = Asked

Over(q) == [Blank(call[q].from) EXCEPT !.pc = "over"]

Become(q, c) == /\ call' = [call EXCEPT ![q] = c]
                /\ UNCHANGED <<clock, route, edits>>

(* inject_identity_into_messages; the handlers of streams do not call it.   *)
Identity(kind, r) == IF kind = "stream" THEN NoIdentity ELSE route[r].identity

(* clamp_chat_max_tokens: a ceiling of 0 leaves the request alone.          *)
Clamped(body, r) == [body EXCEPT !.clamp = route[r].clamp]

(* cache_hash is None for tools and for a temperature; escalated requests   *)
(* are not hashed at all, though their hash would be that of plain ones.   *)
Cacheable(body) == body.kind = "plain"
HashBeforeIdentity(body) == [body EXCEPT !.identity = NoIdentity]
Hash(body) == IF body.kind = "escalated" THEN [body EXCEPT !.kind = "plain"] ELSE body

(* resolve_targets_with_strategy: the chain and the identity are read.      *)
Resolve(q, kind, r) ==
  /\ call[q].pc = "idle" /\ Named(r)
  /\ Become(q, [call[q] EXCEPT !.pc = IF kind \in {"stream", "native"}
                                        THEN "forward" ELSE "resolved",
                               !.from = r, !.rid = r, !.ttl = 0, !.key = FALSE,
                               !.body = [kind |-> kind, clamp |-> 0,
                                         identity |-> Identity(kind, r)]])
  /\ UNCHANGED rows

NotFound(q) ==
  /\ call[q].pc = "idle" /\ \A r \in Routes : ~Named(r)
  /\ Become(q, Over(q)) /\ UNCHANGED rows

(* route_economy looks the name up again; the request is clamped, and      *)
(* hashed when a lifetime is set and it is deterministic.  Without a hash   *)
(* the cache plays no further part: how the request fares is Failover's.   *)
Economy(q, r) ==
  LET body == Clamped(call[q].body, r)
      key == route[r].ttl > 0 /\ Cacheable(body)
  IN  /\ call[q].pc = "resolved" /\ Named(r)
      /\ Become(q, IF key THEN [call[q] EXCEPT
                                 !.pc = "lookup", !.body = body, !.hash = Hash(body),
                                 !.key = TRUE, !.rid = r, !.ttl = route[r].ttl,
                                 !.now = clock, !.torn = r # call[q].from]
                           ELSE Over(q))
      /\ UNCHANGED rows

NoEconomy(q) ==
  /\ call[q].pc = "resolved" /\ \A r \in Routes : ~Named(r)
  /\ Become(q, Over(q)) /\ UNCHANGED rows

Matching(q, now) ==
  {x \in rows : x.rid = call[q].rid /\ x.hash = call[q].hash /\ x.expires > now}

(* cache_get: the expired rows go, whoever they belong to.                  *)
Lookup(q) ==
  /\ call[q].pc = "lookup"
  /\ rows' = {x \in rows : x.expires > call[q].now}
  /\ Become(q, IF Matching(q, call[q].now) = {}
                  THEN [call[q] EXCEPT !.pc = "forward", !.now = 0]
                  ELSE Over(q))

(* The attempts: Failover says how they end, here they just do.             *)
Forwarded(q) ==
  /\ call[q].pc = "forward"
  /\ Become(q, IF call[q].key THEN [call[q] EXCEPT !.pc = "store"]
                               ELSE Over(q))
  /\ UNCHANGED rows

Exhausted(q) ==
  /\ call[q].pc = "forward"
  /\ Become(q, Over(q)) /\ UNCHANGED rows

(* Faults of Put the checks must find: the columns swapped, the route      *)
(* looked up a third time.                                                 *)
PutSwapped(q) ==
  LET c == call[q]
  IN  /\ c.pc = "store"
      /\ rows' = rows \cup {[rid |-> c.rid, hash |-> c.hash, torn |-> c.torn,
                              answer |-> [from |-> c.from, body |-> c.body],
                              created |-> clock + c.ttl, expires |-> clock]}
      /\ Become(q, Over(q))

PutByName(q) ==
  LET c == call[q]
  IN  /\ c.pc = "store"
      /\ rows' = rows \cup {[rid |-> r, hash |-> c.hash, torn |-> c.torn,
                              answer |-> [from |-> c.from, body |-> c.body],
                              created |-> clock, expires |-> clock + c.ttl] :
                             r \in {x \in Routes : Named(x)}}
      /\ Become(q, Over(q))

(* cache_put under the lifetime read before the attempts; the insert fails *)
(* silently when the route is gone, and replaces an older answer.          *)
Put(q) ==
  LET c == call[q]
      row == [rid |-> c.rid, hash |-> c.hash, torn |-> c.torn,
              answer |-> [from |-> c.from, body |-> c.body],
              created |-> clock, expires |-> clock + c.ttl]
  IN  /\ c.pc = "store"
      /\ rows' = IF route[c.rid].live
                   THEN {x \in rows : <<x.rid, x.hash>> # <<c.rid, c.hash>>} \cup {row}
                   ELSE rows
      /\ Become(q, Over(q))

-----------------------------------------------------------------------------
(* The operator, one statement at a time.                                   *)
Edit(r, row) ==
  /\ edits < MaxEdits /\ edits' = edits + 1
  /\ route[r].live /\ row # route[r]
  /\ route' = [route EXCEPT ![r] = row]
  /\ UNCHANGED <<clock, call>>

(* A name is unique within the proxy.                                       *)
UpdateRoute(r, name, i) ==
  /\ \A x \in Routes \ {r} : ~(route[x].live /\ route[x].name = name /\ name = Asked)
  /\ Edit(r, [route[r] EXCEPT !.name = name, !.identity = i])
  /\ UNCHANGED rows

SetRouteEconomy(r, clamp, ttl) ==
  /\ Edit(r, [route[r] EXCEPT !.clamp = clamp, !.ttl = ttl])
  /\ UNCHANGED rows

DeleteRouteOnly(r) == Edit(r, [route[r] EXCEPT !.live = FALSE]) /\ UNCHANGED rows

(* The cached answers go with their route (ON DELETE CASCADE).              *)
DeleteRoute(r) ==
  /\ Edit(r, [route[r] EXCEPT !.live = FALSE])
  /\ rows' = {x \in rows : x.rid # r}

PruneRows ==
  /\ rows' = {x \in rows : x.expires > clock} /\ rows' # rows
  /\ UNCHANGED <<clock, route, call, edits>>

-----------------------------------------------------------------------------
(* Of two requests that ask the same at once both may pay, but the table    *)
(* never holds two answers to one question, nor any of a deleted route     *)
(* (cache_put, ON DELETE CASCADE).                                         *)
OneAnswerEach ==
  /\ \A x, y \in rows : x.rid = y.rid /\ x.hash = y.hash => x = y
  /\ \A x \in rows : route[x.rid].live

(* An answer filed under a route came from that route's chain, unless the   *)
(* name changed hands between the two lookups of the handler that filed it *)
(* (handlers.rs: resolve_targets_with_strategy, then route_economy).       *)
FiledUnderItsRoute == \A x \in rows : x.answer.from = x.rid \/ x.torn

Served(q) == call[q].pc = "lookup" /\ call'[q].pc = "over"

(* "Exact-match only - no wrong answers": what is served from the cache was *)
(* asked under the identity and the clamp this request would be sent with, *)
(* by a plain request, and is no older than the lifetime it was filed with. *)
HitsAreExact ==
  [][\A q \in Requests : Served(q) =>
       /\ call[q].body.kind = "plain"
       /\ \E x \in rows : /\ x.answer.body = call[q].body
                          /\ x.rid = call[q].rid
                          /\ x.expires > call[q].now]_cacheVars

(* README.md: the identity of the route is prepended to every request.      *)
EveryRequestHasIdentity ==
  [][\A q \in Requests :
       call[q].pc = "idle" /\ call'[q].pc \in {"resolved", "forward"}
         => call'[q].body.identity = route[call'[q].from].identity]_cacheVars
=============================================================================
