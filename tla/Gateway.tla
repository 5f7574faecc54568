------------------------------ MODULE Gateway ------------------------------
(***************************************************************************)
(* A request on its way in: the middleware lets it pass or answers 429     *)
(* (RateLimiter), then its handler works on it (ResponseCache), while time *)
(* passes, the operator edits and the prober prunes both.                  *)
(***************************************************************************)
EXTENDS RateLimiter

CONSTANTS
  Completions   \* the requests for a completion; the others ask for a list

CONSTANTS Routes, Asked, OtherName, Identities, NoIdentity, Kinds, Ttls, Clamps, MaxEdits

ASSUME CacheAssumption ==
  /\ Completions \subseteq Requests
  /\ NoIdentity \in Identities /\ Asked # OtherName
  /\ Ttls \subseteq Nat /\ Clamps \subseteq Nat /\ 0 \in Ttls \cap Clamps
  /\ MaxEdits \in Nat /\ MaxClock \in Nat
  /\ Kinds # {} /\ Kinds \subseteq {"plain", "creative", "escalated", "stream", "native"}

VARIABLES route, rows, call, edits

INSTANCE ResponseCache WITH Requests <- Completions

gatewayVars == <<clock, rpm, window, hit, gate, accepted, latest,
                 route, rows, call, edits>>

Init == LimiterInit /\ CacheInit

TypeOK == LimiterTypeOK /\ CacheTypeOK

(* The locals and the tables of the handlers, all but the clock.            *)
HandlersIdle == UNCHANGED <<route, rows, call, edits>>
LimiterIdle == UNCHANGED <<rpm, window, hit, gate, accepted, latest>>

AtGate(q) == (Unauthorized(q) \/ Authenticate(q) \/ Check(q)) /\ HandlersIdle

(* next.run(request): only a request the middleware let in gets a handler. *)
Handle(q) ==
  /\ gate[q] = "in" /\ LimiterIdle
  /\ \/ \E k \in Kinds, r \in Routes : Resolve(q, k, r)
     \/ NotFound(q)
     \/ \E r \in Routes : Economy(q, r)
     \/ NoEconomy(q) \/ Lookup(q) \/ Forwarded(q) \/ Exhausted(q) \/ Put(q)

(* A new ceiling is an edit like those of routes.                           *)
Operator ==
  \/ /\ edits < MaxEdits /\ edits' = edits + 1
     /\ (\E l \in Limits : SetLimit(l)) /\ UNCHANGED <<route, rows, call>>
  \/ /\ LimiterIdle
     /\ \E r \in Routes :
          \/ \E n \in {Asked, OtherName}, i \in Identities : UpdateRoute(r, n, i)
          \/ \E c \in Clamps, t \in Ttls : SetRouteEconomy(r, c, t)
          \/ DeleteRoute(r)

Prober == (Prune /\ HandlersIdle) \/ (PruneRows /\ LimiterIdle)

Next ==
  \/ \E q \in Requests : AtGate(q)
  \/ \E q \in Completions : Handle(q)
  \/ Operator \/ Prober
  \/ Tick /\ HandlersIdle

Spec == Init /\ [][Next]_gatewayVars
=============================================================================
