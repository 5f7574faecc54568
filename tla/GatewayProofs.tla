--------------------------- MODULE GatewayProofs ---------------------------
(***************************************************************************)
(* What the exact cache guarantees for any number of requests, routes and  *)
(* edits and for every lifetime, behind a limiter that may do what it does;*)
(* and what the sliding window guarantees for any number of requests, any  *)
(* ceilings, and however their stamps overtake each other at the mutex.    *)
(***************************************************************************)
EXTENDS Gateway, FiniteSetTheorems, SequenceTheorems, WellFoundedInduction, TLAPS

(* What the locals of one handler always say: the row it will file belongs  *)
(* to the route it answers from, unless the name moved between its two      *)
(* lookups, and what it hashed is what it sends.                           *)
CallSound(c) ==
  /\ c.torn \/ c.rid = c.from
  /\ c.pc \in {"lookup", "store"} => c.key
  /\ c.key => c.body.kind = "plain" /\ c.hash = c.body

RowSound(x) ==
  /\ x.answer.from = x.rid \/ x.torn
  /\ x.answer.body = x.hash

CacheInv ==
  /\ CacheTypeOK
  /\ \A q \in Completions : CallSound(call[q])
  /\ \A x \in rows : RowSound(x)
  /\ OneAnswerEach

-----------------------------------------------------------------------------
(* The locals.                                                              *)

LEMMA BlankSound ==
  ASSUME NEW r \in Routes
  PROVE  Blank(r) \in Calls /\ CallSound(Blank(r))
<1> DEFINE k == CHOOSE x \in Kinds : TRUE
<1>1. k \in Kinds
  BY CacheAssumption
<1> HIDE DEF k
<1>2. [kind |-> k, identity |-> NoIdentity, clamp |-> 0] \in Bodies
  BY <1>1, CacheAssumption DEF Bodies
<1>3. 0 \in 0 .. MaxClock
  BY CacheAssumption
<1> QED
  BY <1>1, <1>2, <1>3, CacheAssumption DEF Blank, Calls, CallSound, k

LEMMA OverSound ==
  ASSUME CacheInv, NEW q \in Completions
  PROVE  Over(q) \in Calls /\ CallSound(Over(q)) /\ Over(q).pc = "over"
<1>1. call[q].from \in Routes
  BY DEF CacheInv, CacheTypeOK, Calls
<1> QED
  BY <1>1, BlankSound DEF Over, Calls, CallSound

(* A handler's step changes its own locals, and perhaps the table.          *)
LEMMA BecomeKeeps ==
  ASSUME CacheInv, NEW q \in Completions, NEW c \in Calls, CallSound(c), Become(q, c)
  PROVE  /\ call' \in [Completions -> Calls] /\ call'[q] = c
         /\ \A p \in Completions : CallSound(call'[p])
         /\ UNCHANGED <<clock, route, edits>>
BY DEF CacheInv, CacheTypeOK, Become

(* A step of a handler that files nothing.                                  *)
LEMMA BecomeWithoutFiling ==
  ASSUME CacheInv, NEW q \in Completions, NEW c \in Calls, CallSound(c), Become(q, c),
         rows' \subseteq rows
  PROVE  CacheInv'
<1>1. /\ call' \in [Completions -> Calls] /\ \A p \in Completions : CallSound(call'[p])
      /\ UNCHANGED <<clock, route, edits>>
  BY BecomeKeeps
<1>2. CacheTypeOK'
  BY <1>1 DEF CacheInv, CacheTypeOK
<1>3. OneAnswerEach' /\ \A x \in rows' : RowSound(x)
  BY <1>1 DEF CacheInv, OneAnswerEach
<1> QED
  BY <1>1, <1>2, <1>3 DEF CacheInv

-----------------------------------------------------------------------------
(* The steps of a handler.                                                  *)

LEMMA ResolveKeeps ==
  ASSUME CacheInv, NEW q \in Completions, NEW k \in Kinds, NEW r \in Routes, Resolve(q, k, r)
  PROVE  CacheInv'
<1> DEFINE pc == IF k \in {"stream", "native"} THEN "forward" ELSE "resolved"
           body == [kind |-> k, clamp |-> 0, identity |-> Identity(k, r)]
           c == [call[q] EXCEPT !.pc = pc, !.from = r, !.rid = r, !.ttl = 0, !.key = FALSE,
                                !.body = body]
<1>1. Become(q, c) /\ rows' = rows
  BY DEF Resolve
<1>2. call[q] \in Calls
  BY DEF CacheInv, CacheTypeOK
<1>3. body \in Bodies
  BY CacheAssumption DEF CacheInv, CacheTypeOK, RouteRows, Identity, Bodies
<1>4. pc \in {"forward", "resolved"}
  OBVIOUS
<1> HIDE DEF pc, body
<1>5. c \in Calls
  BY <1>2, <1>3, <1>4, CacheAssumption DEF Calls
<1>6. CallSound(c)
  BY <1>2, <1>4 DEF CallSound, Calls
<1> QED
  BY <1>1, <1>5, <1>6, BecomeWithoutFiling

LEMMA EconomyKeeps ==
  ASSUME CacheInv, NEW q \in Completions, NEW r \in Routes, Economy(q, r)
  PROVE  CacheInv'
<1> DEFINE body == Clamped(call[q].body, r)
           torn == r # call[q].from
           c == [call[q] EXCEPT !.pc = "lookup", !.body = body, !.hash = Hash(body),
                                !.key = TRUE, !.rid = r, !.ttl = route[r].ttl,
                                !.now = clock, !.torn = torn]
<1>1. rows' = rows
  BY DEF Economy
<1>2. call[q] \in Calls /\ route[r] \in RouteRows /\ clock \in 0 .. MaxClock
  BY DEF CacheInv, CacheTypeOK
<1>3. body \in Bodies /\ torn \in BOOLEAN
  BY <1>2 DEF Clamped, Calls, Bodies, RouteRows
<1>4. CASE body.kind = "plain" /\ Become(q, c)
  <2>1. Hash(body) = body
    BY <1>4 DEF Hash
  <2>2. torn \/ r = call[q].from
    OBVIOUS
  <2> HIDE DEF body, torn
  <2>3. c \in Calls
    BY <1>2, <1>3, <2>1 DEF Calls, RouteRows
  <2>4. CallSound(c)
    BY <1>2, <1>4, <2>1, <2>2 DEF CallSound, Calls
  <2> QED
    BY <1>1, <1>4, <2>3, <2>4, BecomeWithoutFiling
<1>5. CASE Become(q, Over(q))
  BY <1>1, <1>5, OverSound, BecomeWithoutFiling
<1> QED
  BY <1>4, <1>5 DEF Economy, Cacheable

LEMMA LookupKeeps ==
  ASSUME CacheInv, NEW q \in Completions, Lookup(q)
  PROVE  CacheInv'
<1> DEFINE c == [call[q] EXCEPT !.pc = "forward", !.now = 0]
<1>1. rows' \subseteq rows /\ (Become(q, c) \/ Become(q, Over(q)))
  BY DEF Lookup
<1>2. CASE Become(q, c)
  <2>1. call[q] \in Calls /\ CallSound(call[q])
    BY DEF CacheInv, CacheTypeOK
  <2>2. 0 \in 0 .. MaxClock
    BY CacheAssumption
  <2>3. c \in Calls
    BY <2>1, <2>2 DEF Calls
  <2>4. CallSound(c)
    BY <2>1 DEF CallSound, Calls
  <2> QED
    BY <1>1, <1>2, <2>3, <2>4, BecomeWithoutFiling
<1>3. CASE Become(q, Over(q))
  BY <1>1, <1>3, OverSound, BecomeWithoutFiling
<1> QED
  BY <1>1, <1>2, <1>3

LEMMA ForwardedKeeps ==
  ASSUME CacheInv, NEW q \in Completions, Forwarded(q)
  PROVE  CacheInv'
<1> DEFINE c == [call[q] EXCEPT !.pc = "store"]
<1>1. rows' = rows /\ ((call[q].key /\ Become(q, c)) \/ Become(q, Over(q)))
  BY DEF Forwarded
<1>2. CASE call[q].key /\ Become(q, c)
  <2>1. call[q] \in Calls /\ CallSound(call[q])
    BY DEF CacheInv, CacheTypeOK
  <2>2. c \in Calls /\ CallSound(c)
    BY <1>2, <2>1 DEF CallSound, Calls
  <2> QED
    BY <1>1, <1>2, <2>2, BecomeWithoutFiling
<1>3. CASE Become(q, Over(q))
  BY <1>1, <1>3, OverSound, BecomeWithoutFiling
<1> QED
  BY <1>1, <1>2, <1>3

(* The row filed replaces the one with its key and has a live route.        *)
LEMMA PutKeeps ==
  ASSUME CacheInv, NEW q \in Completions, Put(q)
  PROVE  CacheInv'
<1> DEFINE c == call[q]
           row == [rid |-> c.rid, hash |-> c.hash, torn |-> c.torn,
                   answer |-> [from |-> c.from, body |-> c.body],
                   created |-> clock, expires |-> clock + c.ttl]
           rest == {x \in rows : <<x.rid, x.hash>> # <<c.rid, c.hash>>}
<1>1. c \in Calls /\ CallSound(c) /\ c.pc = "store" /\ clock \in 0 .. MaxClock
  BY DEF CacheInv, CacheTypeOK, Put
<1>2. c.rid \in Routes /\ c.hash \in Bodies /\ c.from \in Routes /\ c.body \in Bodies
  BY <1>1 DEF Calls
<1>3. /\ call' \in [Completions -> Calls] /\ \A p \in Completions : CallSound(call'[p])
      /\ UNCHANGED <<clock, route, edits>>
  BY OverSound, BecomeKeeps DEF Put
<1>4. CASE ~route[c.rid].live
  <2>1. rows' = rows /\ Become(q, Over(q))
    BY <1>4 DEF Put
  <2> QED
    BY <2>1, OverSound, BecomeWithoutFiling
<1>5. CASE route[c.rid].live
  <2>1. rows' = rest \cup {row}
    BY <1>5 DEF Put
  <2>2. row \in CacheRows
    <3>1. clock + c.ttl \in Nat
      BY <1>1, CacheAssumption DEF Calls
    <3> QED
      BY <1>1, <1>2, <3>1 DEF CacheRows, Answers, Calls
  <2>3. row.rid = c.rid /\ row.hash = c.hash
    OBVIOUS
  <2>4. RowSound(row)
    BY <1>1 DEF CallSound, RowSound
  <2> HIDE DEF row, c
  <2>5. CacheTypeOK'
    BY <1>3, <2>1, <2>2 DEF CacheInv, CacheTypeOK
  <2>6. \A x \in rows' : RowSound(x)
    BY <2>1, <2>4 DEF CacheInv
  <2>7. \A x, y \in rows' : x.rid = y.rid /\ x.hash = y.hash => x = y
    BY <2>1, <2>3 DEF CacheInv, OneAnswerEach
  <2>8. \A x \in rows' : route'[x.rid].live
    BY <1>3, <1>5, <2>1, <2>3 DEF CacheInv, OneAnswerEach
  <2> QED
    BY <1>3, <2>5, <2>6, <2>7, <2>8 DEF CacheInv, OneAnswerEach
<1> QED
  BY <1>4, <1>5

LEMMA HandleKeeps ==
  ASSUME CacheInv, NEW q \in Completions, Handle(q)
  PROVE  CacheInv'
<1>1. CASE NotFound(q) \/ NoEconomy(q) \/ Exhausted(q)
  <2>1. Become(q, Over(q)) /\ rows' = rows
    BY <1>1 DEF NotFound, NoEconomy, Exhausted
  <2> QED
    BY <2>1, OverSound, BecomeWithoutFiling
<1> QED
  BY <1>1, ResolveKeeps, EconomyKeeps, LookupKeeps, ForwardedKeeps, PutKeeps DEF Handle

-----------------------------------------------------------------------------
(* Everybody else.                                                          *)

(* An edit that deletes no route, or takes the answers along with it.       *)
LEMMA EditKeeps ==
  ASSUME CacheInv, NEW r \in Routes, NEW row \in RouteRows, Edit(r, row), rows' \subseteq rows,
         row.live \/ \A x \in rows' : x.rid # r
  PROVE  CacheInv'
<1>1. /\ route' = [route EXCEPT ![r] = row] /\ edits' = edits + 1 /\ edits' \in 0 .. MaxEdits
      /\ UNCHANGED <<clock, call>>
  <2>1. edits \in 0 .. MaxEdits /\ edits < MaxEdits /\ edits' = edits + 1
    BY DEF CacheInv, CacheTypeOK, Edit
  <2>2. edits' \in 0 .. MaxEdits
    BY <2>1, CacheAssumption
  <2> QED
    BY <2>2 DEF Edit
<1>2. CacheTypeOK'
  BY <1>1 DEF CacheInv, CacheTypeOK
<1>3. \A x \in rows' : route'[x.rid].live
  <2> TAKE x \in rows'
  <2>1. x.rid \in Routes
    BY DEF CacheInv, CacheTypeOK, CacheRows
  <2>2. route \in [Routes -> RouteRows] /\ route[x.rid].live
    BY DEF CacheInv, CacheTypeOK, OneAnswerEach
  <2> QED
    BY <1>1, <2>1, <2>2
<1> QED
  BY <1>1, <1>2, <1>3 DEF CacheInv, OneAnswerEach

LEMMA OperatorKeeps ==
  ASSUME CacheInv, Operator
  PROVE  CacheInv'
<1>1. ASSUME edits < MaxEdits, edits' = edits + 1, NEW l \in Limits, SetLimit(l),
             UNCHANGED <<route, rows, call>>
      PROVE  CacheInv'
  <2>1. edits' \in 0 .. MaxEdits
    BY <1>1, CacheAssumption DEF CacheInv, CacheTypeOK
  <2> QED
    BY <1>1, <2>1 DEF SetLimit, CacheInv, CacheTypeOK, OneAnswerEach
<1>2. ASSUME NEW r \in Routes, NEW n \in {Asked, OtherName}, NEW i \in Identities,
             UpdateRoute(r, n, i)
      PROVE  CacheInv'
  <2> DEFINE row == [route[r] EXCEPT !.name = n, !.identity = i]
  <2>1. route[r] \in RouteRows /\ Edit(r, row) /\ rows' = rows /\ route[r].live
    BY <1>2 DEF UpdateRoute, Edit, CacheInv, CacheTypeOK
  <2>2. row \in RouteRows /\ row.live
    BY <2>1 DEF RouteRows
  <2> QED
    BY <2>1, <2>2, EditKeeps
<1>3. ASSUME NEW r \in Routes, NEW c \in Clamps, NEW t \in Ttls, SetRouteEconomy(r, c, t)
      PROVE  CacheInv'
  <2> DEFINE row == [route[r] EXCEPT !.clamp = c, !.ttl = t]
  <2>1. route[r] \in RouteRows /\ Edit(r, row) /\ rows' = rows /\ route[r].live
    BY <1>3 DEF SetRouteEconomy, Edit, CacheInv, CacheTypeOK
  <2>2. row \in RouteRows /\ row.live
    BY <2>1 DEF RouteRows
  <2> QED
    BY <2>1, <2>2, EditKeeps
<1>4. ASSUME NEW r \in Routes, DeleteRoute(r)
      PROVE  CacheInv'
  <2> DEFINE row == [route[r] EXCEPT !.live = FALSE]
  <2>1. route[r] \in RouteRows /\ Edit(r, row) /\ rows' = {x \in rows : x.rid # r}
    BY <1>4 DEF DeleteRoute, CacheInv, CacheTypeOK
  <2>2. row \in RouteRows
    BY <2>1 DEF RouteRows
  <2> QED
    BY <2>1, <2>2, EditKeeps
<1> QED
  BY <1>1, <1>2, <1>3, <1>4 DEF Operator

LEMMA InitCacheInv == Init => CacheInv
<1> SUFFICES ASSUME Init PROVE CacheInv
  OBVIOUS
<1>1. PICK r \in Routes, t \in Ttls, c \in Clamps, i \in Identities :
        /\ route = [x \in Routes |->
                     [live |-> TRUE, name |-> IF x = r THEN Asked ELSE OtherName,
                      identity |-> i, clamp |-> c, ttl |-> t]]
        /\ call = [q \in Completions |-> Blank(r)]
  BY DEF Init, CacheInit
<1>2. clock = 0 /\ rows = {} /\ edits = 0
  BY DEF Init, CacheInit
<1>3. route \in [Routes -> RouteRows]
  BY <1>1 DEF RouteRows
<1>4. 0 \in 0 .. MaxClock /\ 0 \in 0 .. MaxEdits
  BY CacheAssumption
<1> QED
  BY <1>1, <1>2, <1>3, <1>4, BlankSound DEF CacheInv, CacheTypeOK, OneAnswerEach

LEMMA StepCacheInv == CacheInv /\ [Next]_gatewayVars => CacheInv'
<1> SUFFICES ASSUME CacheInv, [Next]_gatewayVars PROVE CacheInv'
  OBVIOUS
<1>1. ASSUME NEW q \in Completions, Handle(q)
      PROVE  CacheInv'
  BY <1>1, HandleKeeps
<1>2. CASE Operator
  BY <1>2, OperatorKeeps
<1>3. CASE UNCHANGED <<clock, route, call, edits>> /\ rows' \subseteq rows
  BY <1>3 DEF CacheInv, CacheTypeOK, OneAnswerEach
<1>4. ASSUME NEW q \in Requests, AtGate(q)
      PROVE  CacheInv'
  BY <1>3, <1>4 DEF AtGate, HandlersIdle, Unauthorized, Authenticate, Check
<1>5. CASE Prober \/ UNCHANGED gatewayVars
  BY <1>3, <1>5 DEF Prober, HandlersIdle, Prune, PruneRows, gatewayVars
<1>6. CASE Tick /\ HandlersIdle
  <2>1. clock' \in 0 .. MaxClock
    BY <1>6, CacheAssumption DEF Tick, CacheInv, CacheTypeOK
  <2> QED
    BY <1>6, <2>1 DEF HandlersIdle, CacheInv, CacheTypeOK, OneAnswerEach
<1> QED
  BY <1>1, <1>2, <1>4, <1>5, <1>6 DEF Next

-----------------------------------------------------------------------------
(* The rows of response_cache and the locals of the handlers that read and  *)
(* write it keep CacheInv (handlers.rs, storage/mod.rs), whatever the       *)
(* operator does between the steps of a request.                            *)
THEOREM CacheBookkeeping == Spec => []CacheInv
BY InitCacheInv, StepCacheInv, PTL DEF Spec

(* No question has two answers on file and no deleted route has any.        *)
THEOREM NothingFiledTwice == Spec => []OneAnswerEach
<1>1. CacheInv => OneAnswerEach
  BY DEF CacheInv
<1> QED
  BY <1>1, CacheBookkeeping, PTL

(* An answer is on file under a route whose chain did not give it only when *)
(* the name moved between the handler's two lookups.                        *)
THEOREM FiledWhereItBelongs == Spec => []FiledUnderItsRoute
<1>1. CacheInv => FiledUnderItsRoute
  BY DEF CacheInv, RowSound, FiledUnderItsRoute
<1> QED
  BY <1>1, CacheBookkeeping, PTL

-----------------------------------------------------------------------------
(* Answers from the cache.                                                  *)

LEMMA OnlyHandlersMove ==
  ASSUME CacheInv, [Next]_gatewayVars, NEW q \in Completions, call'[q] # call[q]
  PROVE  Handle(q)
<1>1. ASSUME NEW p \in Completions, Handle(p), p # q
      PROVE  FALSE
  <2>1. \E c : Become(p, c)
    BY <1>1 DEF Handle, Resolve, NotFound, Economy, NoEconomy, Lookup, Forwarded, Exhausted, Put
  <2> QED
    BY <1>1, <2>1 DEF Become, CacheInv, CacheTypeOK
<1>2. CASE Operator
  <2>1. call' = call
    BY <1>2 DEF Operator, Edit, UpdateRoute, SetRouteEconomy, DeleteRoute
  <2> QED
    BY <2>1
<1>3. ASSUME NEW p \in Requests, AtGate(p)
      PROVE  FALSE
  BY <1>3 DEF AtGate, HandlersIdle
<1>4. CASE Prober \/ (Tick /\ HandlersIdle) \/ UNCHANGED gatewayVars
  <2>1. call' = call
    BY <1>4 DEF Prober, Prune, PruneRows, HandlersIdle, gatewayVars
  <2> QED
    BY <2>1
<1>5. ASSUME NEW p \in Completions, Handle(p)
      PROVE  Handle(q)
  BY <1>1, <1>5
<1> QED
  BY <1>2, <1>3, <1>4, <1>5 DEF Next

(* A hit answers with what the same body was answered, while it is fresh.   *)
LEMMA ServedExactly ==
  ASSUME CacheInv, [Next]_gatewayVars, NEW q \in Completions, Served(q)
  PROVE  /\ call[q].body.kind = "plain"
         /\ \E x \in rows : /\ x.answer.body = call[q].body
                            /\ x.rid = call[q].rid
                            /\ x.expires > call[q].now
<1>1. Lookup(q)
  <2>1. Handle(q)
    BY OnlyHandlersMove DEF Served
  <2> QED
    BY <2>1 DEF Served, Handle, Resolve, NotFound, Economy, NoEconomy, Forwarded, Exhausted, Put
<1>2. CallSound(call[q]) /\ call[q] \in Calls /\ call \in [Completions -> Calls]
  BY DEF CacheInv, CacheTypeOK
<1>3. call[q].body.kind = "plain" /\ call[q].hash = call[q].body
  BY <1>2 DEF CallSound, Served
<1>4. Matching(q, call[q].now) # {}
  <2> SUFFICES ASSUME Become(q, [call[q] EXCEPT !.pc = "forward", !.now = 0]) PROVE FALSE
    BY <1>1 DEF Lookup
  <2>1. call'[q] = [call[q] EXCEPT !.pc = "forward", !.now = 0]
    BY <1>2 DEF Become
  <2>2. call'[q].pc = "forward"
    BY <1>2, <2>1 DEF Calls
  <2> QED
    BY <2>2 DEF Served
<1>5. PICK x \in rows : x.rid = call[q].rid /\ x.hash = call[q].hash /\ x.expires > call[q].now
  BY <1>4 DEF Matching
<1>6. x.answer.body = x.hash
  BY DEF CacheInv, RowSound
<1> QED
  BY <1>3, <1>5, <1>6

(* What is served from the cache was asked under the identity and the clamp *)
(* this request would be sent with, and is within its lifetime (cache_get,  *)
(* cache_hash), across every edit between the asking and the serving.       *)
THEOREM ExactHits == Spec => HitsAreExact
<1>1. CacheInv /\ [Next]_gatewayVars =>
        [\A q \in Completions : Served(q) =>
           /\ call[q].body.kind = "plain"
           /\ \E x \in rows : /\ x.answer.body = call[q].body
                              /\ x.rid = call[q].rid
                              /\ x.expires > call[q].now]_cacheVars
  BY ServedExactly
<1> QED
  BY <1>1, CacheBookkeeping, PTL DEF Spec, HitsAreExact

-----------------------------------------------------------------------------
(* The sliding window.                                                       *)

Recent == RecentHits(accepted, latest - Window)

(* Every accepted hit that still counts has a place of its own in the       *)
(* window.                                                                  *)
Placed(g) ==
  /\ g \in [Recent -> DOMAIN window]
  /\ \A i, j \in Recent : g[i] = g[j] => i = j
  /\ \A i \in Recent : window[g[i]] = accepted[i]

WindowInv ==
  /\ LimiterTypeOK
  /\ latest <= clock
  /\ \A q \in Requests : hit[q].stamp <= clock /\ (gate[q] = "stamped" => hit[q].limit > 0)
  /\ \A i \in DOMAIN window : \E j \in DOMAIN accepted : accepted[j] = window[i]
  /\ \E g : Placed(g)

-----------------------------------------------------------------------------
(* Eviction.                                                                *)

LEMMA LeastElement ==
  ASSUME NEW S \in SUBSET Nat, S # {}
  PROVE  \E x \in S : \A y \in S : x <= y
<1>1. PICK x \in S : \A y \in S : ~(<<y, x>> \in OpToRel(<, Nat))
  BY NatLessThanWellFounded, WFMin
<1>2. \A y \in S : ~(y < x)
  BY <1>1 DEF OpToRel
<1> QED
  BY <1>2

(* What Evict drops is at least Window old; what it keeps begins with a     *)
(* younger stamp.                                                           *)
LEMMA EvictDrops ==
  ASSUME NEW w \in Seq(0 .. MaxClock), NEW now \in Nat
  PROVE  \E k \in 0 .. Len(w) :
           /\ Evict(w, now) \in Seq(0 .. MaxClock)
           /\ Len(Evict(w, now)) = Len(w) - k
           /\ \A i \in 1 .. Len(w) - k : Evict(w, now)[i] = w[i + k]
           /\ \A i \in 1 .. k : Age(now, w[i]) >= Window
           /\ k < Len(w) => Age(now, w[k + 1]) < Window
<1> DEFINE fresh == {i \in DOMAIN w : Age(now, w[i]) < Window}
<1>1. \A i \in 1 .. Len(w) : Age(now, w[i]) \in Nat
  BY LimiterAssumption DEF Age
<1>2. CASE fresh = {}
  <2>1. Evict(w, now) = << >>
    BY <1>2 DEF Evict
  <2>2. \A i \in 1 .. Len(w) : Age(now, w[i]) >= Window
    BY <1>1, <1>2, LimiterAssumption
  <2> WITNESS Len(w) \in 0 .. Len(w)
  <2> QED
    BY <2>1, <2>2
<1>3. CASE fresh # {}
  <2> DEFINE m == CHOOSE i \in fresh : \A j \in fresh : i <= j
  <2>1. fresh \in SUBSET Nat
    OBVIOUS
  <2>2. m \in fresh /\ \A j \in fresh : m <= j
    BY <1>3, <2>1, LeastElement
  <2>3. Evict(w, now) = SubSeq(w, m, Len(w))
    BY <1>3 DEF Evict
  <2>4. m \in 1 .. Len(w) /\ Len(w) \in Nat
    BY <2>2
  <2> HIDE DEF m
  <2>5. ASSUME NEW i \in 1 .. m - 1
        PROVE  Age(now, w[i]) >= Window
    <3>1. i \in 1 .. Len(w) /\ ~(m <= i)
      BY <2>4
    <3>2. i \notin fresh
      BY <2>2, <3>1
    <3> QED
      BY <1>1, <3>1, <3>2, LimiterAssumption
  <2>6. Age(now, w[m]) < Window
    BY <2>2
  <2>7. /\ Evict(w, now) \in Seq(0 .. MaxClock)
        /\ Len(Evict(w, now)) = Len(w) - m + 1
        /\ \A i \in 1 .. Len(w) - m + 1 : Evict(w, now)[i] = w[m + i - 1]
    <3>1. ASSUME NEW i \in m .. Len(w)
          PROVE  w[i] \in 0 .. MaxClock
      <4>1. i \in 1 .. Len(w)
        BY <2>4
      <4> QED
        BY <4>1, ElementOfSeq
    <3> HIDE DEF fresh
    <3> QED
      BY <2>3, <2>4, <3>1, SubSeqProperties
  <2>8. m - 1 \in 0 .. Len(w)
    BY <2>4
  <2> HIDE DEF fresh
  <2>9. /\ Len(Evict(w, now)) = Len(w) - (m - 1)
        /\ \A i \in 1 .. Len(w) - (m - 1) : Evict(w, now)[i] = w[i + (m - 1)]
        /\ m - 1 < Len(w) => Age(now, w[m - 1 + 1]) < Window
    BY <2>4, <2>6, <2>7
  <2> QED
    BY <2>5, <2>7, <2>8, <2>9
<1> QED
  BY <1>2, <1>3

-----------------------------------------------------------------------------
(* The limiter's steps.                                                     *)

LEMMA HitType ==
  ASSUME WindowInv, NEW q \in Requests
  PROVE  /\ hit[q].limit \in Nat /\ hit[q].stamp \in 0 .. MaxClock /\ hit[q].stamp \in Nat
         /\ window \in Seq(0 .. MaxClock)
<1>1. hit[q] \in Hits /\ window \in Seq(0 .. MaxClock)
  BY DEF WindowInv, LimiterTypeOK
<1>2. hit[q].limit \in Limits /\ hit[q].stamp \in 0 .. MaxClock
  BY <1>1 DEF Hits
<1>3. Limits \subseteq Nat /\ MaxClock \in Nat
  BY LimiterAssumption
<1>4. hit[q].limit \in Nat
  BY <1>2, <1>3
<1>5. hit[q].stamp \in Nat
  BY <1>2, <1>3
<1> QED
  BY <1>1, <1>2, <1>4, <1>5

LEMMA CheckKeeps ==
  ASSUME WindowInv, NEW q \in Requests, Check(q)
  PROVE  WindowInv'
<1> DEFINE kept == Evict(window, hit[q].stamp)
           full == Len(kept) >= hit[q].limit
           s == hit[q].stamp
<1>1. /\ hit[q] \in Hits /\ s \in 0 .. MaxClock /\ s <= clock /\ hit[q].limit \in Nat
      /\ clock \in 0 .. MaxClock /\ latest \in 0 .. MaxClock /\ window \in Seq(0 .. MaxClock)
      /\ accepted \in Seq(0 .. MaxClock)
  BY HitType DEF WindowInv, LimiterTypeOK
<1>2. /\ gate' = [gate EXCEPT ![q] = IF full THEN "denied" ELSE "in"]
      /\ window' = IF full THEN kept ELSE Append(kept, s)
      /\ accepted' = IF full THEN accepted ELSE Append(accepted, s)
      /\ latest' = IF s > latest THEN s ELSE latest
      /\ hit' = [hit EXCEPT ![q] = NoHit]
      /\ UNCHANGED <<clock, rpm>>
  BY DEF Check
<1>3. PICK k \in 0 .. Len(window) :
        /\ kept \in Seq(0 .. MaxClock) /\ Len(kept) = Len(window) - k
        /\ \A i \in 1 .. Len(window) - k : kept[i] = window[i + k]
        /\ \A i \in 1 .. k : Age(s, window[i]) >= Window
  <2>1. s \in Nat
    BY <1>1
  <2> QED
    BY <1>1, <2>1, EvictDrops
<1> HIDE DEF kept, full, s
<1>4. latest' \in 0 .. MaxClock /\ latest' >= latest /\ latest' >= s /\ latest' <= clock'
  BY <1>1, <1>2 DEF WindowInv
<1>5. LimiterTypeOK'
  <2>1. NoHit \in Hits
    BY <1>1, LimiterAssumption DEF NoHit, Hits
  <2>2. window' \in Seq(0 .. MaxClock) /\ accepted' \in Seq(0 .. MaxClock)
    <3>1. CASE full
      BY <1>1, <1>2, <1>3, <3>1
    <3>2. CASE ~full
      <4>1. window' = Append(kept, s) /\ accepted' = Append(accepted, s)
        BY <1>2, <3>2
      <4> QED
        BY <1>1, <1>3, <4>1
    <3> QED
      BY <3>1, <3>2
  <2> QED
    BY <1>2, <1>4, <2>1, <2>2 DEF WindowInv, LimiterTypeOK
<1>6. \A p \in Requests : hit'[p].stamp <= clock' /\ (gate'[p] = "stamped" => hit'[p].limit > 0)
  <2> TAKE p \in Requests
  <2>1. CASE p = q
    <3>1. hit'[p] = NoHit /\ gate'[p] # "stamped"
      BY <1>2, <2>1 DEF WindowInv, LimiterTypeOK
    <3> QED
      BY <1>1, <1>2, <3>1 DEF NoHit
  <2>2. CASE p # q
    <3>1. hit'[p] = hit[p] /\ gate'[p] = gate[p] /\ clock' = clock
      BY <1>2, <2>2 DEF WindowInv, LimiterTypeOK
    <3> QED
      BY <3>1 DEF WindowInv
  <2> QED
    BY <2>1, <2>2
<1>7. \A i \in DOMAIN kept : kept[i] = window[i + k] /\ i + k \in DOMAIN window
  BY <1>1, <1>3
<1>8. \A i \in DOMAIN window' : \E j \in DOMAIN accepted' : accepted'[j] = window'[i]
  <2> TAKE i \in DOMAIN window'
  <2>1. CASE i \in DOMAIN kept
    <3>1. window'[i] = window[i + k]
      BY <1>2, <1>3, <1>7, <2>1
    <3>2. PICK j \in DOMAIN accepted : accepted[j] = window[i + k]
      BY <1>7, <2>1 DEF WindowInv
    <3>3. j \in DOMAIN accepted' /\ accepted'[j] = accepted[j]
      BY <1>1, <1>2, <3>2
    <3> QED
      BY <3>1, <3>2, <3>3
  <2>2. CASE i \notin DOMAIN kept
    <3>1. ~full /\ i = Len(kept) + 1 /\ window'[i] = s
      BY <1>2, <1>3, <2>2
    <3>2. Len(accepted) + 1 \in DOMAIN accepted' /\ accepted'[Len(accepted) + 1] = s
      BY <1>1, <1>2, <3>1
    <3> QED
      BY <3>1, <3>2
  <2> QED
    BY <2>1, <2>2
<1>9. \E g : Placed(g)'
  <2>1. PICK g : Placed(g)
    BY DEF WindowInv
  <2>2. ASSUME NEW i \in Recent', i \in DOMAIN accepted
        PROVE  i \in Recent /\ accepted'[i] = accepted[i] /\ g[i] \in k + 1 .. Len(window)
    <3>1. accepted'[i] = accepted[i] /\ accepted[i] \in 0 .. MaxClock
      <4>1. i \in 1 .. Len(accepted) /\ accepted[i] \in 0 .. MaxClock
        <5>1. i \in 1 .. Len(accepted)
          BY <1>1, <2>2
        <5> QED
          BY <1>1, <5>1, ElementOfSeq
      <4>2. CASE full
        BY <1>2, <4>1, <4>2
      <4>3. CASE ~full
        <5>1. accepted' = Append(accepted, s)
          BY <1>2, <4>3
        <5> QED
          BY <1>1, <4>1, <5>1
      <4> QED
        BY <4>1, <4>2, <4>3
    <3>2. accepted[i] > latest' - Window
      BY <2>2, <3>1 DEF Recent, RecentHits
    <3>3. i \in Recent
      BY <1>1, <1>4, <2>2, <3>1, <3>2, LimiterAssumption DEF Recent, RecentHits
    <3>4. g[i] \in DOMAIN window /\ window[g[i]] = accepted[i]
      BY <2>1, <3>3 DEF Placed
    <3>5. Age(s, window[g[i]]) < Window
      BY <1>1, <1>4, <3>1, <3>2, <3>4, LimiterAssumption DEF Age
    <3>6. g[i] \in 1 .. Len(window) /\ Len(window) \in Nat /\ Age(s, window[g[i]]) \in Nat
      BY <1>1, <3>1, <3>4 DEF Age
    <3>7. ~(g[i] <= k)
      BY <1>3, <3>5, <3>6, LimiterAssumption
    <3> QED
      BY <1>3, <3>1, <3>3, <3>6, <3>7
  <2> DEFINE new == Len(accepted) + 1
             h == [i \in Recent' |-> IF i = new THEN Len(kept) + 1 ELSE g[i] - k]
  <2>3. \A i \in Recent' : i \in DOMAIN accepted \/ (i = new /\ ~full)
    BY <1>1, <1>2 DEF Recent, RecentHits
  <2>4. ASSUME NEW i \in Recent', i # new
        PROVE  /\ i \in Recent /\ h[i] = g[i] - k /\ h[i] \in DOMAIN kept /\ g[i] \in Int
               /\ window'[h[i]] = accepted'[i]
    <3>1. /\ i \in Recent /\ accepted'[i] = accepted[i] /\ g[i] \in k + 1 .. Len(window)
          /\ h[i] = g[i] - k
      BY <2>2, <2>3, <2>4
    <3>2. h[i] \in DOMAIN kept /\ h[i] + k = g[i]
      <4>1. g[i] - k \in 1 .. Len(kept) /\ (g[i] - k) + k = g[i]
        <5>1. Len(window) \in Nat
          BY <1>1
        <5> QED
          BY <1>3, <3>1, <5>1
      <4>2. DOMAIN kept = 1 .. Len(kept)
        BY <1>3
      <4> QED
        BY <3>1, <4>1, <4>2
    <3>3. window'[h[i]] = kept[h[i]]
      BY <1>2, <1>3, <3>2
    <3>4. kept[h[i]] = window[g[i]]
      BY <1>7, <3>2
    <3>5. window[g[i]] = accepted[i]
      BY <2>1, <3>1 DEF Placed
    <3> QED
      BY <3>1, <3>2, <3>3, <3>4, <3>5
  <2>5. ASSUME new \in Recent'
        PROVE  /\ h[new] = Len(kept) + 1 /\ h[new] \in DOMAIN window' /\ h[new] \notin DOMAIN kept
               /\ window'[h[new]] = accepted'[new]
    <3>1. ~full
      BY <1>1, <2>3, <2>5
    <3> QED
      BY <1>1, <1>2, <1>3, <2>5, <3>1
  <2>6. DOMAIN kept \subseteq DOMAIN window'
    BY <1>2, <1>3
  <2>7. \A i \in Recent' : h[i] \in DOMAIN window' /\ window'[h[i]] = accepted'[i]
    BY <2>4, <2>5, <2>6
  <2>8. \A i, j \in Recent' : h[i] = h[j] => i = j
    <3> SUFFICES ASSUME NEW i \in Recent', NEW j \in Recent', h[i] = h[j] PROVE i = j
      OBVIOUS
    <3>1. CASE i = new \/ j = new
      BY <2>4, <2>5, <3>1
    <3>2. CASE i # new /\ j # new
      <4>1. g[i] = g[j]
        BY <2>4, <3>2
      <4> QED
        BY <2>1, <2>4, <3>2, <4>1 DEF Placed
    <3> QED
      BY <3>1, <3>2
  <2>9. h \in [Recent' -> DOMAIN window']
    BY <2>7
  <2> HIDE DEF h
  <2> QED
    BY <2>7, <2>8, <2>9 DEF Placed
<1> QED
  BY <1>4, <1>5, <1>6, <1>8, <1>9 DEF WindowInv

(* What prune removes is older than Window, whenever it was accepted.       *)
LEMMA PruneKeeps ==
  ASSUME WindowInv, Prune
  PROVE  WindowInv'
<1> DEFINE young == {i \in DOMAIN window : Age(clock, window[i]) < PruneAge}
           n == Cardinality(young)
<1>1. /\ clock \in 0 .. MaxClock /\ latest \in 0 .. MaxClock /\ latest <= clock
      /\ window \in Seq(0 .. MaxClock) /\ accepted \in Seq(0 .. MaxClock)
  BY DEF WindowInv, LimiterTypeOK
<1>2. /\ latest' = clock /\ UNCHANGED <<clock, rpm, hit, gate, accepted>>
  BY DEF Prune
<1>3. PICK at \in [1 .. n -> young] :
        /\ \A i, j \in DOMAIN at : i < j => at[i] < at[j]
        /\ window' = [i \in DOMAIN at |-> window[at[i]]]
  BY DEF Prune
<1>4. young \in SUBSET (1 .. Len(window)) /\ Len(window) \in Nat /\ DOMAIN window = 1 .. Len(window)
  BY <1>1
<1>5. IsFiniteSet(young) /\ n \in Nat
  <2> HIDE DEF young
  <2>1. IsFiniteSet(1 .. Len(window))
    BY <1>4, FS_Interval
  <2>2. IsFiniteSet(young)
    BY <1>4, <2>1, FS_Subset
  <2> QED
    BY <2>2, FS_CardinalityType
<1> HIDE DEF young, n
<1>6. DOMAIN at = 1 .. n /\ DOMAIN window' = 1 .. n
  BY <1>3
<1>7. ASSUME NEW i \in 1 .. n
      PROVE  at[i] \in DOMAIN window /\ window'[i] = window[at[i]]
  BY <1>3, <1>4, <1>6
<1>8. window' \in Seq(0 .. MaxClock)
  <2>1. \A i \in 1 .. n : window'[i] \in 0 .. MaxClock
    BY <1>1, <1>4, <1>7, ElementOfSeq
  <2>2. window' = [i \in 1 .. n |-> window'[i]]
    BY <1>3, <1>6
  <2>3. window' \in [1 .. n -> 0 .. MaxClock]
    BY <2>1, <2>2
  <2> QED
    BY <1>5, <2>3, SeqDef
<1>9. \A y \in young : \E i \in 1 .. n : at[i] = y
  <2>1. at \in Injection(1 .. n, young)
    <3> SUFFICES ASSUME NEW i \in 1 .. n, NEW j \in 1 .. n, at[i] = at[j] PROVE i = j
      BY <1>3 DEF Injection, IsInjective
    <3>1. at[i] \in Nat
      BY <1>4, <1>7
    <3> QED
      BY <1>3, <1>5, <1>6, <3>1
  <2>2. Cardinality(1 .. n) = n
    BY <1>5, FS_Interval
  <2>3. at \in Surjection(1 .. n, young)
    BY <1>5, <2>1, <2>2, FS_Injection DEF n
  <2> QED
    BY <2>3 DEF Surjection
<1>10. \E g : Placed(g)'
  <2>1. PICK g : Placed(g)
    BY DEF WindowInv
  <2>2. ASSUME NEW i \in Recent'
        PROVE  i \in Recent /\ g[i] \in young /\ window[g[i]] = accepted[i] /\ g[i] \in DOMAIN window
    <3>1. i \in 1 .. Len(accepted) /\ accepted[i] > clock - Window
      BY <1>1, <1>2 DEF Recent, RecentHits
    <3>2. accepted[i] \in 0 .. MaxClock
      BY <1>1, <3>1, ElementOfSeq
    <3>3. i \in Recent
      BY <1>1, <3>1, <3>2, LimiterAssumption DEF Recent, RecentHits
    <3>4. g[i] \in DOMAIN window /\ window[g[i]] = accepted[i]
      BY <2>1, <3>3 DEF Placed
    <3>5. Age(clock, accepted[i]) < PruneAge
      BY <1>1, <3>1, <3>2, LimiterAssumption DEF Age
    <3> QED
      BY <3>3, <3>4, <3>5 DEF young
  <2> DEFINE h == [i \in Recent' |-> CHOOSE m \in 1 .. n : at[m] = g[i]]
  <2>3. \A i \in Recent' : h[i] \in 1 .. n /\ at[h[i]] = g[i]
    BY <1>9, <2>2
  <2>4. DOMAIN h = Recent' /\ h = [i \in Recent' |-> h[i]]
    OBVIOUS
  <2> HIDE DEF h
  <2>5. h \in [Recent' -> DOMAIN window']
    BY <1>6, <2>3, <2>4
  <2>6. \A i, j \in Recent' : h[i] = h[j] => i = j
    BY <2>1, <2>2, <2>3 DEF Placed
  <2>7. \A i \in Recent' : window'[h[i]] = accepted'[i]
    BY <1>2, <1>7, <2>2, <2>3
  <2> QED
    BY <2>5, <2>6, <2>7 DEF Placed
<1>11. \A i \in DOMAIN window' : \E j \in DOMAIN accepted' : accepted'[j] = window'[i]
  BY <1>2, <1>6, <1>7 DEF WindowInv
<1>12. LimiterTypeOK'
  BY <1>1, <1>2, <1>8 DEF WindowInv, LimiterTypeOK
<1> QED
  BY <1>1, <1>2, <1>10, <1>11, <1>12 DEF WindowInv

(* Steps that touch neither the window nor what was accepted.               *)
LEMMA QuietKeeps ==
  ASSUME WindowInv, UNCHANGED <<window, accepted, latest>>, LimiterTypeOK', clock <= clock',
         \A q \in Requests : hit'[q].stamp <= clock' /\ (gate'[q] = "stamped" => hit'[q].limit > 0)
  PROVE  WindowInv'
<1>1. Recent' = Recent
  BY DEF Recent
<1>2. \A g : Placed(g) => Placed(g)'
  BY <1>1 DEF Placed
<1>3. latest' <= clock'
  BY DEF WindowInv, LimiterTypeOK
<1> QED
  BY <1>2, <1>3 DEF WindowInv

LEMMA AuthenticateKeeps ==
  ASSUME WindowInv, NEW q \in Requests, Authenticate(q)
  PROVE  WindowInv'
<1> DEFINE h == [limit |-> rpm, stamp |-> clock]
<1>1. rpm \in Limits /\ rpm \in Nat /\ clock \in 0 .. MaxClock /\ h \in Hits
  BY LimiterAssumption DEF WindowInv, LimiterTypeOK, Hits
<1>2. UNCHANGED <<clock, rpm, window, accepted, latest>>
  BY DEF Authenticate
<1>3. LimiterTypeOK'
  BY <1>1, <1>2 DEF WindowInv, LimiterTypeOK, Authenticate
<1>4. ASSUME NEW p \in Requests
      PROVE  hit'[p].stamp <= clock' /\ (gate'[p] = "stamped" => hit'[p].limit > 0)
  <2>1. CASE p = q /\ rpm > 0
    <3>1. hit'[p] = h
      BY <2>1 DEF Authenticate, WindowInv, LimiterTypeOK
    <3> QED
      BY <1>1, <1>2, <2>1, <3>1
  <2>2. CASE ~(p = q /\ rpm > 0)
    <3>1. hit'[p] = hit[p] /\ (gate'[p] = "stamped" => gate[p] = "stamped")
      BY <2>2 DEF Authenticate, WindowInv, LimiterTypeOK
    <3> QED
      BY <1>2, <3>1 DEF WindowInv
  <2> QED
    BY <2>1, <2>2
<1> QED
  BY <1>1, <1>2, <1>3, <1>4, QuietKeeps

LEMMA InitWindowInv == Init => WindowInv
<1> SUFFICES ASSUME Init PROVE WindowInv
  OBVIOUS
<1>1. LimiterInit
  BY DEF Init
<1>2. 0 \in 0 .. MaxClock /\ NoHit \in Hits
  BY LimiterAssumption DEF NoHit, Hits
<1>3. LimiterTypeOK
  BY <1>1, <1>2 DEF LimiterInit, LimiterTypeOK
<1>4. Recent = {}
  BY <1>1 DEF Recent, RecentHits, LimiterInit
<1>5. Placed([i \in {} |-> i])
  BY <1>4 DEF Placed
<1> QED
  BY <1>1, <1>3, <1>5 DEF WindowInv, LimiterInit, NoHit

LEMMA StepWindowInv == WindowInv /\ [Next]_gatewayVars => WindowInv'
<1> SUFFICES ASSUME WindowInv, [Next]_gatewayVars PROVE WindowInv'
  OBVIOUS
<1>1. ASSUME NEW q \in Requests, AtGate(q)
      PROVE  WindowInv'
  <2>1. CASE Unauthorized(q)
    <3>1. /\ UNCHANGED <<clock, rpm, window, hit, accepted, latest>>
          /\ gate' = [gate EXCEPT ![q] = "denied"]
      BY <2>1 DEF Unauthorized
    <3>2. LimiterTypeOK' /\ clock <= clock'
      BY <3>1 DEF WindowInv, LimiterTypeOK
    <3>3. \A p \in Requests : gate'[p] = "stamped" => gate[p] = "stamped"
      BY <3>1 DEF WindowInv, LimiterTypeOK
    <3> QED
      BY <3>1, <3>2, <3>3, QuietKeeps DEF WindowInv
  <2> QED
    BY <1>1, <2>1, AuthenticateKeeps, CheckKeeps DEF AtGate
<1>2. CASE UNCHANGED limiterVars
  <2>1. UNCHANGED <<clock, rpm, window, hit, gate, accepted, latest>>
    BY <1>2 DEF limiterVars
  <2>2. LimiterTypeOK' /\ clock <= clock'
    BY <2>1 DEF WindowInv, LimiterTypeOK
  <2> QED
    BY <2>1, <2>2, QuietKeeps DEF WindowInv
<1>3. ASSUME NEW q \in Completions, Handle(q)
      PROVE  UNCHANGED limiterVars
  <2>1. clock' = clock
    BY <1>3 DEF Handle, Resolve, NotFound, Economy, NoEconomy, Lookup, Forwarded, Exhausted,
       Put, Become
  <2> QED
    BY <1>3, <2>1 DEF Handle, LimiterIdle, limiterVars
<1>4. CASE Operator
  <2>1. ASSUME NEW l \in Limits, SetLimit(l)
        PROVE  WindowInv'
    <3>1. /\ UNCHANGED <<clock, window, hit, gate, accepted, latest>> /\ rpm' \in Limits
      BY <2>1 DEF SetLimit
    <3>2. LimiterTypeOK' /\ clock <= clock'
      BY <3>1 DEF WindowInv, LimiterTypeOK
    <3> QED
      BY <3>1, <3>2, QuietKeeps DEF WindowInv
  <2>2. CASE LimiterIdle /\ clock' = clock
    BY <1>2, <2>2 DEF LimiterIdle, limiterVars
  <2> QED
    BY <1>4, <2>1, <2>2 DEF Operator, UpdateRoute, SetRouteEconomy, DeleteRoute, Edit
<1>5. CASE Prober
  <2>1. CASE PruneRows /\ LimiterIdle
    BY <1>2, <2>1 DEF PruneRows, LimiterIdle, limiterVars
  <2> QED
    BY <1>5, <2>1, PruneKeeps DEF Prober
<1>6. CASE Tick
  <2>1. /\ UNCHANGED <<rpm, window, hit, gate, accepted, latest>> /\ clock' = clock + 1
        /\ clock' \in 0 .. MaxClock
    BY <1>6, LimiterAssumption DEF Tick, WindowInv, LimiterTypeOK
  <2>2. LimiterTypeOK' /\ clock <= clock'
    BY <2>1 DEF WindowInv, LimiterTypeOK
  <2>3. \A q \in Requests : hit'[q].stamp <= clock'
    BY <2>1 DEF WindowInv, LimiterTypeOK, Hits
  <2> QED
    BY <2>1, <2>2, <2>3, QuietKeeps DEF WindowInv
<1>7. CASE UNCHANGED gatewayVars
  BY <1>2, <1>7 DEF gatewayVars, limiterVars
<1> QED
  BY <1>1, <1>2, <1>3, <1>4, <1>5, <1>6, <1>7 DEF Next

-----------------------------------------------------------------------------
(* Every hit the limiter accepted less than Window before the latest        *)
(* instant it was asked about still has a place of its own in the window    *)
(* (RateLimiter::check, RateLimiter::prune).                                *)
THEOREM WindowBookkeeping == Spec => []WindowInv
BY InitWindowInv, StepWindowInv, PTL DEF Spec

(* Only Check accepts or refuses a stamped request.                         *)
LEMMA OnlyCheckDecides ==
  ASSUME WindowInv, [Next]_gatewayVars, NEW q \in Requests,
         gate[q] = "stamped", gate'[q] \in {"in", "denied"}
  PROVE  Check(q)
<1>1. ASSUME NEW p \in Requests, AtGate(p)
      PROVE  Check(q)
  <2>1. CASE p # q
    BY <1>1, <2>1 DEF AtGate, Unauthorized, Authenticate, Check, WindowInv, LimiterTypeOK
  <2>2. CASE p = q
    BY <1>1, <2>2 DEF AtGate, Unauthorized, Authenticate
  <2> QED
    BY <2>1, <2>2
<1>2. ASSUME NEW p \in Completions, Handle(p)
      PROVE  gate' = gate
  BY <1>2 DEF Handle, LimiterIdle
<1>3. CASE Operator \/ Prober \/ Tick \/ UNCHANGED gatewayVars
  <2>1. gate' = gate
    BY <1>3 DEF Operator, SetLimit, LimiterIdle, Prober, Prune, Tick, gatewayVars
  <2> QED
    BY <2>1
<1> QED
  BY <1>1, <1>2, <1>3 DEF Next

LEMMA AcceptedUnderCeiling ==
  ASSUME WindowInv, [Next]_gatewayVars, NEW q \in Requests,
         gate[q] = "stamped", gate'[q] = "in"
  PROVE  Cardinality(RecentHits(accepted', latest' - Window)) <= hit[q].limit
<1> DEFINE kept == Evict(window, hit[q].stamp)
<1>1. WindowInv' /\ Check(q)
  BY StepWindowInv, OnlyCheckDecides
<1>2. /\ hit[q].limit \in Nat /\ hit[q].stamp \in Nat /\ window \in Seq(0 .. MaxClock)
  BY HitType
<1>3. ~(Len(kept) >= hit[q].limit) /\ window' = Append(kept, hit[q].stamp)
  BY <1>1 DEF Check, WindowInv, LimiterTypeOK
<1>4. kept \in Seq(0 .. MaxClock) /\ Len(kept) \in Nat
  <2>1. kept \in Seq(0 .. MaxClock)
    BY <1>2, EvictDrops
  <2> QED
    BY <2>1
<1> HIDE DEF kept
<1>5. DOMAIN window' = 1 .. Len(kept) + 1 /\ Len(kept) + 1 <= hit[q].limit
  BY <1>2, <1>3, <1>4
<1>6. IsFiniteSet(DOMAIN window') /\ Cardinality(DOMAIN window') = Len(kept) + 1
  BY <1>4, <1>5, FS_Interval
<1>7. PICK g : Placed(g)'
  BY <1>1 DEF WindowInv
<1>8. g \in Injection(Recent', DOMAIN window')
  BY <1>7 DEF Placed, Injection, IsInjective
<1>9. IsFiniteSet(Recent') /\ Cardinality(Recent') <= Len(kept) + 1
  BY <1>6, <1>8, FS_Injection
<1>10. Cardinality(Recent') \in Nat
  BY <1>9, FS_CardinalityType
<1> QED
  BY <1>2, <1>4, <1>5, <1>9, <1>10 DEF Recent

(* However hits overtake each other between taking their stamp and taking   *)
(* the mutex, an accepted one leaves at most its ceiling of hits in the     *)
(* last Window.                                                             *)
THEOREM CeilingAlwaysHolds == Spec => CeilingHolds
<1>1. WindowInv /\ [Next]_gatewayVars =>
        [\A q \in Requests :
           Len(accepted') > Len(accepted) /\ gate[q] = "stamped" /\ gate'[q] = "in"
             => Cardinality(RecentHits(accepted', latest' - Window)) <= hit[q].limit]_limiterVars
  BY AcceptedUnderCeiling
<1> QED
  BY <1>1, WindowBookkeeping, PTL DEF Spec, CeilingHolds

LEMMA RefusedRecently ==
  ASSUME WindowInv, [Next]_gatewayVars, NEW q \in Requests,
         gate[q] = "stamped", gate'[q] = "denied"
  PROVE  RecentHits(accepted, hit[q].stamp - Window) # {}
<1> DEFINE kept == Evict(window, hit[q].stamp)
           s == hit[q].stamp
<1>1. Check(q)
  BY OnlyCheckDecides
<1>2. hit[q].limit \in Nat /\ hit[q].limit > 0 /\ s \in Nat /\ window \in Seq(0 .. MaxClock)
  BY HitType DEF WindowInv
<1>3. Len(kept) >= hit[q].limit
  BY <1>1 DEF Check, WindowInv, LimiterTypeOK
<1>4. PICK k \in 0 .. Len(window) :
        Len(kept) = Len(window) - k /\ (k < Len(window) => Age(s, window[k + 1]) < Window)
  BY <1>2, EvictDrops
<1> HIDE DEF kept, s
<1>5. k + 1 \in 1 .. Len(window) /\ Age(s, window[k + 1]) < Window
  BY <1>2, <1>3, <1>4
<1>6. window[k + 1] \in 0 .. MaxClock
  BY <1>2, <1>5, ElementOfSeq
<1>7. window[k + 1] > s - Window
  BY <1>2, <1>5, <1>6, LimiterAssumption DEF Age
<1>8. PICK j \in DOMAIN accepted : accepted[j] = window[k + 1]
  BY <1>2, <1>5 DEF WindowInv
<1> QED
  BY <1>7, <1>8 DEF RecentHits, s

(* A refused client is told to come back in 60 s only when a hit was         *)
(* accepted in the 60 s before (auth.rs).                                   *)
THEOREM RefusalsAreRecent == Spec => RefusalIsRecent
<1>1. WindowInv /\ [Next]_gatewayVars =>
        [\A q \in Requests :
           gate[q] = "stamped" /\ gate'[q] = "denied"
             => RecentHits(accepted, hit[q].stamp - Window) # {}]_limiterVars
  BY RefusedRecently
<1> QED
  BY <1>1, WindowBookkeeping, PTL DEF Spec, RefusalIsRecent

(* Both halves of a request's way in keep their types, the clock they share *)
(* included.                                                                *)
THEOREM GatewayIsTyped == Spec => []TypeOK
<1>1. WindowInv /\ CacheInv => TypeOK
  BY DEF WindowInv, CacheInv, TypeOK
<1> QED
  BY <1>1, WindowBookkeeping, CacheBookkeeping, PTL
=============================================================================
