---------------------------- MODULE RouteGraph ----------------------------
(***************************************************************************)
(* A request's model string resolved to targets while the store is edited: *)
(* the walk over chains that nest other routes, one store read at a time,  *)
(* and the round-robin counter that picks the target tried first.          *)
(***************************************************************************)
EXTENDS Console

CONSTANTS
  MaxDepth,     \* MAX_ROUTE_DEPTH: levels of nesting a request may go through
  Strategy,     \* the strategy of each route; priority when it has none here
  Price,        \* price_per_1m of the entries that have one
  Unpriced,     \* above every price
  Conditions,   \* the healths the entries may have at first
  MaxWait,      \* bound: cooldowns end at 1, ..., MaxWait
  MaxWalks,     \* bound: requests resolved
  MaxEdits      \* bound: commands and jobs together

ASSUME GraphAssumption ==
  /\ MaxDepth \in Nat \ {0} /\ MaxWalks \in Nat /\ MaxWait \in Nat /\ MaxEdits \in Nat
  /\ Unpriced \in Nat /\ Range(Price) \subseteq 0 .. Unpriced - 1
  /\ \A h \in Conditions : Range(h) \subseteq -1 .. MaxWait

VARIABLES
  health,  \* per entry: -1 down or unfit, 0 warm, otherwise when its cooldown ends
  walk,    \* the resolution under way
  turn,    \* RoutingState: the next index of each route that has rotated
  served,  \* per route, the last list rotated and which positions have led it
  walks    \* what the bound leaves

graphVars == <<health, walk, turn, served, walks>>
vars == <<consoleVars, graphVars>>

Resting == [phase |-> "idle"]

Init ==
  /\ ConsoleInit
  /\ health \in Conditions
  /\ walk = Resting /\ turn = <<>> /\ served = <<>> /\ walks = MaxWalks

HealthOf(h, e) == IF e \in DOMAIN h THEN h[e] ELSE 0
IsUp(h, e) == HealthOf(h, e) >= 0

Usable(d, p, v) == v \in DOMAIN d.providers /\ (d.providers[v].profile = p \/ d.providers[v].shared)
Enterable(d, p, r) == r \in DOMAIN d.routes /\ (RouteOwnerProfile(d, r) = p \/ d.routes[r].shared)

(* What a profile may use of a store, kept for the whole walk.               *)
Offered(d, p) == [providers |-> {v \in DOMAIN d.providers : Usable(d, p, v)},
                  routes |-> {r \in DOMAIN d.routes : Enterable(d, p, r)}]

(* get_proxy_named: the caller's profile comes with the token.               *)
FindProxy(p) ==
  /\ walk = Resting /\ walks > 0
  /\ \E x \in ListProxies(db, p) :
       walk' = [phase |-> "proxy", profile |-> p, proxy |-> x, frames |-> <<>>, visited |-> <<>>,
                next |-> None, route |-> None, found |-> <<>>, alone |-> TRUE,
                offered |-> Offered(db, p)]
  /\ walks' = walks - 1
  /\ UNCHANGED <<consoleVars, health, turn, served>>

Walk(w) == walk' = w /\ UNCHANGED <<consoleVars, health, turn, served, walks>>

StrategyOf(r) == IF r \in DOMAIN Strategy THEN Strategy[r] ELSE "priority"

Fail == Walk([walk EXCEPT !.phase = "failed"])

(* get_route_named; the row it reads is the outermost route.                 *)
FindRoute ==
  /\ walk.phase = "proxy"
  /\ \/ ListRoutes(db, walk.proxy) = {} /\ Fail
     \/ \E r \in ListRoutes(db, walk.proxy) :
          Walk([walk EXCEPT !.phase = "enter", !.next = r, !.route = r])

(* expand_inner on a route: the depth and the path are verified before the   *)
(* chain is read; entries that are down or unfit are dropped at once.        *)
TooDeep(w) == Len(w.visited) >= MaxDepth

TooDeepOrCircular(w) == Len(w.visited) >= MaxDepth \/ Contains(w.visited, w.next)

(* Written as the loop it is: TLAPS knows nothing of SelectSeq.              *)
Live(h, chain) ==
  LET live[i \in 0 .. Len(chain)] ==
        IF i = 0 THEN <<>>
        ELSE IF IsUp(h, chain[i]) THEN Append(live[i - 1], chain[i]) ELSE live[i - 1]
  IN  live[Len(chain)]

RowRead(d, h, e) == [entry |-> e, provider |-> d.entries[e].provider,
                     target |-> d.entries[e].target, warm |-> HealthOf(h, e)]

RowsRead(d, h, chain) == [i \in DOMAIN Live(h, chain) |-> RowRead(d, h, Live(h, chain)[i])]

Enter ==
  /\ walk.phase = "enter"
  /\ \/ TooDeepOrCircular(walk) /\ Fail
     \/ ~TooDeepOrCircular(walk) /\ \E chain \in RouteEntries(db, walk.next) :
          Walk([walk EXCEPT !.phase = "chain", !.visited = Append(@, walk.next),
                            !.frames = Append(@, RowsRead(db, health, chain))])

Rest(w) == [w EXCEPT !.frames[Len(w.frames)] = Tail(@)]
Top == Last(walk.frames)

(* get_provider and the check that it may be used.                           *)
Leaf ==
  /\ walk.phase = "chain" /\ Top # <<>> /\ Head(Top).provider # None
  /\ IF Usable(db, walk.profile, Head(Top).provider)
     THEN Walk([Rest(walk) EXCEPT !.found = Append(@, Head(Top))])
     ELSE Fail

(* route_owner_profile, then get_route_by_id for the sharing flag: two reads.*)
NestedOwner ==
  /\ walk.phase = "chain" /\ Top # <<>> /\ Head(Top).target # None
  /\ IF Head(Top).target \notin DOMAIN db.routes THEN Fail
     ELSE Walk([walk EXCEPT !.phase = "shared",
                  !.next = <<Head(Top).target, RouteOwnerProfile(db, Head(Top).target)>>])

NestedUnchecked ==
  walk.phase = "shared" /\ Walk([Rest(walk) EXCEPT !.phase = "enter", !.next = walk.next[1]])

NestedShared ==
  /\ walk.phase = "shared"
  /\ LET target == walk.next[1]
         shared == target \in DOMAIN db.routes /\ db.routes[target].shared
     IN  IF shared \/ walk.next[2] = walk.profile
         THEN Walk([Rest(walk) EXCEPT !.phase = "enter", !.next = target])
         ELSE Fail

(* The end of a nested chain: back to the one that named it.                 *)
LeaveMarked ==
  /\ walk.phase = "chain" /\ Top = <<>> /\ Len(walk.frames) > 1
  /\ Walk([walk EXCEPT !.frames = Front(@)])

Leave ==
  /\ walk.phase = "chain" /\ Top = <<>> /\ Len(walk.frames) > 1
  /\ Walk([walk EXCEPT !.frames = Front(@), !.visited = Front(@)])

(* The targets at the positions a key is given for, sorted by it, stably.    *)
Sorted(list, key) ==
  LET at == DOMAIN key
      orders == {f \in [1 .. Cardinality(at) -> at] :
                   \A i, j \in DOMAIN f : i < j =>
                     \/ key[f[i]] < key[f[j]]
                     \/ key[f[i]] = key[f[j]] /\ f[i] < f[j]}
  IN  {[i \in 1 .. Cardinality(at) |-> list[f[i]]] : f \in orders}

(* Entries that cool down stay out unless all do; then the soonest is first. *)
WarmFirst(list) ==
  LET warm == {i \in DOMAIN list : list[i].warm = 0}
  IN  IF warm # {} THEN Sorted(list, [i \in warm |-> 0])
                   ELSE Sorted(list, [i \in DOMAIN list |-> list[i].warm])

(* Known prices in ascending order, the unknown ones last.                   *)
CheapFirst(list) ==
  Sorted(list, [i \in DOMAIN list |->
                  IF list[i].entry \in DOMAIN Price THEN Price[list[i].entry] ELSE Unpriced])

RotateLeft(list, k) == SubSeq(list, k + 1, Len(list)) \o SubSeq(list, 1, k)

(* rotate_round_robin, under its lock: a list of one does not count.         *)
OneCounter(r) == None

CounterOf(r) == r

Turn(r) == IF CounterOf(r) \in DOMAIN turn THEN turn[CounterOf(r)] ELSE 0

Rotates(r, list) == StrategyOf(r) = "round_robin" /\ Len(list) > 1

Split(r, list) == Turn(r) % Len(list)

Ordered(r, list) ==
  CASE Rotates(r, list) -> {RotateLeft(list, Split(r, list))}
    [] StrategyOf(r) = "weighted" /\ list # <<>> ->
         {RotateLeft(list, k) : k \in 0 .. Len(list) - 1}
    [] StrategyOf(r) = "economy" -> CheapFirst(list)
    [] OTHER -> {list}

(* The positions that have led the route's list since it last changed or all had. *)
Leaders(r, list) ==
  IF r \in DOMAIN served /\ served[r].list = list /\ Len(served[r].led) < Len(list)
  THEN served[r].led ELSE <<>>

Resolve ==
  /\ walk.phase = "chain" /\ Top = <<>> /\ Len(walk.frames) = 1
  /\ LET r == walk.route
     IN  \E list \in WarmFirst(walk.found) : \E answer \in Ordered(r, list) :
           /\ walk' = [walk EXCEPT !.phase = "done", !.visited = Front(@), !.found = answer]
           /\ IF Rotates(r, list)
              THEN /\ turn' = With(turn, CounterOf(r), (Turn(r) + 1) % Len(list))
                   /\ served' = With(served, r, [list |-> list,
                                       led |-> Append(Leaders(r, list), Split(r, list))])
              ELSE UNCHANGED <<turn, served>>
  /\ UNCHANGED <<consoleVars, health, walks>>

(* The targets go to execute_with_failover or the error to the caller.       *)
Answer == walk.phase \in {"done", "failed"} /\ Walk(Resting)

WalkStep == FindRoute \/ Enter \/ Leaf \/ NestedOwner \/ NestedShared \/ Leave \/ Resolve \/ Answer

-----------------------------------------------------------------------------
(* Meanwhile others edit the store, and the router and the prober change the *)
(* status of entries.                                                        *)
Disturbed(w, d) ==
  IF w = Resting THEN w
  ELSE [w EXCEPT !.alone = FALSE,
          !.offered = [providers |-> @.providers \cup Offered(d, w.profile).providers,
                       routes |-> @.routes \cup Offered(d, w.profile).routes]]

MayEdit == MaxCommands + MaxJobs - budget.commands - budget.jobs < MaxEdits

Edit ==
  /\ \/ MayEdit /\ \E p \in Profiles :
          \/ RouteShare(p) \/ RouteDelete(p) \/ ModelAdd(p) \/ ModelRemove(p) \/ ModelMove(p)
          \/ ProviderShare(p) \/ ProviderDelete(p) \/ ProxyDelete(p) \/ ProfileDelete(p)
     \/ ModelAddWrites \/ ModelMoveWrites \/ Interrupt
  /\ walk' = Disturbed(walk, db')
  /\ UNCHANGED <<health, turn, served, walks>>

Health ==
  /\ MayEdit
  /\ \E e \in DOMAIN db.entries, h \in -1 .. MaxWait :
       Run(caller, {db}) /\ health' = With(health, e, h)
  /\ walk' = Disturbed(walk, db)
  /\ UNCHANGED <<turn, served, walks>>

Next == (\E p \in Profiles : FindProxy(p)) \/ WalkStep \/ Edit \/ Health

Spec == Init /\ [][Next]_vars

-----------------------------------------------------------------------------
(* The path of a walk is the chain of routes it is inside of, never twice    *)
(* the same and never longer than the limit; the counters stay in range.     *)
TypeOK ==
  /\ Consistent(db)
  /\ walk.phase \in {"idle", "proxy", "enter", "chain", "shared", "done", "failed"}
  /\ walk # Resting =>
       /\ Len(walk.visited) <= MaxDepth /\ IsInjective(walk.visited)
       /\ walk.phase \notin {"done", "failed"} => Len(walk.visited) = Len(walk.frames)

(* The targets a chain stands for, read in one go: every entry that is up,   *)
(* in order, nested chains in the place of their entry, or no list at all    *)
(* when anything on the way may not be used or the nesting is too deep.      *)
NoList == <<[entry |-> None]>>

(* A list of each, one after the other; none where either has none.          *)
Joined(lists, more) ==
  {s \o t : s \in lists \ {NoList}, t \in more \ {NoList}} \cup ({NoList} \cap (lists \cup more))

Concatenated(sets) ==
  LET from[i \in 1 .. Len(sets) + 1] ==
        IF i = Len(sets) + 1 THEN {<<>>} ELSE Joined(sets[i], from[i + 1])
  IN  from[1]

(* What an entry stands for, given the lists of the routes it may nest.      *)
Piece(d, h, p, nested, e) ==
  LET row == d.entries[e]
  IN  CASE ~IsUp(h, e) -> {<<>>}
        [] IsUp(h, e) /\ row.target = None /\ Usable(d, p, row.provider) ->
             {<<RowRead(d, h, e)>>}
        [] IsUp(h, e) /\ row.target # None /\ Enterable(d, p, row.target) ->
             nested[row.target]
        [] OTHER -> {NoList}

(* The lists of every route, for a caller that may nest MaxDepth levels.     *)
Flattening(d, h, p) ==
  LET lists[n \in 0 .. MaxDepth] ==
        [r \in DOMAIN d.routes |->
           IF n = 0 THEN {NoList}
           ELSE UNION {Concatenated([i \in DOMAIN chain |-> Piece(d, h, p, lists[n - 1], chain[i])]) :
                         chain \in RouteEntries(d, r)}]
  IN  lists[MaxDepth]

(* A request no edit disturbs resolves to the flattening of its chain, and   *)
(* fails exactly when there is none: diamonds are no cycles, a cycle never   *)
(* loops, and nothing is left out of a list that is returned.                *)
WalkIsFlattening ==
  /\ walk.phase = "chain" /\ walk.alone /\ Top = <<>> /\ Len(walk.frames) = 1 =>
       walk.found \in Flattening(db, health, walk.profile)[walk.route]
  /\ walk.phase = "failed" /\ walk.alone /\ walk.route # None =>
       NoList \in Flattening(db, health, walk.profile)[walk.route]

(* Whatever is edited while a request is resolved, every provider in its     *)
(* list and every route it went into was, at some time during the walk, the  *)
(* caller's own or shared.                                                   *)
OnlyWhatWasOffered ==
  walk # Resting =>
    /\ \A i \in DOMAIN walk.found : walk.found[i].provider \in walk.offered.providers
    /\ \A i \in 2 .. Len(walk.visited) : walk.visited[i] \in walk.offered.routes

(* As long as a round-robin route resolves to the same list, no target leads *)
(* a second time before each has led once, whatever other routes are asked   *)
(* for in between and however long the list was before.                      *)
TurnsAreFair == \A r \in DOMAIN served : IsInjective(served[r].led)
=============================================================================
