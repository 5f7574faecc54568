------------------------------ MODULE Failover ------------------------------
(***************************************************************************)
(* One route's fallback chain under live traffic, the background health    *)
(* prober and the operator's CLI.                                          *)
(*                                                                         *)
(* The chain lives in the SQLite store; every store call takes the store's *)
(* mutex for one statement, so one action below is one store call (or one  *)
(* await), and anything else may happen between two of them.  A request    *)
(* works on the snapshot of the chain it resolved; the prober works on the *)
(* snapshot its cycle collected.                                           *)
(*                                                                         *)
(* A surface says which handler serves the request:                        *)
(*   "chat"    buffered chat on every API (handle_non_streaming,           *)
(*             chat_non_stream): rows for successes and failures;          *)
(*   "legacy"  /v1/completions and /v1/embeddings, buffered: rows for      *)
(*             successes only;                                             *)
(*   "stream"  SSE chat and completions (handle_streaming,                 *)
(*             handle_completion_streaming);                               *)
(*   "native"  SSE on the Anthropic, Google and Codex APIs (chat_stream).  *)
(*                                                                         *)
(* Abstractions: an upstream's reply is only its failure class ("request"  *)
(* for every failure that is ignored); of the capabilities only `vision`,  *)
(* the one that changes at run time, is kept; a clock tick stands for the  *)
(* smallest cooldown; the chain is flat (no route used as a model).        *)
(* Operators named as faults are the plausible bugs each property is shown *)
(* to catch; nothing else uses them.                                       *)
(***************************************************************************)
EXTENDS Integers, Sequences, FiniteSets

CONSTANTS
    Entries,        \* route entry ids (AUTOINCREMENT: an id is never reused)
    Requests,       \* client requests
    Priority,       \* Entries -> Int, the `priority` column
    Price,          \* Entries -> Nat, `price_per_1m`; 0 means unknown
    Strategy,       \* the route's RoutingStrategy
    Surfaces,       \* the surfaces requests may use
    Failures,       \* the failure classes upstreams may produce
    Images,         \* whether requests carry images: a set of BOOLEANs
    Vision,         \* the `vision` flags entries are added with
    Hints,          \* cooldowns a 429 may carry (Retry-After or the default)
    Operator,       \* TRUE when the CLI adds and removes entries meanwhile
    MaxClock        \* bound on the clock

AllSurfaces == {"chat", "legacy", "stream", "native"}
AllFailures == {"quota", "image", "request", "provider"}
Strategies  == {"priority", "round_robin", "weighted", "economy"}

ASSUME EntriesAssumption  == IsFiniteSet(Entries)
ASSUME PriorityAssumption == Priority \in [Entries -> Int]
ASSUME PriceAssumption    == Price \in [Entries -> Nat]
ASSUME StrategyAssumption == Strategy \in Strategies
ASSUME SurfacesAssumption == Surfaces \subseteq AllSurfaces
ASSUME FailuresAssumption == Failures \subseteq AllFailures
ASSUME ImagesAssumption   == Images \subseteq BOOLEAN
ASSUME VisionAssumption   == Vision \subseteq BOOLEAN
ASSUME HintsAssumption    == Hints \subseteq Nat
ASSUME OperatorAssumption == Operator \in BOOLEAN
ASSUME MaxClockAssumption == MaxClock \in Nat

VARIABLES
    status,     \* route_entries.status, or "unborn" / "removed"
    vision,     \* route_entries.capabilities.vision
    cooldown,   \* route_entries.cooldown_until
    okRows,     \* usage_log rows with success = 1, by request and entry
    failRows,   \* usage_log rows with success = 0, by request and entry
    clock,      \* wall clock
    phase,      \* where the handler of a request is
    surface,    \* the handler serving it
    targets,    \* the resolved snapshot, in the order it will be tried
    next,       \* index of the target being tried
    failures,   \* failures not yet acted upon
    mark,       \* how many of `failures` have been acted upon
    answer,     \* what the client got
    probe       \* the prober's snapshot: status seen, or "none"

storeVars == <<status, vision, cooldown, okRows, failRows>>
reqVars   == <<phase, surface, targets, next, failures, mark, answer>>
vars      == <<storeVars, clock, reqVars, probe>>

ModelStatus == {"healthy", "degraded", "unhealthy", "disabled"}
EntryState  == ModelStatus \cup {"unborn", "removed"}
Phases      == {"idle", "trying", "applying", "parking", "demoting",
                "pumping", "closing", "done"}
Answers     == {"none", "ok", "empty", "error", "broken", "gone"}
Failure     == [entry : Entries, class : AllFailures, hint : Nat]

Buffered(r) == surface[r] \in {"chat", "legacy"}
Current(r)  == targets[r][next[r]]
Present(e)  == status[e] \in ModelStatus

-----------------------------------------------------------------------------
(* Resolution: expand_inner on a flat chain, warm_first, the strategy.     *)

\* The entries expand_inner keeps: Healthy or Degraded, and able to serve.
Live(img) == {e \in Entries : /\ status[e] \in {"healthy", "degraded"}
                              /\ img => vision[e]}

Warm(img) == {e \in Live(img) : cooldown[e] <= clock}

\* Fault: a chain that is cooling as a whole has nothing to offer.
WarmOnly(img) == Warm(img)

\* warm_first: cooling entries sit out while a warm one remains.
Candidates(img) == IF Warm(img) # {} THEN Warm(img) ELSE Live(img)

\* ORDER BY priority; an all-cooling chain is sorted soonest-to-warm instead
\* (a stable sort).
ChainLeq(e, f, img) ==
    IF Warm(img) # {} THEN Priority[e] <= Priority[f]
    ELSE \/ cooldown[e] < cooldown[f]
         \/ cooldown[e] = cooldown[f] /\ Priority[e] <= Priority[f]

\* Economy: cheapest first, an unknown price last, ties in chain order.
EconomyLeq(e, f, img) ==
    \/ Price[e] > 0 /\ (Price[f] = 0 \/ Price[e] < Price[f])
    \/ Price[e] = Price[f] /\ ChainLeq(e, f, img)

\* Every way to write a finite set as a list without repetition.
Listings(S) == {s \in [1..Cardinality(S) -> S] :
                   \A i, j \in 1..Cardinality(S) : s[i] = s[j] => i = j}

Sorted(s, Leq(_, _)) == \A i, j \in DOMAIN s : i < j => Leq(s[i], s[j])

\* rotate_left(k)
RotateLeft(s, k) == [i \in DOMAIN s |-> s[((i - 1 + k) % Len(s)) + 1]]

ChainOrder(s, img) == Sorted(s, LAMBDA e, f : ChainLeq(e, f, img))

\* Round robin and weighted both rotate the chain; where they start depends on
\* a counter and on a random draw.
StrategyOrder(s, img) ==
    CASE Strategy = "priority" -> ChainOrder(s, img)
      [] Strategy = "economy"  -> Sorted(s, LAMBDA e, f : EconomyLeq(e, f, img))
      [] OTHER -> \E k \in DOMAIN s : ChainOrder(RotateLeft(s, k), img)

\* An explicit escalation re-sorts dearest first (an unknown price is 0).
EscalatedOrder(s) == Sorted(s, LAMBDA e, f : Price[e] >= Price[f])

-----------------------------------------------------------------------------
(* Store calls.                                                            *)

\* Fault: without the foreign key (PRAGMA foreign_keys off).
RecordUnchecked(rows, r, e) == [rows EXCEPT ![r][e] = @ + 1]

\* record_usage: the foreign key refuses a row for an entry that is gone.
Record(rows, r, e) ==
    IF Present(e) THEN [rows EXCEPT ![r][e] = @ + 1] ELSE rows

\* classify_failure, for the classes that demote.
Demotions == [quota |-> "degraded", provider |-> "unhealthy"]

\* apply_failure_action: a blind UPDATE by id, whatever the row says now.
\* (Its snapshot test on `vision` changes nothing: a flag is never set back.)
ApplyFailureAction(f) ==
    /\ status' = IF f.class \in DOMAIN Demotions /\ Present(f.entry)
                 THEN [status EXCEPT ![f.entry] = Demotions[f.class]]
                 ELSE status
    /\ vision' = IF f.class = "image" /\ Present(f.entry)
                 THEN [vision EXCEPT ![f.entry] = FALSE]
                 ELSE vision

-----------------------------------------------------------------------------
Init ==
    /\ status \in [Entries -> IF Operator THEN {"healthy", "unborn"}
                              ELSE {"healthy"}]
    /\ vision \in [Entries -> Vision]
    /\ cooldown = [e \in Entries |-> 0]
    /\ okRows = [r \in Requests |-> [e \in Entries |-> 0]]
    /\ failRows = [r \in Requests |-> [e \in Entries |-> 0]]
    /\ clock = 0
    /\ phase = [r \in Requests |-> "idle"]
    /\ surface = [r \in Requests |-> "none"]
    /\ targets = [r \in Requests |-> <<>>]
    /\ next = [r \in Requests |-> 1]
    /\ failures = [r \in Requests |-> <<>>]
    /\ mark = [r \in Requests |-> 0]
    /\ answer = [r \in Requests |-> "none"]
    /\ probe = [e \in Entries |-> "none"]

Goto(r, p) == phase' = [phase EXCEPT ![r] = p]

Remember(r, fs) == failures' = [failures EXCEPT ![r] = fs]

\* The handler returns, and its locals with it.
Finish(r, a) ==
    /\ Goto(r, "done")
    /\ answer' = [answer EXCEPT ![r] = a]
    /\ targets' = [targets EXCEPT ![r] = <<>>]
    /\ next' = [next EXCEPT ![r] = 1]
    /\ Remember(r, <<>>)
    /\ mark' = [mark EXCEPT ![r] = 0]

\* Faults: the loop stops one target early, or runs one past the end.
LastTargetEarly(r) == next[r] + 1 >= Len(targets[r])
LastTargetLate(r)  == next[r] > Len(targets[r])

LastTarget(r) == next[r] = Len(targets[r])

\* On to the next target.
Step(r) == next' = [next EXCEPT ![r] = @ + 1] /\ Goto(r, "trying")

\* The handler resolves the model string: no target is an immediate refusal.
ResolveNone(r, sfc, img) ==
    /\ phase[r] = "idle"
    /\ Live(img) = {}
    /\ surface' = [surface EXCEPT ![r] = sfc]
    /\ Finish(r, "empty")
    /\ UNCHANGED <<storeVars, clock, probe>>

\* The economy cache has the answer: no target is tried, but the handler had to
\* resolve one first.
CacheHit(r, img) ==
    /\ phase[r] = "idle"
    /\ "chat" \in Surfaces
    /\ Live(img) # {}
    /\ surface' = [surface EXCEPT ![r] = "chat"]
    /\ Finish(r, "ok")
    /\ UNCHANGED <<storeVars, clock, probe>>

Resolve(r, sfc, img) ==
    /\ phase[r] = "idle"
    /\ Live(img) # {}
    /\ surface' = [surface EXCEPT ![r] = sfc]
    /\ \E s \in Listings(Candidates(img)) :
          /\ StrategyOrder(s, img) \/ (sfc = "chat" /\ EscalatedOrder(s))
          /\ targets' = [targets EXCEPT ![r] = s]
    /\ Goto(r, "trying")
    /\ UNCHANGED <<storeVars, clock, next, failures, mark, answer, probe>>

-----------------------------------------------------------------------------
(* Buffered surfaces: execute_with_failover.                               *)

\* Fault: a request that is answered still acts on the failures before it.
BufferedSuccessDemotes(r) ==
    /\ phase[r] = "trying" /\ Buffered(r)
    /\ okRows' = Record(okRows, r, Current(r))
    /\ status' = [e \in Entries |->
                     IF Present(e) /\ \E i \in DOMAIN failures[r] : failures[r][i].entry = e
                     THEN "unhealthy" ELSE status[e]]
    /\ Finish(r, "ok")
    /\ UNCHANGED <<vision, cooldown, failRows, clock, surface, probe>>

\* A success is logged and returned at once; earlier failures are dropped.
BufferedSuccess(r) ==
    /\ phase[r] = "trying" /\ Buffered(r)
    /\ okRows' = Record(okRows, r, Current(r))
    /\ Finish(r, "ok")
    /\ UNCHANGED <<status, vision, cooldown, failRows, clock, surface, probe>>

\* A failure is remembered; after the last target the failures are acted upon.
Fail(r, class, hint) ==
    /\ Remember(r, Append(failures[r],
           [entry |-> Current(r), class |-> class, hint |-> hint]))
    /\ IF LastTarget(r) THEN Goto(r, "applying") /\ UNCHANGED next ELSE Step(r)
    /\ UNCHANGED <<status, vision, cooldown, clock, surface, targets, mark,
                   answer, probe>>

\* A failed attempt is logged, on the chat surface only.
BufferedFailure(r, class, hint) ==
    /\ phase[r] = "trying" /\ Buffered(r)
    /\ failRows' = IF surface[r] = "chat"
                   THEN Record(failRows, r, Current(r)) ELSE failRows
    /\ Fail(r, class, hint)
    /\ UNCHANGED okRows

\* The rows an attempt dropped mid-flight may leave: the log call is inside the
\* dropped future, but a row already handed to the blocking pool is written
\* (here at once).
DroppedRow(r) ==
    \/ UNCHANGED <<okRows, failRows>>
    \/ /\ surface[r] # "native"
       /\ okRows' = Record(okRows, r, Current(r)) /\ UNCHANGED failRows
    \/ /\ surface[r] # "legacy"
       /\ failRows' = Record(failRows, r, Current(r)) /\ UNCHANGED okRows

\* Fault: the loop logs the attempt that timed out as well.
BufferedTimeoutLogs(r) ==
    /\ phase[r] = "trying" /\ Buffered(r)
    /\ "provider" \in Failures
    /\ \/ failRows' = Record(failRows, r, Current(r))
       \/ failRows' = Record(Record(failRows, r, Current(r)), r, Current(r))
    /\ Fail(r, "provider", 0)
    /\ UNCHANGED okRows

\* Fault: a timeout is not remembered as a failure.
BufferedTimeoutForgotten(r) ==
    /\ phase[r] = "trying" /\ Buffered(r)
    /\ "provider" \in Failures
    /\ DroppedRow(r)
    /\ IF LastTarget(r) THEN Goto(r, "applying") /\ UNCHANGED next ELSE Step(r)
    /\ UNCHANGED <<status, vision, cooldown, clock, surface, targets, failures,
                   mark, answer, probe>>

\* The attempt timeout drops the attempt, and counts as a provider failure.
BufferedTimeout(r) ==
    /\ phase[r] = "trying" /\ Buffered(r)
    /\ "provider" \in Failures
    /\ DroppedRow(r)
    /\ Fail(r, "provider", 0)

\* Fault: the same failure is acted upon again and again.
NextFailureAgain(r) ==
    IF mark[r] + 1 < Len(failures[r])
    THEN Goto(r, "applying") /\ UNCHANGED <<targets, next, failures, mark, answer>>
    ELSE Finish(r, "error")

\* The chain is exhausted: act on one remembered failure after another, with
\* no await in between, then answer with the error.
NextFailure(r) ==
    IF mark[r] + 1 < Len(failures[r])
    THEN /\ mark' = [mark EXCEPT ![r] = @ + 1]
         /\ Goto(r, "applying")
         /\ UNCHANGED <<targets, next, failures, answer>>
    ELSE Finish(r, "error")

ApplyFailure(r) ==
    /\ phase[r] = "applying"
    /\ LET f == failures[r][mark[r] + 1] IN
         /\ ApplyFailureAction(f)
         /\ \/ /\ f.class = "quota" /\ Goto(r, "parking")
               /\ UNCHANGED <<targets, next, failures, mark, answer>>
            \/ f.class # "quota" /\ NextFailure(r)
    /\ UNCHANGED <<cooldown, okRows, failRows, clock, surface, probe>>

\* A 429 also parks the entry: set_route_entry_cooldown overwrites.
Park(r) ==
    /\ phase[r] = "parking"
    /\ LET f == failures[r][mark[r] + 1] IN
         cooldown' = IF Present(f.entry)
                     THEN [cooldown EXCEPT ![f.entry] = clock + f.hint]
                     ELSE cooldown
    /\ NextFailure(r)
    /\ UNCHANGED <<status, vision, okRows, failRows, clock, surface, probe>>

-----------------------------------------------------------------------------
(* SSE surface: handle_streaming, handle_completion_streaming, pump_stream. *)

\* `continue` in the loop over the targets, or its end: "all models failed".
NextTarget(r) ==
    IF LastTarget(r) THEN Finish(r, "error")
    ELSE /\ Step(r)
         /\ Remember(r, <<>>)
         /\ UNCHANGED <<targets, mark, answer>>

\* The request cannot be built for this provider: skipped without a trace.
StreamSkip(r) ==
    /\ phase[r] = "trying" /\ surface[r] \in {"stream", "native"}
    /\ "request" \in Failures
    /\ NextTarget(r)
    /\ UNCHANGED <<storeVars, clock, surface, probe>>

\* The failure of an attempt or of a stream: the row is written and awaited.
\* The hint of a 429 is not carried along.
StreamFails(r, class, p) ==
    /\ failRows' = Record(failRows, r, Current(r))
    /\ Remember(r, <<[entry |-> Current(r), class |-> class, hint |-> 0]>>)
    /\ Goto(r, p)
    /\ UNCHANGED <<status, vision, cooldown, okRows, clock, surface, targets,
                   next, mark, answer, probe>>

\* fail_stream_attempt, first half.
StreamFailure(r, class) ==
    /\ phase[r] = "trying" /\ surface[r] = "stream"
    /\ StreamFails(r, class, "demoting")

\* fail_stream_attempt, second half, then on to the next target.
StreamDemote(r) ==
    /\ phase[r] = "demoting"
    /\ ApplyFailureAction(failures[r][1])
    /\ NextTarget(r)
    /\ UNCHANGED <<cooldown, okRows, failRows, clock, surface, probe>>

\* The first frames proved a real completion: the pump task takes over.
StreamCommit(r) ==
    /\ phase[r] = "trying" /\ surface[r] \in {"stream", "native"}
    /\ Goto(r, "pumping")
    /\ UNCHANGED <<storeVars, clock, surface, targets, next, failures, mark,
                   answer, probe>>

\* Fault: a success also marks the entry Healthy.
StreamEndHeals(r) ==
    /\ \/ phase[r] = "pumping"
       \/ phase[r] = "trying" /\ surface[r] = "stream"
    /\ okRows' = Record(okRows, r, Current(r))
    /\ status' = IF Present(Current(r))
                 THEN [status EXCEPT ![Current(r)] = "healthy"] ELSE status
    /\ Finish(r, "ok")
    /\ UNCHANGED <<vision, cooldown, failRows, clock, surface, probe>>

\* The stream ran to its end (or a Responses upstream answered in one piece,
\* which is logged by the handler itself): one success row.
StreamEnd(r) ==
    /\ \/ phase[r] = "pumping"
       \/ phase[r] = "trying" /\ surface[r] = "stream"
    /\ okRows' = Record(okRows, r, Current(r))
    /\ Finish(r, "ok")
    /\ UNCHANGED <<status, vision, cooldown, failRows, clock, surface, probe>>

\* An error after the commit reaches the client; the row is written first.
PumpFailure(r, class) ==
    /\ phase[r] = "pumping" /\ surface[r] = "stream"
    /\ StreamFails(r, class, "closing")

PumpDemote(r) ==
    /\ phase[r] = "closing"
    /\ ApplyFailureAction(failures[r][1])
    /\ Finish(r, "broken")
    /\ UNCHANGED <<cooldown, okRows, failRows, clock, surface, probe>>

\* The client hung up: pump_stream returns without a row.
PumpAbandoned(r) ==
    /\ phase[r] = "pumping" /\ surface[r] = "stream"
    /\ Finish(r, "gone")
    /\ UNCHANGED <<storeVars, clock, surface, probe>>

-----------------------------------------------------------------------------
(* Native SSE surface: chat_stream never touches an entry's health.        *)

NativeFailure(r) ==
    /\ phase[r] = "trying" /\ surface[r] = "native"
    /\ failRows' = Record(failRows, r, Current(r))
    /\ NextTarget(r)
    /\ UNCHANGED <<status, vision, cooldown, okRows, clock, surface, probe>>

\* The native pump forwards a transport error and returns without a row.
NativeBroken(r) ==
    /\ phase[r] = "pumping" /\ surface[r] = "native"
    /\ "provider" \in Failures
    /\ Finish(r, "broken")
    /\ UNCHANGED <<storeVars, clock, surface, probe>>

-----------------------------------------------------------------------------
\* Fault: the row of a failed stream attempt is written again on the way out.
AbandonLogs(r) ==
    /\ phase[r] \in {"trying", "demoting"} /\ DroppedRow(r)
    /\ Finish(r, "gone")
    /\ UNCHANGED <<status, vision, cooldown, clock, surface, probe>>

\* TimeoutLayer (120 s) or a client hanging up before the answer drops the
\* handler at one of its awaits, and with it every failure not yet acted upon.
Abandon(r) ==
    /\ \/ phase[r] = "trying" /\ DroppedRow(r)
       \/ phase[r] = "demoting" /\ UNCHANGED <<okRows, failRows>>
    /\ Finish(r, "gone")
    /\ UNCHANGED <<status, vision, cooldown, clock, surface, probe>>

-----------------------------------------------------------------------------
(* health::run_once.                                                       *)

\* Faults: every entry is probed, or only those out of rotation.
NeedsProbeAll(e)       == Present(e) /\ status[e] # "disabled"
NeedsProbeUnhealthy(e) == status[e] = "unhealthy"

\* entries_needing_probe: neither Healthy nor Disabled.
NeedsProbe(e) == Present(e) /\ status[e] \notin {"healthy", "disabled"}

CycleOver == \A e \in Entries : probe[e] = "none"

ProbeCollect ==
    /\ CycleOver
    /\ \E e \in Entries : NeedsProbe(e)
    /\ probe' = [e \in Entries |-> IF NeedsProbe(e) THEN status[e] ELSE "none"]
    /\ UNCHANGED <<storeVars, clock, reqVars>>

\* decide_status
DecideStatus(s, success) ==
    CASE s = "degraded"  -> IF success THEN "healthy" ELSE "unhealthy"
      [] s = "unhealthy" -> IF success THEN "degraded" ELSE "unhealthy"
      [] OTHER -> s

\* Fault: an answered ping is taken for the end of a rate limit.
ProbeEntryWarms(e, success) ==
    /\ probe[e] # "none"
    /\ LET new == DecideStatus(probe[e], success) IN
         status' = IF new # probe[e] /\ Present(e)
                   THEN [status EXCEPT ![e] = new] ELSE status
    /\ cooldown' = IF success THEN [cooldown EXCEPT ![e] = 0] ELSE cooldown
    /\ probe' = [probe EXCEPT ![e] = "none"]
    /\ UNCHANGED <<vision, okRows, failRows, clock, reqVars>>

\* One ping, decided on the snapshot's status, written blindly if different.
\* The order of a cycle's pings is left open.
ProbeEntry(e, success) ==
    /\ probe[e] # "none"
    /\ LET new == DecideStatus(probe[e], success) IN
         status' = IF new # probe[e] /\ Present(e)
                   THEN [status EXCEPT ![e] = new] ELSE status
    /\ probe' = [probe EXCEPT ![e] = "none"]
    /\ UNCHANGED <<vision, cooldown, okRows, failRows, clock, reqVars>>

\* A store error ends the cycle early.
ProbeAborts ==
    /\ ~CycleOver
    /\ probe' = [e \in Entries |-> "none"]
    /\ UNCHANGED <<storeVars, clock, reqVars>>

-----------------------------------------------------------------------------
(* The operator and the environment.                                       *)

\* route model add: a fresh id, Healthy, no cooldown.
AddEntry(e) ==
    /\ Operator /\ status[e] = "unborn"
    /\ status' = [status EXCEPT ![e] = "healthy"]
    /\ UNCHANGED <<vision, cooldown, okRows, failRows, clock, reqVars, probe>>

\* route model remove: usage rows go with the entry (ON DELETE CASCADE).
RemoveEntry(e) ==
    /\ Operator /\ Present(e)
    /\ status' = [status EXCEPT ![e] = "removed"]
    /\ okRows' = [r \in Requests |-> [okRows[r] EXCEPT ![e] = 0]]
    /\ failRows' = [r \in Requests |-> [failRows[r] EXCEPT ![e] = 0]]
    /\ UNCHANGED <<vision, cooldown, clock, reqVars, probe>>

Tick ==
    /\ clock < MaxClock
    /\ clock' = clock + 1
    /\ UNCHANGED <<storeVars, reqVars, probe>>

-----------------------------------------------------------------------------
Upstream(r) ==
    \/ BufferedSuccess(r) \/ BufferedTimeout(r)
    \/ \E c \in Failures \ {"quota"} : BufferedFailure(r, c, 0)
    \/ \E h \in Hints : "quota" \in Failures /\ BufferedFailure(r, "quota", h)
    \/ StreamSkip(r) \/ StreamCommit(r) \/ StreamEnd(r)
    \/ \E c \in Failures : StreamFailure(r, c) \/ PumpFailure(r, c)
    \/ NativeFailure(r) \/ NativeBroken(r)

Handler(r) ==
    \/ Upstream(r) \/ ApplyFailure(r) \/ Park(r)
    \/ StreamDemote(r) \/ PumpDemote(r)

Ping(e) == \E success \in BOOLEAN : ProbeEntry(e, success)

Next ==
    \/ \E r \in Requests :
          \/ \E sfc \in Surfaces, img \in Images :
                ResolveNone(r, sfc, img) \/ Resolve(r, sfc, img)
          \/ \E img \in Images : CacheHit(r, img)
          \/ Handler(r) \/ PumpAbandoned(r) \/ Abandon(r)
    \/ ProbeCollect \/ ProbeAborts
    \/ \E e \in Entries : Ping(e) \/ AddEntry(e) \/ RemoveEntry(e)
    \/ Tick

Spec == Init /\ [][Next]_vars

(* Every await on an upstream is bounded (the attempt timeout, the client's
   30 s total, the idle timeout), so a handler that can move does, provided
   its client reads what it is sent.  The ticker starts a probe cycle every
   30 s, and store errors do not cut every cycle short for ever.  Hanging up,
   the operator and the clock are under no obligation.                      *)
Fairness ==
    /\ \A r \in Requests : WF_vars(Handler(r))
    /\ WF_vars(ProbeCollect)
    /\ \A e \in Entries : SF_vars(Ping(e))

FairSpec == Spec /\ Fairness

-----------------------------------------------------------------------------
(* Properties.                                                             *)

StoreTypeOK ==
    /\ status \in [Entries -> EntryState]
    /\ vision \in [Entries -> BOOLEAN]
    /\ cooldown \in [Entries -> Nat]
    /\ okRows \in [Requests -> [Entries -> Nat]]
    /\ failRows \in [Requests -> [Entries -> Nat]]

RequestTypeOK ==
    /\ phase \in [Requests -> Phases]
    /\ surface \in [Requests -> AllSurfaces \cup {"none"}]
    /\ targets \in [Requests -> Seq(Entries)]
    /\ next \in [Requests -> Nat \ {0}]
    /\ failures \in [Requests -> Seq(Failure)]
    /\ mark \in [Requests -> Nat]
    /\ answer \in [Requests -> Answers]

\* The type of every variable; of the prober's, that it never holds a Healthy
\* or a Disabled entry.
TypeOK ==
    /\ StoreTypeOK /\ RequestTypeOK
    /\ clock \in Nat
    /\ probe \in [Entries -> {"none", "degraded", "unhealthy"}]

\* What a handler is working on is inside its snapshot: the index of the
\* for-loop over the targets, and the failure being acted upon.
InChain ==
    \A r \in Requests :
        /\ phase[r] \in {"trying", "demoting", "pumping", "closing"} =>
              next[r] \in DOMAIN targets[r]
        /\ phase[r] \in {"applying", "parking"} =>
              mark[r] + 1 \in DOMAIN failures[r]
        /\ phase[r] \in {"demoting", "closing"} => 1 \in DOMAIN failures[r]

\* The bookkeeping of execute_with_failover: the failures so far are exactly the
\* targets tried so far, in order, and none is acted upon before the snapshot
\* is exhausted.  No target is skipped, tried twice or forgotten, whatever
\* happens to the chain in the meantime.
Accounting ==
    \A r \in Requests : Buffered(r) =>
        /\ \A i \in DOMAIN failures[r] :
              i \in DOMAIN targets[r] /\ failures[r][i].entry = targets[r][i]
        /\ phase[r] = "trying" => Len(failures[r]) = next[r] - 1 /\ mark[r] = 0
        /\ phase[r] \in {"applying", "parking"} =>
              Len(failures[r]) = Len(targets[r])

\* A buffered request acts on all of its failures or on none: it writes to the
\* chain (status, vision, cooldown) only once every target of its snapshot has
\* failed, so that one that is answered, or dropped, demotes nobody; and its
\* client gets the error only in the step that acts upon the failure of the last
\* target.
ActsWhenExhausted ==
    [][\A r \in Requests : Buffered(r) =>
          /\ /\ phase'[r] # phase[r] \/ next'[r] # next[r] \/ mark'[r] # mark[r]
             /\ status' # status \/ vision' # vision \/ cooldown' # cooldown
             => Len(failures[r]) = Len(targets[r])
          /\ answer[r] = "none" /\ answer'[r] = "error" =>
                /\ mark[r] + 1 = Len(targets[r])
                /\ failures[r][mark[r] + 1].entry = targets[r][mark[r] + 1]]_vars

\* A rate limit keeps its entry out of every snapshot taken in its window while
\* another entry can serve, and is no reason to refuse a request: of a chain
\* that is cooling as a whole every entry is tried.  Nobody ends a window, a
\* green ping no more than a failure: it is only ever set, by a request that
\* acts on a 429 of that entry.
ThrottledKeysRest ==
    [][/\ \A r \in Requests : phase[r] = "idle" /\ phase'[r] # "idle" =>
            \E img \in Images :
               LET able == {e \in Entries : /\ status[e] \in {"healthy", "degraded"}
                                            /\ img => vision[e]}
                   resting == {e \in able : cooldown[e] > clock}
                   chosen == {targets'[r][i] : i \in DOMAIN targets'[r]}
               IN  \/ able = {} /\ answer'[r] = "empty"
                   \/ able # {} /\ answer'[r] = "ok"
                   \/ /\ able # {} /\ answer'[r] = "none"
                      /\ chosen = IF resting = able THEN able ELSE able \ resting
       /\ \A e \in Entries : cooldown'[e] # cooldown[e] =>
            \E r \in Requests :
               /\ phase[r] = "parking" /\ phase'[r] # "parking"
               /\ failures[r][mark[r] + 1].entry = e
               /\ failures[r][mark[r] + 1].class = "quota"
               /\ cooldown'[e] = clock + failures[r][mark[r] + 1].hint]_vars

\* No entry waiting for its ping is Healthy: between the collection and the
\* ping only failures of live traffic write the row, and they never promote.
ProbedAreSick == \A e \in Entries : probe[e] # "none" => status[e] # "healthy"

\* "A Healthy entry never becomes unhealthy because of a probe" (failover.md):
\* whenever a Healthy entry is demoted, some request is acting on a failure of
\* that entry, in spite of probes deciding on stale snapshots.
OnlyTrafficDemotes ==
    [][\A e \in Entries :
          status[e] = "healthy" /\ status'[e] \in {"degraded", "unhealthy"} =>
              \E r \in Requests :
                  /\ phase[r] \in {"applying", "demoting", "closing"}
                  /\ phase'[r] # phase[r] \/ mark'[r] # mark[r]
                  /\ \E i \in DOMAIN failures[r] :
                        failures[r][i].entry = e]_vars

\* An attempt leaves at most one usage row, whichever of its reply, the attempt
\* timeout and the client's disconnection comes first.
AtMostOneRow ==
    \A r \in Requests, e \in Entries : okRows[r][e] + failRows[r][e] <= 1

\* The usage log holds no row of an entry that was removed, even though
\* requests that had already resolved it go on using and logging it.
NoOrphanRows ==
    \A r \in Requests, e \in Entries :
        ~Present(e) => okRows[r][e] = 0 /\ failRows[r][e] = 0

\* Every resolved request is answered, broken off or abandoned: no chain, and
\* no interleaving with other requests and the prober, keeps it for ever.
EveryRequestEnds ==
    \A r \in Requests : phase[r] = "trying" ~> phase[r] = "done"

\* The ping of e fails, or the cycle ends before it.
PingLost(e) ==
    \/ ProbeEntry(e, FALSE)
    \/ ProbeAborts

\* An entry whose pings eventually always succeed gets back to Healthy and stays
\* there once traffic stops failing on it, however stale the writes that took
\* it down and the snapshots the prober decides on.
Recovery ==
    \A e \in Entries :
        <>[][~PingLost(e)]_vars =>
            <>[](status[e] \in {"healthy", "unborn", "removed"})
=============================================================================
