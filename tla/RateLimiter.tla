---------------------------- MODULE RateLimiter ----------------------------
(***************************************************************************)
(* The sliding window of one profile (ratelimit.rs) and the middleware     *)
(* that asks it (auth.rs).  A hit takes its time stamp before the mutex,   *)
(* so stamps may enter the window out of order; eviction only looks at the *)
(* front.                                                                  *)
(***************************************************************************)
EXTENDS Integers, Sequences, FiniteSets, SequencesExt

CONSTANTS
  Requests,     \* the requests that arrive
  Window,       \* WINDOW
  PruneAge,     \* the age the prober prunes at
  Limits,       \* the ceilings an operator sets; 0 is "unlimited"
  MaxClock      \* bound on the clock

ASSUME LimiterAssumption ==
  /\ Window \in Nat \ {0} /\ PruneAge \in Nat /\ MaxClock \in Nat
  /\ PruneAge >= Window      \* half an hour, a minute
  /\ Limits \subseteq Nat /\ 0 \in Limits

VARIABLES
  clock,        \* Instant::now
  rpm,          \* profiles.rpm_limit
  window,       \* the deque of the profile, front first; << >> when absent
  hit,          \* what each request carries: the ceiling it read, its stamp
  gate,         \* where each request stands at the gate
  accepted,     \* ghost: the stamps of all accepted hits, in lock order
  latest        \* ghost: the latest instant the lock was used with

limiterVars == <<clock, rpm, window, hit, gate, accepted, latest>>

Hits == [limit : Limits, stamp : 0 .. MaxClock]
NoHit == [limit |-> 0, stamp |-> 0]   \* before and after the gate

LimiterTypeOK ==
  /\ clock \in 0 .. MaxClock
  /\ rpm \in Limits
  /\ window \in Seq(0 .. MaxClock)
  /\ hit \in [Requests -> Hits]
  /\ gate \in [Requests -> {"new", "stamped", "in", "denied"}]
  /\ accepted \in Seq(0 .. MaxClock)
  /\ latest \in 0 .. MaxClock

LimiterInit ==
  /\ clock = 0 /\ latest = 0
  /\ rpm \in Limits
  /\ window = << >> /\ accepted = << >>
  /\ hit = [q \in Requests |-> NoHit]
  /\ gate = [q \in Requests |-> "new"]

(* Saturating age: a stamp from the future of now has age 0. *)
Age(now, t) == IF t > now THEN 0 ELSE now - t

EvictLate(w, now) == SelectSeq(w, LAMBDA t : Age(now, t) <= Window)

(* The loop that pops the front while it is too old. *)
Evict(w, now) ==
  LET fresh == {i \in DOMAIN w : Age(now, w[i]) < Window}
  IN  IF fresh = {} THEN << >>
      ELSE SubSeq(w, CHOOSE i \in fresh : \A j \in fresh : i <= j, Len(w))

(* No token, or one no profile has: 401. *)
Unauthorized(q) ==
  /\ gate[q] = "new"
  /\ gate' = [gate EXCEPT ![q] = "denied"]
  /\ UNCHANGED <<clock, rpm, window, hit, accepted, latest>>

(* The profile is read and the hit is stamped; without a ceiling the       *)
(* request passes.                                                         *)
Authenticate(q) ==
  /\ gate[q] = "new"
  /\ hit' = IF rpm > 0 THEN [hit EXCEPT ![q] = [limit |-> rpm, stamp |-> clock]] ELSE hit
  /\ gate' = [gate EXCEPT ![q] = IF rpm > 0 THEN "stamped" ELSE "in"]
  /\ UNCHANGED <<clock, rpm, window, accepted, latest>>

(* RateLimiter::check under the lock: a refused hit leaves no stamp. *)
Check(q) ==
  LET kept == Evict(window, hit[q].stamp)
      full == Len(kept) >= hit[q].limit
  IN  /\ gate[q] = "stamped"
      /\ gate' = [gate EXCEPT ![q] = IF full THEN "denied" ELSE "in"]
      /\ window' = IF full THEN kept ELSE Append(kept, hit[q].stamp)
      /\ accepted' = IF full THEN accepted ELSE Append(accepted, hit[q].stamp)
      /\ latest' = IF hit[q].stamp > latest THEN hit[q].stamp ELSE latest
      /\ hit' = [hit EXCEPT ![q] = NoHit]
      /\ UNCHANGED <<clock, rpm>>

(* A fault of prune: it removes what the window still needs.               *)
PruneAll ==
  /\ window # << >> /\ window' = << >> /\ latest' = clock
  /\ UNCHANGED <<clock, rpm, hit, gate, accepted>>

(* RateLimiter::prune, called by the prober: its now is taken under the lock. *)
(* The young stamps are retained in their order, which the embedding says.   *)
Prune ==
  /\ LET young == {i \in DOMAIN window : Age(clock, window[i]) < PruneAge}
     IN  \E at \in [1 .. Cardinality(young) -> young] :
           /\ \A i, j \in DOMAIN at : i < j => at[i] < at[j]
           /\ window' = [i \in DOMAIN at |-> window[at[i]]]
  /\ window' # window
  /\ latest' = clock
  /\ UNCHANGED <<clock, rpm, hit, gate, accepted>>

SetLimit(l) ==
  /\ rpm # l /\ rpm' = l
  /\ UNCHANGED <<clock, window, hit, gate, accepted, latest>>

Tick ==
  /\ clock < MaxClock /\ clock' = clock + 1
  /\ UNCHANGED <<rpm, window, hit, gate, accepted, latest>>

RecentHits(hits, after) == {i \in DOMAIN hits : hits[i] > after}

-----------------------------------------------------------------------------
(* However the hits of concurrent requests overtake each other at the      *)
(* mutex, an accepted hit leaves at most its ceiling of hits in the window *)
(* that ends at the latest instant it was asked about, whatever prune       *)
(* removed meanwhile (RateLimiter::check, prune).                          *)
CeilingHolds ==
  [][\A q \in Requests :
       Len(accepted') > Len(accepted) /\ gate[q] = "stamped" /\ gate'[q] = "in"
         => Cardinality(RecentHits(accepted', latest' - Window)) <= hit[q].limit]_limiterVars

(* A refusal answers "Retry-After: 60" (auth.rs): it is honest only if a    *)
(* hit was accepted within the last window, so that the window has emptied  *)
(* after 60 s without a new hit.                                            *)
RefusalIsRecent ==
  [][\A q \in Requests :
       gate[q] = "stamped" /\ gate'[q] = "denied"
         => RecentHits(accepted, hit[q].stamp - Window) # {}]_limiterVars
=============================================================================
