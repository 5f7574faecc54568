--------------------------- MODULE FailoverProofs ---------------------------
(***************************************************************************)
(* What Failover guarantees for every chain, every set of requests and     *)
(* every bound.                                                            *)
(***************************************************************************)
EXTENDS Failover, FiniteSetTheorems, TLAPS

Assumptions ==
    /\ IsFiniteSet(Entries) /\ Priority \in [Entries -> Int]
    /\ Price \in [Entries -> Nat] /\ Strategy \in Strategies
    /\ Surfaces \subseteq AllSurfaces /\ Failures \subseteq AllFailures
    /\ Images \subseteq BOOLEAN /\ Vision \subseteq BOOLEAN
    /\ Hints \subseteq Nat /\ Operator \in BOOLEAN /\ MaxClock \in Nat

LEMMA AllAssumptions == Assumptions
BY EntriesAssumption, PriorityAssumption, PriceAssumption, StrategyAssumption,
   SurfacesAssumption, FailuresAssumption, ImagesAssumption, VisionAssumption,
   HintsAssumption, OperatorAssumption, MaxClockAssumption DEF Assumptions

-----------------------------------------------------------------------------
(* The snapshot a request works on.                                        *)

\* A listing of a non-empty set of entries is a non-empty sequence of entries
\* without repetition.
LEMMA ListingType ==
    ASSUME NEW S \in SUBSET Entries, S # {}, NEW s \in Listings(S)
    PROVE  /\ s \in Seq(Entries) /\ Len(s) \in Nat \ {0}
           /\ \A i, j \in DOMAIN s : s[i] = s[j] => i = j
<1>1. IsFiniteSet(S)
  BY EntriesAssumption, FS_Subset
<1>2. Cardinality(S) \in Nat /\ Cardinality(S) # 0
  BY <1>1, FS_CardinalityType, FS_EmptySet
<1>3. s \in [1..Cardinality(S) -> S]
  BY DEF Listings
<1>4. s \in [1..Cardinality(S) -> Entries]
  BY <1>3
<1>5. s \in Seq(Entries) /\ Len(s) = Cardinality(S)
  BY <1>2, <1>4
<1> QED
  BY <1>2, <1>3, <1>5 DEF Listings

LEMMA CandidatesType ==
    ASSUME NEW img, Live(img) # {}
    PROVE  Candidates(img) \in SUBSET Entries /\ Candidates(img) # {}
BY DEF Candidates, Warm, Live

-----------------------------------------------------------------------------
(* The inductive invariant.                                                *)

\* The phases of a handler are those of its surface.
PhaseFits(q) ==
    /\ phase[q] \in {"applying", "parking"} => Buffered(q)
    /\ phase[q] \in {"demoting", "pumping", "closing"} => ~Buffered(q)

FreshLocals(q) == next[q] = 1 /\ failures[q] = <<>> /\ mark[q] = 0

NoRepetition(q) ==
    \A i, j \in DOMAIN targets[q] : targets[q][i] = targets[q][j] => i = j

RequestInv(q) ==
    /\ InChain!(q)
    /\ Accounting!(q)
    /\ PhaseFits(q)
    /\ phase[q] = "idle" => FreshLocals(q)
    /\ NoRepetition(q)

IInv == TypeOK /\ \A q \in Requests : RequestInv(q)

\* A step of r leaves the other handlers alone.
OthersKept(r) ==
    \A q \in Requests \ {r} :
        /\ phase'[q] = phase[q] /\ surface'[q] = surface[q]
        /\ targets'[q] = targets[q] /\ next'[q] = next[q]
        /\ failures'[q] = failures[q] /\ mark'[q] = mark[q]
        /\ answer'[q] = answer[q]

\* What ActsWhenExhausted says of the answer of one request.
ErrorStep(q) ==
    Buffered(q) /\ answer[q] = "none" /\ answer'[q] = "error" =>
        /\ mark[q] + 1 = Len(targets[q])
        /\ failures[q][mark[q] + 1].entry = targets[q][mark[q] + 1]

\* What each step of a handler is shown to keep of the requests' state.
GoodStep(r) ==
    RequestTypeOK' /\ OthersKept(r) /\ RequestInv(r)' /\ ErrorStep(r)

LEMMA GoodStepSuffices ==
    ASSUME IInv, NEW r \in Requests, GoodStep(r)
    PROVE  /\ RequestTypeOK'
           /\ \A q \in Requests : RequestInv(q)' /\ ErrorStep(q)
<1> SUFFICES ASSUME NEW q \in Requests, q # r
             PROVE  RequestInv(q)' /\ ErrorStep(q)
  BY DEF GoodStep
<1>1. /\ phase'[q] = phase[q] /\ surface'[q] = surface[q]
      /\ targets'[q] = targets[q] /\ next'[q] = next[q]
      /\ failures'[q] = failures[q] /\ mark'[q] = mark[q]
      /\ answer'[q] = answer[q]
  BY DEF GoodStep, OthersKept
<1>2. ErrorStep(q)
  BY <1>1 DEF ErrorStep
<1>3. RequestInv(q)'
  BY <1>1 DEF IInv, RequestInv, InChain, Accounting, PhaseFits, Buffered,
     FreshLocals, NoRepetition
<1> QED
  BY <1>2, <1>3

\* The attempt's entry is an entry, and there is a next one unless LastTarget
\* says otherwise.
LEMMA CurrentType ==
    ASSUME IInv, NEW r \in Requests,
           phase[r] \in {"trying", "demoting", "pumping", "closing"}
    PROVE  /\ Current(r) \in Entries
           /\ targets[r] \in Seq(Entries)
           /\ next[r] \in 1..Len(targets[r])
           /\ ~LastTarget(r) => next[r] + 1 \in 1..Len(targets[r])
<1>1. targets[r] \in Seq(Entries) /\ next[r] \in DOMAIN targets[r]
  BY DEF IInv, TypeOK, RequestTypeOK, RequestInv, InChain
<1> QED
  BY <1>1 DEF Current, LastTarget

-----------------------------------------------------------------------------
(* The ways a step moves a handler.                                        *)

\* It returns.
LEMMA FinishGood ==
    ASSUME IInv, NEW r \in Requests, NEW a \in Answers, Finish(r, a),
           surface' \in [Requests -> AllSurfaces \cup {"none"}],
           \A q \in Requests \ {r} : surface'[q] = surface[q],
           ErrorStep(r)
    PROVE  GoodStep(r)
<1>1. RequestTypeOK'
  <2>1. "done" \in Phases /\ <<>> \in Seq(Entries) /\ <<>> \in Seq(Failure)
    BY DEF Phases
  <2>2. /\ phase' \in [Requests -> Phases] /\ answer' \in [Requests -> Answers]
        /\ next' \in [Requests -> Nat \ {0}] /\ mark' \in [Requests -> Nat]
    BY <2>1 DEF IInv, TypeOK, RequestTypeOK, Finish, Goto
  <2>3. targets' \in [Requests -> Seq(Entries)]
    BY <2>1 DEF IInv, TypeOK, RequestTypeOK, Finish
  <2>4. failures' \in [Requests -> Seq(Failure)]
    BY <2>1 DEF IInv, TypeOK, RequestTypeOK, Finish, Remember
  <2> QED
    BY <2>2, <2>3, <2>4 DEF RequestTypeOK
<1>2. OthersKept(r)
  BY DEF IInv, TypeOK, RequestTypeOK, Finish, Goto, Remember, OthersKept
<1>3. /\ phase'[r] = "done" /\ targets'[r] = <<>> /\ next'[r] = 1
      /\ failures'[r] = <<>> /\ mark'[r] = 0
  BY DEF IInv, TypeOK, RequestTypeOK, Finish, Goto, Remember
<1>4. RequestInv(r)'
  BY <1>3 DEF RequestInv, InChain, Accounting, PhaseFits, NoRepetition
<1> QED
  BY <1>1, <1>2, <1>4 DEF GoodStep

\* It starts on a fresh snapshot.
LEMMA ResolveGood ==
    ASSUME IInv, NEW r \in Requests, NEW sfc \in Surfaces, NEW img \in Images,
           Resolve(r, sfc, img)
    PROVE  GoodStep(r)
<1>1. PICK s \in Listings(Candidates(img)) :
          targets' = [targets EXCEPT ![r] = s]
  BY DEF Resolve
<1>2. /\ s \in Seq(Entries) /\ Len(s) \in Nat \ {0}
      /\ \A i, j \in DOMAIN s : s[i] = s[j] => i = j
  BY ListingType, CandidatesType DEF Resolve
<1>3. sfc \in AllSurfaces
  BY SurfacesAssumption
<1>4. RequestTypeOK'
  BY <1>1, <1>2, <1>3 DEF IInv, TypeOK, RequestTypeOK, Resolve, Goto, Phases
<1>5. OthersKept(r)
  BY <1>1 DEF IInv, TypeOK, RequestTypeOK, Resolve, Goto, OthersKept
<1>6. /\ phase'[r] = "trying" /\ targets'[r] = s /\ next'[r] = 1
      /\ failures'[r] = <<>> /\ mark'[r] = 0 /\ answer' = answer
  BY <1>1 DEF IInv, TypeOK, RequestTypeOK, Resolve, Goto, RequestInv, FreshLocals
<1>7. RequestInv(r)'
  BY <1>2, <1>6 DEF RequestInv, InChain, Accounting, PhaseFits, NoRepetition
<1>8. ErrorStep(r)
  BY <1>6 DEF ErrorStep
<1> QED
  BY <1>4, <1>5, <1>7, <1>8 DEF GoodStep

\* It goes on to another phase with the same locals.
LEMMA GotoGood ==
    ASSUME IInv, NEW r \in Requests, NEW p \in Phases, Goto(r, p),
           UNCHANGED <<surface, targets, next, failures, mark, answer>>,
           RequestInv(r)'
    PROVE  GoodStep(r)
<1>1. RequestTypeOK' /\ OthersKept(r)
  BY DEF IInv, TypeOK, RequestTypeOK, Goto, OthersKept
<1> QED
  BY <1>1 DEF GoodStep, ErrorStep

\* A buffered attempt fails.
LEMMA FailGood ==
    ASSUME IInv, NEW r \in Requests, phase[r] = "trying", Buffered(r),
           NEW class \in Failures, NEW hint \in Nat, Fail(r, class, hint)
    PROVE  GoodStep(r)
<1> DEFINE f == [entry |-> Current(r), class |-> class, hint |-> hint]
<1>1. /\ Current(r) \in Entries /\ targets[r] \in Seq(Entries)
      /\ next[r] \in 1..Len(targets[r])
      /\ ~LastTarget(r) => next[r] + 1 \in 1..Len(targets[r])
  BY CurrentType
<1>2. f \in Failure /\ failures[r] \in Seq(Failure)
  BY <1>1, FailuresAssumption DEF Failure, IInv, TypeOK, RequestTypeOK
<1>3. failures' = [failures EXCEPT ![r] = Append(failures[r], f)]
  BY DEF Fail, Remember
<1>4. \/ LastTarget(r) /\ phase' = [phase EXCEPT ![r] = "applying"] /\ next' = next
      \/ /\ ~LastTarget(r) /\ phase' = [phase EXCEPT ![r] = "trying"]
         /\ next' = [next EXCEPT ![r] = next[r] + 1]
  BY DEF Fail, Goto, Step
<1>5. surface' = surface /\ targets' = targets /\ mark' = mark /\ answer' = answer
  BY DEF Fail
<1>6. RequestTypeOK'
  <2>1. phase' \in [Requests -> Phases]
    BY <1>4 DEF IInv, TypeOK, RequestTypeOK, Phases
  <2>2. next' \in [Requests -> Nat \ {0}]
    <3>1. next \in [Requests -> Nat \ {0}] /\ next[r] + 1 \in Nat \ {0}
      BY DEF IInv, TypeOK, RequestTypeOK
    <3> QED
      BY <1>4, <3>1
  <2>3. failures' \in [Requests -> Seq(Failure)]
    BY <1>2, <1>3 DEF IInv, TypeOK, RequestTypeOK
  <2> QED
    BY <1>5, <2>1, <2>2, <2>3 DEF IInv, TypeOK, RequestTypeOK
<1>7. OthersKept(r)
  BY <1>3, <1>4, <1>5 DEF IInv, TypeOK, RequestTypeOK, OthersKept
<1>8. /\ failures'[r] = Append(failures[r], f)
      /\ Len(failures[r]) = next[r] - 1 /\ mark[r] = 0
      /\ \A i \in DOMAIN failures[r] :
            i \in DOMAIN targets[r] /\ failures[r][i].entry = targets[r][i]
      /\ next[r] \in Nat
  BY <1>3 DEF IInv, TypeOK, RequestTypeOK, RequestInv, Accounting
<1>9. /\ Len(failures'[r]) = next[r]
      /\ \A i \in DOMAIN failures'[r] :
            i \in DOMAIN targets[r] /\ failures'[r][i].entry = targets[r][i]
  <2>1. Len(failures'[r]) = next[r] /\ DOMAIN failures'[r] = 1..next[r]
    BY <1>2, <1>8
  <2> SUFFICES ASSUME NEW i \in 1..next[r]
               PROVE  i \in DOMAIN targets[r] /\ failures'[r][i].entry = targets[r][i]
    BY <2>1
  <2>2. CASE i = next[r]
    BY <1>1, <1>2, <1>8, <2>2 DEF Current
  <2>3. CASE i # next[r]
    <3>1. i \in DOMAIN failures[r] /\ failures'[r][i] = failures[r][i]
      BY <1>2, <1>8, <2>3
    <3> QED
      BY <1>8, <3>1
  <2> QED
    BY <2>2, <2>3
<1>10. RequestInv(r)'
  <2>1. CASE LastTarget(r)
    <3>1. phase'[r] = "applying" /\ next'[r] = next[r] /\ next[r] = Len(targets[r])
      BY <1>4, <2>1 DEF IInv, TypeOK, RequestTypeOK, LastTarget
    <3> QED
      BY <1>1, <1>2, <1>3, <1>5, <1>8, <1>9, <3>1 DEF IInv, RequestInv, InChain,
         Accounting, PhaseFits, NoRepetition, Buffered
  <2>2. CASE ~LastTarget(r)
    <3>1. phase'[r] = "trying" /\ next'[r] = next[r] + 1
      BY <1>4, <2>2 DEF IInv, TypeOK, RequestTypeOK
    <3> QED
      BY SMTT(30), <1>1, <1>5, <1>8, <1>9, <2>2, <3>1 DEF IInv, RequestInv, InChain,
         Accounting, PhaseFits, NoRepetition, Buffered
  <2> QED
    BY <2>1, <2>2
<1> QED
  BY <1>5, <1>6, <1>7, <1>10 DEF GoodStep, ErrorStep

\* A buffered failure has been acted upon.
LEMMA NextFailureGood ==
    ASSUME IInv, NEW r \in Requests, phase[r] \in {"applying", "parking"},
           NextFailure(r), surface' = surface
    PROVE  GoodStep(r)
<1>1. /\ Buffered(r) /\ mark[r] \in Nat /\ failures[r] \in Seq(Failure)
      /\ mark[r] + 1 \in DOMAIN failures[r]
      /\ Len(failures[r]) = Len(targets[r])
      /\ \A i \in DOMAIN failures[r] : failures[r][i].entry = targets[r][i]
  BY DEF IInv, TypeOK, RequestTypeOK, RequestInv, PhaseFits, InChain, Accounting
<1>2. CASE mark[r] + 1 < Len(failures[r])
  <2>1. /\ phase' = [phase EXCEPT ![r] = "applying"]
        /\ mark' = [mark EXCEPT ![r] = mark[r] + 1]
        /\ UNCHANGED <<surface, targets, next, failures, answer>>
    BY <1>2 DEF NextFailure, Goto
  <2>2. RequestTypeOK' /\ OthersKept(r)
    BY <2>1, <1>1 DEF IInv, TypeOK, RequestTypeOK, OthersKept, Phases
  <2>3. phase'[r] = "applying" /\ mark'[r] = mark[r] + 1
    BY <2>1 DEF IInv, TypeOK, RequestTypeOK
  <2>4. RequestInv(r)'
    BY <1>1, <1>2, <2>1, <2>3 DEF IInv, RequestInv, InChain, Accounting, PhaseFits,
       NoRepetition, Buffered
  <2> QED
    BY <2>1, <2>2, <2>4 DEF GoodStep, ErrorStep
<1>3. CASE ~(mark[r] + 1 < Len(failures[r]))
  <2>1. Finish(r, "error") /\ "error" \in Answers
    BY <1>3 DEF NextFailure, Answers
  <2>2. ErrorStep(r)
    BY <1>1, <1>3 DEF ErrorStep
  <2>3. surface' \in [Requests -> AllSurfaces \cup {"none"}]
    BY DEF IInv, TypeOK, RequestTypeOK
  <2> QED
    BY <2>1, <2>2, <2>3, FinishGood
<1> QED
  BY <1>2, <1>3

\* A streaming attempt has failed.
LEMMA NextTargetGood ==
    ASSUME IInv, NEW r \in Requests, phase[r] \in {"trying", "demoting"},
           ~Buffered(r), NextTarget(r), surface' = surface
    PROVE  GoodStep(r)
<1>1. CASE LastTarget(r)
  <2>1. Finish(r, "error") /\ "error" \in Answers
    BY <1>1 DEF NextTarget, Answers
  <2>2. surface' \in [Requests -> AllSurfaces \cup {"none"}] /\ ErrorStep(r)
    BY DEF IInv, TypeOK, RequestTypeOK, ErrorStep
  <2> QED
    BY <2>1, <2>2, FinishGood
<1>2. CASE ~LastTarget(r)
  <2>1. /\ next' = [next EXCEPT ![r] = next[r] + 1]
        /\ phase' = [phase EXCEPT ![r] = "trying"]
        /\ failures' = [failures EXCEPT ![r] = <<>>]
        /\ UNCHANGED <<surface, targets, mark, answer>>
    BY <1>2 DEF NextTarget, Step, Goto, Remember
  <2>2. <<>> \in Seq(Failure) /\ "trying" \in Phases
    BY DEF Phases
  <2>3. RequestTypeOK'
    <3>1. failures' \in [Requests -> Seq(Failure)]
      BY <2>1, <2>2 DEF IInv, TypeOK, RequestTypeOK
    <3> QED
      BY <2>1, <2>2, <3>1 DEF IInv, TypeOK, RequestTypeOK
  <2>4. OthersKept(r)
    BY <2>1 DEF IInv, TypeOK, RequestTypeOK, OthersKept
  <2>5. /\ next'[r] = next[r] + 1 /\ phase'[r] = "trying"
        /\ next[r] + 1 \in 1..Len(targets[r]) /\ targets[r] \in Seq(Entries)
    BY <1>2, <2>1, CurrentType DEF IInv, TypeOK, RequestTypeOK
  <2>6. RequestInv(r)'
    BY <2>1, <2>5 DEF IInv, RequestInv, InChain, Accounting, PhaseFits,
       NoRepetition, Buffered
  <2> QED
    BY <2>1, <2>3, <2>4, <2>6 DEF GoodStep, ErrorStep
<1> QED
  BY <1>1, <1>2

\* A stream breaks, before or after its commit.
LEMMA StreamFailsGood ==
    ASSUME IInv, NEW r \in Requests, phase[r] \in {"trying", "pumping"},
           surface[r] = "stream", NEW class \in Failures,
           NEW p \in {"demoting", "closing"}, StreamFails(r, class, p)
    PROVE  GoodStep(r)
<1> DEFINE f == [entry |-> Current(r), class |-> class, hint |-> 0]
<1>1. Current(r) \in Entries
  BY CurrentType
<1>2. f \in Failure /\ <<f>> \in Seq(Failure)
  BY <1>1, FailuresAssumption DEF Failure
<1>3. /\ failures' = [failures EXCEPT ![r] = <<f>>]
      /\ phase' = [phase EXCEPT ![r] = p]
      /\ UNCHANGED <<surface, targets, next, mark, answer>>
  BY DEF StreamFails, Remember, Goto
<1>4. RequestTypeOK'
  <2>1. failures' \in [Requests -> Seq(Failure)]
    BY <1>2, <1>3 DEF IInv, TypeOK, RequestTypeOK
  <2> QED
    BY <1>3, <2>1 DEF IInv, TypeOK, RequestTypeOK, Phases
<1>5. OthersKept(r)
  BY <1>3 DEF IInv, TypeOK, RequestTypeOK, OthersKept
<1>6. failures'[r] = <<f>> /\ phase'[r] = p /\ ~Buffered(r)
  BY <1>3 DEF IInv, TypeOK, RequestTypeOK, Buffered
<1>7. RequestInv(r)'
  BY <1>3, <1>6 DEF IInv, RequestInv, InChain, Accounting, PhaseFits, NoRepetition,
     Buffered
<1> QED
  BY <1>3, <1>4, <1>5, <1>7 DEF GoodStep, ErrorStep

-----------------------------------------------------------------------------
(* Every step.                                                             *)

RequestStep(r) ==
    \/ \E sfc \in Surfaces, img \in Images :
          ResolveNone(r, sfc, img) \/ Resolve(r, sfc, img)
    \/ \E img \in Images : CacheHit(r, img)
    \/ Handler(r) \/ PumpAbandoned(r) \/ Abandon(r)

LEMMA RequestStepGood ==
    ASSUME IInv, NEW r \in Requests, RequestStep(r)
    PROVE  GoodStep(r)
<1> DEFINE Kept == /\ surface' \in [Requests -> AllSurfaces \cup {"none"}]
                   /\ \A q \in Requests \ {r} : surface'[q] = surface[q]
<1>1. /\ {"ok", "empty", "error", "broken", "gone"} \subseteq Answers
      /\ {"applying", "parking", "pumping"} \subseteq Phases
  BY DEF Answers, Phases
<1>2. ASSUME surface' = surface PROVE Kept
  BY <1>2 DEF IInv, TypeOK, RequestTypeOK
<1>3. ASSUME NEW a \in {"ok", "empty", "broken", "gone"}, Finish(r, a)
      PROVE  ErrorStep(r)
  BY <1>3 DEF IInv, TypeOK, RequestTypeOK, Finish, ErrorStep
<1>4. ASSUME NEW a \in {"ok", "broken", "gone"}, Finish(r, a), surface' = surface
      PROVE  GoodStep(r)
  BY <1>1, <1>2, <1>3, <1>4, FinishGood
<1>5. ASSUME NEW sfc \in Surfaces, NEW img \in Images, ResolveNone(r, sfc, img)
      PROVE  GoodStep(r)
  <2>1. Finish(r, "empty") /\ surface' = [surface EXCEPT ![r] = sfc]
    BY <1>5 DEF ResolveNone
  <2>2. Kept
    BY <2>1, SurfacesAssumption DEF IInv, TypeOK, RequestTypeOK
  <2> QED
    BY <1>1, <1>3, <2>1, <2>2, FinishGood
<1>6. ASSUME NEW sfc \in Surfaces, NEW img \in Images, Resolve(r, sfc, img)
      PROVE  GoodStep(r)
  BY <1>6, ResolveGood
<1>7. CASE BufferedSuccess(r)
  BY <1>4, <1>7 DEF BufferedSuccess
<1>8. ASSUME "provider" \in Failures, BufferedTimeout(r)
      PROVE  GoodStep(r)
  BY <1>8, FailGood DEF BufferedTimeout
<1>9. ASSUME NEW c \in Failures, NEW h \in Nat, BufferedFailure(r, c, h)
      PROVE  GoodStep(r)
  BY <1>9, FailGood DEF BufferedFailure
<1>10. CASE StreamSkip(r)
  <2>1. ~Buffered(r)
    BY <1>10 DEF StreamSkip, Buffered
  <2> QED
    BY <1>10, <2>1, NextTargetGood DEF StreamSkip
<1>11. CASE StreamCommit(r)
  <2>1. ~Buffered(r) /\ Goto(r, "pumping")
    BY <1>11 DEF StreamCommit, Buffered
  <2>2. phase'[r] = "pumping"
    BY <2>1 DEF Goto, IInv, TypeOK, RequestTypeOK
  <2>3. UNCHANGED <<surface, targets, next, failures, mark, answer>>
    BY <1>11 DEF StreamCommit
  <2>4. RequestInv(r)'
    BY <1>11, <2>1, <2>2, <2>3 DEF IInv, RequestInv, InChain, Accounting,
       PhaseFits, NoRepetition, Buffered, StreamCommit
  <2> QED
    BY <1>1, <2>1, <2>3, <2>4, GotoGood
<1>12. CASE StreamEnd(r)
  BY <1>4, <1>12 DEF StreamEnd
<1>13. ASSUME NEW c \in Failures, StreamFailure(r, c)
       PROVE  GoodStep(r)
  BY <1>13, StreamFailsGood DEF StreamFailure
<1>14. ASSUME NEW c \in Failures, PumpFailure(r, c)
       PROVE  GoodStep(r)
  BY <1>14, StreamFailsGood DEF PumpFailure
<1>15. CASE NativeFailure(r)
  <2>1. ~Buffered(r)
    BY <1>15 DEF NativeFailure, Buffered
  <2> QED
    BY <1>15, <2>1, NextTargetGood DEF NativeFailure
<1>16. CASE NativeBroken(r)
  BY <1>4, <1>16 DEF NativeBroken
<1>17. CASE ApplyFailure(r)
  <2>1. CASE NextFailure(r)
    BY <1>17, <2>1, NextFailureGood DEF ApplyFailure
  <2>2. CASE ~NextFailure(r)
    <3>1. /\ phase[r] = "applying" /\ Goto(r, "parking")
          /\ UNCHANGED <<surface, targets, next, failures, mark, answer>>
      BY <1>17, <2>2 DEF ApplyFailure
    <3>2. phase'[r] = "parking"
      BY <3>1 DEF Goto, IInv, TypeOK, RequestTypeOK
    <3>3. RequestInv(r)'
      BY <3>1, <3>2 DEF IInv, RequestInv, InChain, Accounting, PhaseFits,
         NoRepetition, Buffered
    <3> QED
      BY <1>1, <3>1, <3>3, GotoGood
  <2> QED
    BY <2>1, <2>2
<1>18. CASE Park(r)
  BY <1>18, NextFailureGood DEF Park
<1>19. CASE StreamDemote(r)
  <2>1. ~Buffered(r)
    BY <1>19 DEF StreamDemote, IInv, RequestInv, PhaseFits
  <2> QED
    BY <1>19, <2>1, NextTargetGood DEF StreamDemote
<1>20. CASE PumpDemote(r)
  BY <1>4, <1>20 DEF PumpDemote
<1>21. CASE PumpAbandoned(r)
  BY <1>4, <1>21 DEF PumpAbandoned
<1>22. CASE Abandon(r)
  BY <1>4, <1>22 DEF Abandon
<1>23. Hints \subseteq Nat /\ 0 \in Nat
  BY HintsAssumption
<1>24. CASE Upstream(r)
  BY <1>7, <1>8, <1>9, <1>10, <1>11, <1>12, <1>13, <1>14, <1>15, <1>16, <1>23, <1>24
     DEF Upstream, BufferedTimeout
<1>25. CASE Handler(r)
  BY <1>17, <1>18, <1>19, <1>20, <1>24, <1>25 DEF Handler
<1>26. ASSUME NEW img \in Images, CacheHit(r, img)
       PROVE  GoodStep(r)
  <2>1. Finish(r, "ok") /\ surface' = [surface EXCEPT ![r] = "chat"]
    BY <1>26 DEF CacheHit
  <2>2. Kept
    BY <2>1 DEF IInv, TypeOK, RequestTypeOK, AllSurfaces
  <2> QED
    BY <1>1, <1>3, <2>1, <2>2, FinishGood
<1> QED
  BY <1>5, <1>6, <1>21, <1>22, <1>25, <1>26 DEF RequestStep

\* The steps that are no request's.
OtherStep ==
    \/ ProbeCollect \/ ProbeAborts
    \/ \E e \in Entries : Ping(e) \/ AddEntry(e) \/ RemoveEntry(e)
    \/ Tick

LEMMA NextSplit == Next => OtherStep \/ \E r \in Requests : RequestStep(r)
BY DEF Next, OtherStep, RequestStep

LEMMA OtherStepKeeps ==
    ASSUME OtherStep \/ UNCHANGED vars
    PROVE  UNCHANGED reqVars
<1>1. CASE OtherStep
  BY <1>1 DEF OtherStep, ProbeCollect, ProbeAborts, Ping, ProbeEntry, AddEntry,
     RemoveEntry, Tick
<1>2. CASE UNCHANGED vars
  BY <1>2 DEF vars
<1> QED
  BY <1>1, <1>2

LEMMA RequestsGood ==
    ASSUME IInv, [Next]_vars
    PROVE  /\ RequestTypeOK'
           /\ \A q \in Requests : RequestInv(q)' /\ ErrorStep(q)
<1>1. CASE \E r \in Requests : RequestStep(r)
  BY <1>1, RequestStepGood, GoodStepSuffices
<1>2. CASE OtherStep \/ UNCHANGED vars
  <2>1. /\ phase' = phase /\ surface' = surface /\ targets' = targets /\ next' = next
        /\ failures' = failures /\ mark' = mark /\ answer' = answer
    BY <1>2, OtherStepKeeps DEF reqVars
  <2>2. RequestTypeOK'
    BY <2>1 DEF IInv, TypeOK, RequestTypeOK
  <2>3. ASSUME NEW q \in Requests PROVE RequestInv(q)' /\ ErrorStep(q)
    BY <2>1 DEF IInv, RequestInv, InChain, Accounting, PhaseFits, Buffered,
       FreshLocals, NoRepetition, ErrorStep
  <2> QED
    BY <2>2, <2>3
<1> QED
  BY <1>1, <1>2, NextSplit

-----------------------------------------------------------------------------
(* What a step of a handler does to the store.                             *)

RowsUnchanged == okRows' = okRows /\ failRows' = failRows

RowsEffect(r) ==
    \/ RowsUnchanged
    \/ /\ phase[r] \in {"trying", "pumping"}
       /\ \/ okRows' = Record(okRows, r, Current(r)) /\ failRows' = failRows
          \/ failRows' = Record(failRows, r, Current(r)) /\ okRows' = okRows

StatusEffect(r) ==
    \/ status' = status /\ vision' = vision
    \/ /\ phase[r] \in {"applying", "demoting", "closing"}
       /\ phase'[r] # phase[r] \/ mark'[r] # mark[r]
       /\ \E i \in DOMAIN failures[r] : ApplyFailureAction(failures[r][i])

CooldownEffect(r) ==
    \/ cooldown' = cooldown
    \/ /\ phase[r] = "parking"
       /\ \E i \in DOMAIN failures[r] :
             cooldown' = [cooldown EXCEPT ![failures[r][i].entry] =
                              clock + failures[r][i].hint]

\* Where the handler goes, as far as its rows are concerned.
Moves(r) ==
    \/ phase'[r] \in {"done", "applying", "parking", "closing"}
    \/ /\ phase[r] \in {"trying", "demoting"} /\ phase'[r] = "trying"
       /\ targets'[r] = targets[r] /\ next'[r] = next[r] + 1
    \/ /\ phase[r] = "trying" /\ phase'[r] = "demoting"
       /\ targets'[r] = targets[r] /\ next'[r] = next[r]
    \/ /\ phase[r] = "trying" /\ phase'[r] = "pumping" /\ RowsUnchanged
       /\ targets'[r] = targets[r] /\ next'[r] = next[r]
    \/ phase[r] = "idle" /\ phase'[r] = "trying" /\ RowsUnchanged

Effect(r) ==
    /\ clock' = clock /\ probe' = probe
    /\ RowsEffect(r) /\ StatusEffect(r) /\ CooldownEffect(r) /\ Moves(r)

LEMMA RequestStepEffect ==
    ASSUME IInv, NEW r \in Requests, RequestStep(r)
    PROVE  Effect(r)
<1>1. phase \in [Requests -> Phases] /\ next \in [Requests -> Nat \ {0}]
  BY DEF IInv, TypeOK, RequestTypeOK
<1>2. ASSUME NEW a, Finish(r, a)
      PROVE  phase'[r] = "done"
  BY <1>1, <1>2 DEF Finish, Goto
<1>3. ASSUME Step(r) PROVE phase'[r] = "trying" /\ next'[r] = next[r] + 1
  BY <1>1, <1>3 DEF Step, Goto
<1>4. ASSUME NEW p, Goto(r, p) PROVE phase'[r] = p
  BY <1>1, <1>4 DEF Goto
<1>5. ASSUME NextTarget(r)
      PROVE  \/ phase'[r] = "done"
             \/ phase'[r] = "trying" /\ targets' = targets /\ next'[r] = next[r] + 1
  BY <1>2, <1>3, <1>5 DEF NextTarget
<1>6. ASSUME NextFailure(r), phase[r] \in {"applying", "parking"}
      PROVE  /\ phase'[r] \in {"applying", "done"}
             /\ phase'[r] # phase[r] \/ mark'[r] # mark[r]
  <2>1. mark \in [Requests -> Nat]
    BY DEF IInv, TypeOK, RequestTypeOK
  <2> QED
    BY <1>1, <1>2, <1>4, <1>6, <2>1 DEF NextFailure
<1>7. ASSUME NEW sfc \in Surfaces, NEW img \in Images, ResolveNone(r, sfc, img)
      PROVE  Effect(r)
  BY <1>2, <1>7 DEF ResolveNone, storeVars, Effect, RowsEffect, RowsUnchanged,
     StatusEffect, CooldownEffect, Moves
<1>8. ASSUME NEW sfc \in Surfaces, NEW img \in Images, Resolve(r, sfc, img)
      PROVE  Effect(r)
  BY <1>4, <1>8 DEF Resolve, storeVars, Effect, RowsEffect, RowsUnchanged,
     StatusEffect, CooldownEffect, Moves
<1>9. CASE BufferedSuccess(r)
  BY <1>2, <1>9 DEF BufferedSuccess, Effect, RowsEffect, StatusEffect,
     CooldownEffect, Moves
<1>10. ASSUME NEW c, NEW h, Fail(r, c, h), RowsEffect(r), phase[r] = "trying"
       PROVE  Effect(r)
  <2>1. \/ phase'[r] = "applying"
        \/ phase'[r] = "trying" /\ next'[r] = next[r] + 1
    BY <1>3, <1>4, <1>10 DEF Fail
  <2> QED
    BY <1>10, <2>1 DEF Fail, Effect, StatusEffect, CooldownEffect, Moves
<1>11. ASSUME DroppedRow(r), phase[r] = "trying" PROVE RowsEffect(r)
  BY <1>11 DEF DroppedRow, RowsEffect, RowsUnchanged
<1>12. CASE BufferedTimeout(r)
  BY <1>10, <1>11, <1>12 DEF BufferedTimeout
<1>13. ASSUME NEW c, NEW h, BufferedFailure(r, c, h)
       PROVE  Effect(r)
  <2>1. RowsEffect(r)
    BY <1>13 DEF BufferedFailure, RowsEffect, RowsUnchanged
  <2> QED
    BY <1>10, <1>13, <2>1 DEF BufferedFailure
<1>14. CASE StreamSkip(r)
  BY <1>5, <1>14 DEF StreamSkip, storeVars, Effect, RowsEffect, RowsUnchanged,
     StatusEffect, CooldownEffect, Moves
<1>15. CASE StreamCommit(r)
  BY <1>4, <1>15 DEF StreamCommit, storeVars, Effect, RowsEffect, RowsUnchanged,
     StatusEffect, CooldownEffect, Moves
<1>16. CASE StreamEnd(r)
  BY <1>2, <1>16 DEF StreamEnd, Effect, RowsEffect, StatusEffect, CooldownEffect,
     Moves
<1>17. ASSUME NEW c, StreamFailure(r, c)
       PROVE  Effect(r)
  BY <1>4, <1>17 DEF StreamFailure, StreamFails, Effect, RowsEffect, StatusEffect,
     CooldownEffect, Moves
<1>18. ASSUME NEW c, PumpFailure(r, c)
       PROVE  Effect(r)
  BY <1>4, <1>18 DEF PumpFailure, StreamFails, Effect, RowsEffect, StatusEffect,
     CooldownEffect, Moves
<1>19. CASE NativeFailure(r)
  BY <1>5, <1>19 DEF NativeFailure, Effect, RowsEffect, StatusEffect,
     CooldownEffect, Moves
<1>20. CASE NativeBroken(r)
  BY <1>2, <1>20 DEF NativeBroken, storeVars, Effect, RowsEffect, RowsUnchanged,
     StatusEffect, CooldownEffect, Moves
<1>21. ASSUME phase[r] \in {"applying", "parking"}
       PROVE  mark[r] + 1 \in DOMAIN failures[r]
  BY <1>21 DEF IInv, RequestInv, InChain
<1>22. CASE ApplyFailure(r)
  <2>1. /\ phase[r] = "applying" /\ ApplyFailureAction(failures[r][mark[r] + 1])
        /\ clock' = clock /\ probe' = probe /\ RowsUnchanged /\ cooldown' = cooldown
    BY <1>22 DEF ApplyFailure, RowsUnchanged
  <2>2. /\ phase'[r] \in {"applying", "done", "parking"}
        /\ phase'[r] # phase[r] \/ mark'[r] # mark[r]
    BY <1>4, <1>6, <1>22 DEF ApplyFailure
  <2> QED
    BY <1>21, <2>1, <2>2 DEF Effect, RowsEffect, StatusEffect, CooldownEffect, Moves
<1>23. CASE Park(r)
  <2>1. /\ phase[r] = "parking" /\ NextFailure(r)
        /\ clock' = clock /\ probe' = probe /\ RowsUnchanged
        /\ status' = status /\ vision' = vision
    BY <1>23 DEF Park, RowsUnchanged
  <2>2. CooldownEffect(r)
    BY <1>21, <1>23, <2>1 DEF Park, CooldownEffect
  <2> QED
    BY <1>6, <2>1, <2>2 DEF Effect, RowsEffect, StatusEffect, Moves
<1>24. ASSUME phase[r] \in {"demoting", "closing"}
       PROVE  1 \in DOMAIN failures[r]
  BY <1>24 DEF IInv, RequestInv, InChain
<1>25. CASE StreamDemote(r)
  BY <1>5, <1>24, <1>25 DEF StreamDemote, Effect, RowsEffect, RowsUnchanged,
     StatusEffect, CooldownEffect, Moves
<1>26. CASE PumpDemote(r)
  BY <1>2, <1>24, <1>26 DEF PumpDemote, Effect, RowsEffect, RowsUnchanged,
     StatusEffect, CooldownEffect, Moves
<1>27. CASE PumpAbandoned(r)
  BY <1>2, <1>27 DEF PumpAbandoned, storeVars, Effect, RowsEffect, RowsUnchanged,
     StatusEffect, CooldownEffect, Moves
<1>28. CASE Abandon(r)
  <2>1. RowsEffect(r)
    BY <1>11, <1>28 DEF Abandon, RowsEffect, RowsUnchanged
  <2> QED
    BY <1>2, <1>28, <2>1 DEF Abandon, Effect, StatusEffect, CooldownEffect, Moves
<1>29. ASSUME NEW img \in Images, CacheHit(r, img)
       PROVE  Effect(r)
  BY <1>2, <1>29 DEF CacheHit, storeVars, Effect, RowsEffect, RowsUnchanged,
     StatusEffect, CooldownEffect, Moves
<1> QED
  BY <1>29, <1>7, <1>8, <1>9, <1>12, <1>13, <1>14, <1>15, <1>16, <1>17, <1>18, <1>19, <1>20,
     <1>22, <1>23, <1>25, <1>26, <1>27, <1>28 DEF RequestStep, Handler, Upstream

-----------------------------------------------------------------------------
(* Type correctness.                                                       *)

LEMMA RecordType ==
    ASSUME NEW rows \in [Requests -> [Entries -> Nat]],
           NEW r \in Requests, NEW e \in Entries
    PROVE  /\ Record(rows, r, e) \in [Requests -> [Entries -> Nat]]
           /\ \A q \in Requests, d \in Entries :
                 q # r \/ d # e => Record(rows, r, e)[q][d] = rows[q][d]
           /\ Record(rows, r, e)[r][e] \in {rows[r][e], rows[r][e] + 1}
           /\ ~Present(e) => Record(rows, r, e) = rows
<1>1. CASE ~Present(e)
  BY <1>1 DEF Record
<1>2. CASE Present(e)
  <2>1. Record(rows, r, e) =
           [rows EXCEPT ![r] = [rows[r] EXCEPT ![e] = rows[r][e] + 1]]
    BY <1>2 DEF Record
  <2>2. rows[r] \in [Entries -> Nat] /\ rows[r][e] + 1 \in Nat
    OBVIOUS
  <2> QED
    BY <1>2, <2>1, <2>2
<1> QED
  BY <1>1, <1>2

\* Demotions never write Healthy, and never touch a row that is gone.
LEMMA ActionType ==
    ASSUME IInv, NEW f \in Failure, ApplyFailureAction(f)
    PROVE  /\ status' \in [Entries -> EntryState]
           /\ vision' \in [Entries -> BOOLEAN]
           /\ \A e \in Entries :
                 status'[e] # status[e] => /\ e = f.entry /\ Present(e)
                                           /\ status'[e] \in {"degraded", "unhealthy"}
<1>1. f.entry \in Entries /\ status \in [Entries -> EntryState]
      /\ vision \in [Entries -> BOOLEAN]
  BY DEF Failure, IInv, TypeOK, StoreTypeOK
<1>2. vision' \in [Entries -> BOOLEAN]
  BY <1>1 DEF ApplyFailureAction
<1>3. \/ status' = status
      \/ /\ Present(f.entry)
         /\ \E s \in {"degraded", "unhealthy"} :
               status' = [status EXCEPT ![f.entry] = s]
  <2>1. /\ DOMAIN Demotions = {"quota", "provider"}
        /\ Demotions["quota"] = "degraded" /\ Demotions["provider"] = "unhealthy"
    BY DEF Demotions
  <2> QED
    BY <2>1 DEF ApplyFailureAction
<1> QED
  BY <1>1, <1>2, <1>3 DEF EntryState, ModelStatus

LEMMA RequestStepTypes ==
    ASSUME IInv, NEW r \in Requests, RequestStep(r)
    PROVE  StoreTypeOK' /\ clock' = clock /\ probe' = probe
<1>1. Effect(r)
  BY RequestStepEffect
<1>2. StoreTypeOK /\ clock \in Nat /\ failures[r] \in Seq(Failure)
  BY DEF IInv, TypeOK, RequestTypeOK
<1>3. \A i \in DOMAIN failures[r] :
         /\ failures[r][i] \in Failure
         /\ failures[r][i].entry \in Entries /\ failures[r][i].hint \in Nat
  <2>1. \A i \in DOMAIN failures[r] : failures[r][i] \in Failure
    BY <1>2
  <2>2. \A f \in Failure : f.entry \in Entries /\ f.hint \in Nat
    BY DEF Failure
  <2> QED
    BY <2>1, <2>2
<1>4. status' \in [Entries -> EntryState] /\ vision' \in [Entries -> BOOLEAN]
  BY <1>1, <1>2, <1>3, ActionType DEF Effect, StatusEffect, StoreTypeOK
<1>5. cooldown' \in [Entries -> Nat]
  <2>1. CASE cooldown' = cooldown
    BY <1>2, <2>1 DEF StoreTypeOK
  <2>2. ASSUME NEW i \in DOMAIN failures[r],
               cooldown' = [cooldown EXCEPT ![failures[r][i].entry] =
                                clock + failures[r][i].hint]
        PROVE  cooldown' \in [Entries -> Nat]
    <3>1. clock + failures[r][i].hint \in Nat
      BY <1>2, <1>3
    <3> QED
      BY <1>2, <2>2, <3>1 DEF StoreTypeOK
  <2> QED
    BY <1>1, <2>1, <2>2 DEF Effect, CooldownEffect
<1>6. /\ okRows' \in [Requests -> [Entries -> Nat]]
      /\ failRows' \in [Requests -> [Entries -> Nat]]
  <2>1. CASE RowsUnchanged
    BY <1>2, <2>1 DEF RowsUnchanged, StoreTypeOK
  <2>2. CASE phase[r] \in {"trying", "pumping"}
    <3>1. Current(r) \in Entries
      BY <2>2, CurrentType
    <3>2. /\ Record(okRows, r, Current(r)) \in [Requests -> [Entries -> Nat]]
          /\ Record(failRows, r, Current(r)) \in [Requests -> [Entries -> Nat]]
      BY <1>2, <3>1, RecordType DEF StoreTypeOK
    <3> QED
      BY <1>1, <1>2, <3>2 DEF Effect, RowsEffect, RowsUnchanged, StoreTypeOK
  <2> QED
    BY <1>1, <2>1, <2>2 DEF Effect, RowsEffect
<1> QED
  BY <1>1, <1>4, <1>5, <1>6 DEF Effect, StoreTypeOK

LEMMA OtherStepTypes ==
    ASSUME IInv, OtherStep
    PROVE  StoreTypeOK' /\ clock' \in Nat
           /\ probe' \in [Entries -> {"none", "degraded", "unhealthy"}]
<1> USE DEF IInv, TypeOK, StoreTypeOK
<1>1. CASE ProbeCollect
  <2>1. \A e \in Entries : NeedsProbe(e) => status[e] \in {"degraded", "unhealthy"}
    BY DEF NeedsProbe, Present, ModelStatus
  <2> QED
    BY <1>1, <2>1 DEF ProbeCollect, storeVars
<1>2. CASE ProbeAborts
  BY <1>2 DEF ProbeAborts, storeVars
<1>3. ASSUME NEW e \in Entries, Ping(e)
      PROVE  StoreTypeOK' /\ clock' \in Nat
             /\ probe' \in [Entries -> {"none", "degraded", "unhealthy"}]
  <2>1. PICK b \in BOOLEAN : ProbeEntry(e, b)
    BY <1>3 DEF Ping
  <2>2. DecideStatus(probe[e], b) \in EntryState
    BY <2>1 DEF ProbeEntry, DecideStatus, EntryState, ModelStatus
  <2> QED
    BY <2>1, <2>2 DEF ProbeEntry
<1>4. ASSUME NEW e \in Entries, AddEntry(e)
      PROVE  StoreTypeOK' /\ clock' \in Nat
             /\ probe' \in [Entries -> {"none", "degraded", "unhealthy"}]
  BY <1>4 DEF AddEntry, EntryState, ModelStatus
<1>5. ASSUME NEW e \in Entries, RemoveEntry(e)
      PROVE  StoreTypeOK' /\ clock' \in Nat
             /\ probe' \in [Entries -> {"none", "degraded", "unhealthy"}]
  BY <1>5 DEF RemoveEntry, EntryState, ModelStatus
<1>6. CASE Tick
  BY <1>6 DEF Tick, storeVars
<1> QED
  BY <1>1, <1>2, <1>3, <1>4, <1>5, <1>6 DEF OtherStep

LEMMA InitIInv == Init => IInv
<1> SUFFICES ASSUME Init PROVE IInv
  OBVIOUS
<1>1. StoreTypeOK
  BY VisionAssumption DEF Init, StoreTypeOK, EntryState, ModelStatus
<1>2. RequestTypeOK
  <2>1. <<>> \in Seq(Entries) /\ <<>> \in Seq(Failure)
    OBVIOUS
  <2> QED
    BY <2>1 DEF Init, RequestTypeOK, Phases, Answers
<1>3. ASSUME NEW q \in Requests PROVE RequestInv(q)
  BY DEF Init, RequestInv, InChain, Accounting, PhaseFits, FreshLocals, NoRepetition
<1> QED
  BY <1>1, <1>2, <1>3 DEF Init, IInv, TypeOK

LEMMA StepIInv == IInv /\ [Next]_vars => IInv'
<1> SUFFICES ASSUME IInv, [Next]_vars PROVE IInv'
  OBVIOUS
<1>1. RequestTypeOK' /\ \A q \in Requests : RequestInv(q)'
  BY RequestsGood
<1>2. StoreTypeOK' /\ clock' \in Nat
      /\ probe' \in [Entries -> {"none", "degraded", "unhealthy"}]
  <2>1. CASE \E r \in Requests : RequestStep(r)
    BY <2>1, RequestStepTypes DEF IInv, TypeOK
  <2>2. CASE OtherStep
    BY <2>2, OtherStepTypes
  <2>3. CASE UNCHANGED vars
    BY <2>3 DEF vars, storeVars, IInv, TypeOK, StoreTypeOK
  <2> QED
    BY <2>1, <2>2, <2>3, NextSplit
<1> QED
  BY <1>1, <1>2 DEF IInv, TypeOK

\* In every reachable state the requests' bookkeeping is in order.
THEOREM Bookkeeping == Spec => []IInv
BY InitIInv, StepIInv, PTL DEF Spec

\* Every variable keeps its type, and the prober never holds a Healthy entry.
THEOREM TypeCorrectness == Spec => []TypeOK
<1>1. IInv => TypeOK
  BY DEF IInv
<1> QED
  BY <1>1, Bookkeeping, PTL

\* A handler works inside its snapshot.
THEOREM HandlersInChain == Spec => []InChain
<1>1. IInv => InChain
  BY DEF IInv, RequestInv, InChain
<1> QED
  BY <1>1, Bookkeeping, PTL

\* A buffered request remembers exactly the failures of the targets it tried.
THEOREM FailuresAccounted == Spec => []Accounting
<1>1. IInv => Accounting
  BY DEF IInv, RequestInv, Accounting
<1> QED
  BY <1>1, Bookkeeping, PTL

\* A step of a buffered request that writes to the chain has seen every target
\* of its snapshot fail.
LEMMA WritesWhenExhausted ==
    ASSUME IInv, [Next]_vars, NEW r \in Requests, Buffered(r),
           phase'[r] # phase[r] \/ next'[r] # next[r] \/ mark'[r] # mark[r],
           status' # status \/ vision' # vision \/ cooldown' # cooldown
    PROVE  Len(failures[r]) = Len(targets[r])
<1>1. PICK q \in Requests : RequestStep(q)
  <2>1. ~(OtherStep \/ UNCHANGED vars)
    BY OtherStepKeeps DEF reqVars
  <2> QED
    BY <2>1, NextSplit
<1>2. q = r
  BY <1>1, RequestStepGood DEF GoodStep, OthersKept
<1>3. phase[r] \in {"applying", "parking", "demoting", "closing"}
  BY <1>1, <1>2, RequestStepEffect DEF Effect, StatusEffect, CooldownEffect
<1>4. phase[r] \in {"applying", "parking"}
  BY <1>3 DEF IInv, RequestInv, PhaseFits
<1> QED
  BY <1>4 DEF IInv, RequestInv, Accounting

\* A buffered request demotes nobody before every target of its snapshot has
\* failed, and no buffered client is refused before all of their failures have
\* been acted upon.
THEOREM NoEarlyError == Spec => ActsWhenExhausted
<1>1. IInv /\ [Next]_vars =>
         [\A r \in Requests : Buffered(r) =>
            /\ /\ phase'[r] # phase[r] \/ next'[r] # next[r] \/ mark'[r] # mark[r]
               /\ status' # status \/ vision' # vision \/ cooldown' # cooldown
               => Len(failures[r]) = Len(targets[r])
            /\ answer[r] = "none" /\ answer'[r] = "error" =>
                  /\ mark[r] + 1 = Len(targets[r])
                  /\ failures[r][mark[r] + 1].entry = targets[r][mark[r] + 1]]_vars
  BY RequestsGood, WritesWhenExhausted DEF ErrorStep
<1> QED
  BY <1>1, Bookkeeping, PTL DEF Spec, ActsWhenExhausted

-----------------------------------------------------------------------------
(* Stale probe snapshots, and the rows of entries that are gone.           *)

\* No snapshot is of an entry that is Healthy by now, or not yet there.
ProbedInv == \A e \in Entries : probe[e] # "none" => status[e] \notin {"healthy", "unborn"}

\* Live traffic only ever demotes entries that are present.
LEMMA TrafficStatus ==
    ASSUME IInv, NEW r \in Requests, RequestStep(r), NEW e \in Entries,
           status'[e] # status[e]
    PROVE  /\ Present(e) /\ status'[e] \in {"degraded", "unhealthy"}
           /\ phase[r] \in {"applying", "demoting", "closing"}
           /\ phase'[r] # phase[r] \/ mark'[r] # mark[r]
           /\ \E i \in DOMAIN failures[r] : failures[r][i].entry = e
<1>1. StatusEffect(r)
  BY RequestStepEffect DEF Effect
<1>2. PICK i \in DOMAIN failures[r] : ApplyFailureAction(failures[r][i])
  BY <1>1 DEF StatusEffect
<1>3. failures[r][i] \in Failure
  <2>1. failures[r] \in Seq(Failure)
    BY DEF IInv, TypeOK, RequestTypeOK
  <2> QED
    BY <2>1
<1>4. e = failures[r][i].entry /\ Present(e) /\ status'[e] \in {"degraded", "unhealthy"}
  BY <1>2, <1>3, ActionType
<1> QED
  BY <1>1, <1>4 DEF StatusEffect

LEMMA StepProbedInv == IInv /\ ProbedInv /\ [Next]_vars => ProbedInv'
<1> SUFFICES ASSUME IInv, ProbedInv, [Next]_vars, NEW e \in Entries, probe'[e] # "none"
             PROVE  status'[e] \notin {"healthy", "unborn"}
  BY DEF ProbedInv
<1> USE DEF IInv, TypeOK, StoreTypeOK
<1>1. ASSUME NEW r \in Requests, RequestStep(r)
      PROVE  status'[e] \notin {"healthy", "unborn"}
  <2>1. probe' = probe
    BY <1>1, RequestStepTypes
  <2> QED
    BY <1>1, <2>1, TrafficStatus DEF ProbedInv
<1>2. CASE ProbeCollect
  BY <1>2 DEF ProbeCollect, NeedsProbe, Present, ModelStatus, storeVars
<1>3. CASE ProbeAborts
  BY <1>3 DEF ProbeAborts
<1>4. ASSUME NEW d \in Entries, Ping(d)
      PROVE  status'[e] \notin {"healthy", "unborn"}
  BY <1>4 DEF Ping, ProbeEntry, ProbedInv
<1>5. ASSUME NEW d \in Entries, AddEntry(d)
      PROVE  status'[e] \notin {"healthy", "unborn"}
  BY <1>5 DEF AddEntry, ProbedInv
<1>6. ASSUME NEW d \in Entries, RemoveEntry(d)
      PROVE  status'[e] \notin {"healthy", "unborn"}
  BY <1>6 DEF RemoveEntry, ProbedInv
<1>7. CASE Tick
  BY <1>7 DEF Tick, storeVars, ProbedInv
<1>8. CASE UNCHANGED vars
  BY <1>8 DEF vars, storeVars, ProbedInv
<1> QED
  BY <1>1, <1>2, <1>3, <1>4, <1>5, <1>6, <1>7, <1>8, NextSplit DEF OtherStep

LEMMA InitProbedInv == Init => ProbedInv
BY DEF Init, ProbedInv

LEMMA ProbedInvHolds == Spec => [](IInv /\ ProbedInv)
BY InitIInv, StepIInv, InitProbedInv, StepProbedInv, PTL DEF Spec

\* No entry waiting for its ping is Healthy, however old the snapshot is.
THEOREM ProbesOfSickOnly == Spec => []ProbedAreSick
<1>1. ProbedInv => ProbedAreSick
  BY DEF ProbedInv, ProbedAreSick
<1> QED
  BY <1>1, ProbedInvHolds, PTL

\* A Healthy entry is demoted by live traffic only, never by a probe.
THEOREM ProbesNeverDemote == Spec => OnlyTrafficDemotes
<1> DEFINE Demoted(e) ==
        status[e] = "healthy" /\ status'[e] \in {"degraded", "unhealthy"}
           Blamed(e) ==
        \E r \in Requests : /\ phase[r] \in {"applying", "demoting", "closing"}
                            /\ phase'[r] # phase[r] \/ mark'[r] # mark[r]
                            /\ \E i \in DOMAIN failures[r] :
                                  failures[r][i].entry = e
<1>1. ASSUME IInv, ProbedInv, Next, NEW e \in Entries, Demoted(e)
      PROVE  Blamed(e)
  <2> USE <1>1 DEF IInv, TypeOK, StoreTypeOK
  <2>1. ASSUME NEW r \in Requests, RequestStep(r) PROVE Blamed(e)
    BY <2>1, TrafficStatus
  <2>2. ASSUME NEW d \in Entries, Ping(d) PROVE FALSE
    BY <2>2 DEF Ping, ProbeEntry, ProbedInv
  <2>3. ASSUME NEW d \in Entries, AddEntry(d) \/ RemoveEntry(d) PROVE FALSE
    BY <2>3 DEF AddEntry, RemoveEntry
  <2>4. CASE ProbeCollect \/ ProbeAborts \/ Tick
    BY <2>4 DEF ProbeCollect, ProbeAborts, Tick, storeVars
  <2> QED
    BY <2>1, <2>2, <2>3, <2>4, NextSplit DEF OtherStep
<1>2. IInv /\ ProbedInv /\ [Next]_vars => [\A e \in Entries : Demoted(e) => Blamed(e)]_vars
  BY <1>1
<1> QED
  BY <1>2, ProbedInvHolds, PTL DEF Spec, OnlyTrafficDemotes

LEMMA StepNoOrphanRows == IInv /\ NoOrphanRows /\ [Next]_vars => NoOrphanRows'
<1> SUFFICES ASSUME IInv, NoOrphanRows, [Next]_vars, NEW q \in Requests, NEW e \in Entries,
                    ~Present(e)'
             PROVE  okRows'[q][e] = 0 /\ failRows'[q][e] = 0
  BY DEF NoOrphanRows
<1> USE DEF IInv, TypeOK, StoreTypeOK
<1>1. ASSUME NEW r \in Requests, RequestStep(r)
      PROVE  okRows'[q][e] = 0 /\ failRows'[q][e] = 0
  <2>1. ~Present(e)
    BY <1>1, TrafficStatus DEF Present, ModelStatus
  <2>2. okRows[q][e] = 0 /\ failRows[q][e] = 0
    BY <2>1 DEF NoOrphanRows
  <2>3. RowsEffect(r)
    BY <1>1, RequestStepEffect DEF Effect
  <2>4. CASE RowsUnchanged
    BY <2>2, <2>4 DEF RowsUnchanged
  <2>5. CASE phase[r] \in {"trying", "pumping"}
    <3>1. Current(r) \in Entries
      BY <2>5, CurrentType
    <3>2. ASSUME NEW rows \in [Requests -> [Entries -> Nat]], rows[q][e] = 0
          PROVE  Record(rows, r, Current(r))[q][e] = 0
      <4>1. CASE e = Current(r)
        BY <2>1, <3>2, <4>1 DEF Record
      <4>2. CASE e # Current(r)
        <5> HIDE DEF IInv, TypeOK, StoreTypeOK
        <5>1. \A p \in Requests, d \in Entries :
                 p # r \/ d # Current(r) =>
                    Record(rows, r, Current(r))[p][d] = rows[p][d]
          BY <3>1, <3>2, RecordType
        <5> QED
          BY <3>2, <4>2, <5>1
      <4> QED
        BY <4>1, <4>2
    <3> QED
      BY <2>2, <2>3, <3>2 DEF RowsEffect, RowsUnchanged
  <2> QED
    BY <2>3, <2>4, <2>5 DEF RowsEffect
<1>2. CASE ProbeCollect \/ ProbeAborts \/ Tick \/ UNCHANGED vars
  BY <1>2 DEF ProbeCollect, ProbeAborts, Tick, vars, storeVars, NoOrphanRows, Present
<1>3. ASSUME NEW d \in Entries, Ping(d)
      PROVE  okRows'[q][e] = 0 /\ failRows'[q][e] = 0
  <2>1. PICK b \in BOOLEAN : ProbeEntry(d, b)
    BY <1>3 DEF Ping
  <2>2. DecideStatus(probe[d], b) \in ModelStatus
    BY <2>1 DEF ProbeEntry, DecideStatus, ModelStatus
  <2>3. ~Present(e)
    BY <2>1, <2>2 DEF ProbeEntry, Present
  <2> QED
    BY <2>1, <2>3 DEF ProbeEntry, NoOrphanRows
<1>4. ASSUME NEW d \in Entries, AddEntry(d)
      PROVE  okRows'[q][e] = 0 /\ failRows'[q][e] = 0
  BY <1>4 DEF AddEntry, NoOrphanRows, Present, ModelStatus
<1>5. ASSUME NEW d \in Entries, RemoveEntry(d)
      PROVE  okRows'[q][e] = 0 /\ failRows'[q][e] = 0
  <2>1. CASE e = d
    BY <1>5, <2>1 DEF RemoveEntry
  <2>2. CASE e # d
    BY <1>5, <2>2 DEF RemoveEntry, NoOrphanRows, Present
  <2> QED
    BY <2>1, <2>2
<1> QED
  BY <1>1, <1>2, <1>3, <1>4, <1>5, NextSplit DEF OtherStep

\* The usage log never holds a row of an entry that is gone.
THEOREM NoRowIsOrphaned == Spec => []NoOrphanRows
<1>1. Init => NoOrphanRows
  BY DEF Init, NoOrphanRows
<1> QED
  BY <1>1, InitIInv, StepIInv, StepNoOrphanRows, PTL DEF Spec

-----------------------------------------------------------------------------
(* At most one usage row per attempt.                                      *)

NoRows(q, e) == okRows[q][e] = 0 /\ failRows[q][e] = 0

\* Attempts that are still to come, or that have not been answered yet, have
\* no row.
RowsInv(q) ==
    /\ \A e \in Entries : okRows[q][e] + failRows[q][e] <= 1
    /\ phase[q] = "idle" => \A e \in Entries : NoRows(q, e)
    /\ phase[q] \in {"trying", "pumping"} =>
          \A i \in DOMAIN targets[q] : i >= next[q] => NoRows(q, targets[q][i])
    /\ phase[q] = "demoting" =>
          \A i \in DOMAIN targets[q] : i > next[q] => NoRows(q, targets[q][i])

\* The rows a step of r writes: none but one for the attempt it was making.
LEMMA RowsWritten ==
    ASSUME IInv, NEW r \in Requests, RowsEffect(r), NEW q \in Requests, NEW e \in Entries
    PROVE  \/ okRows'[q][e] = okRows[q][e] /\ failRows'[q][e] = failRows[q][e]
           \/ /\ q = r /\ e = Current(r) /\ phase[r] \in {"trying", "pumping"}
              /\ okRows'[q][e] + failRows'[q][e] <= okRows[q][e] + failRows[q][e] + 1
<1>1. /\ okRows \in [Requests -> [Entries -> Nat]]
      /\ failRows \in [Requests -> [Entries -> Nat]]
  BY DEF IInv, TypeOK, StoreTypeOK
<1>2. CASE RowsUnchanged
  BY <1>2 DEF RowsUnchanged
<1>3. CASE phase[r] \in {"trying", "pumping"} /\ ~RowsUnchanged
  <2>1. Current(r) \in Entries
    BY <1>3, CurrentType
  <2>2. CASE q = r /\ e = Current(r)
    <3>1. ASSUME NEW rows \in [Requests -> [Entries -> Nat]]
          PROVE  Record(rows, r, Current(r))[q][e] \in {rows[q][e], rows[q][e] + 1}
      BY <2>1, <2>2, RecordType
    <3>2. okRows[q][e] \in Nat /\ failRows[q][e] \in Nat
      BY <1>1
    <3> QED
      BY <1>1, <1>3, <2>2, <3>1, <3>2 DEF RowsEffect
  <2>3. CASE ~(q = r /\ e = Current(r))
    <3>1. ASSUME NEW rows \in [Requests -> [Entries -> Nat]]
          PROVE  Record(rows, r, Current(r))[q][e] = rows[q][e]
      BY <2>1, <2>3, RecordType
    <3> QED
      BY <1>1, <1>3, <3>1 DEF RowsEffect
  <2> QED
    BY <2>2, <2>3
<1> QED
  BY <1>2, <1>3 DEF RowsEffect

\* The rows of the handler that moves.
LEMMA RowsOfMover ==
    ASSUME IInv, NEW r \in Requests, RequestStep(r), RowsInv(r)
    PROVE  RowsInv(r)'
<1>1. RowsEffect(r) /\ Moves(r)
  BY RequestStepEffect DEF Effect
<1>2. /\ \A e \in Entries : okRows[r][e] \in Nat /\ failRows[r][e] \in Nat
      /\ \A e \in Entries : okRows'[r][e] \in Nat /\ failRows'[r][e] \in Nat
  BY RequestStepTypes DEF IInv, TypeOK, StoreTypeOK
<1>3. /\ targets[r] \in Seq(Entries) /\ next[r] \in Nat
      /\ \A i \in DOMAIN targets[r] : targets[r][i] \in Entries /\ i \in Nat
      /\ \A i, j \in DOMAIN targets[r] : targets[r][i] = targets[r][j] => i = j
  BY DEF IInv, TypeOK, RequestTypeOK, RequestInv, NoRepetition
<1>4. phase[r] \in {"trying", "pumping"} => /\ next[r] \in DOMAIN targets[r]
                                            /\ Current(r) = targets[r][next[r]]
                                            /\ NoRows(r, Current(r))
  BY <1>3 DEF IInv, RequestInv, InChain, RowsInv, Current
<1>5. \A e \in Entries : okRows'[r][e] + failRows'[r][e] <= 1
  <2> SUFFICES ASSUME NEW e \in Entries PROVE okRows'[r][e] + failRows'[r][e] <= 1
    OBVIOUS
  <2>1. CASE okRows'[r][e] = okRows[r][e] /\ failRows'[r][e] = failRows[r][e]
    BY <2>1 DEF RowsInv
  <2>2. CASE /\ e = Current(r) /\ phase[r] \in {"trying", "pumping"}
             /\ okRows'[r][e] + failRows'[r][e] <= okRows[r][e] + failRows[r][e] + 1
    <3>1. okRows[r][e] = 0 /\ failRows[r][e] = 0
      BY <1>4, <2>2 DEF NoRows
    <3> QED
      BY <1>2, <2>2, <3>1
  <2> QED
    BY <1>1, <2>1, <2>2, RowsWritten
<1>6. ASSUME NEW i \in DOMAIN targets[r], i > next[r],
             phase[r] \in {"trying", "demoting"}
      PROVE  okRows'[r][targets[r][i]] = 0 /\ failRows'[r][targets[r][i]] = 0
  <2>1. NoRows(r, targets[r][i]) /\ targets[r][i] \in Entries
    BY <1>3, <1>6 DEF RowsInv
  <2>2. phase[r] \in {"trying", "pumping"} => targets[r][i] # Current(r)
    BY <1>3, <1>4, <1>6
  <2>3. /\ okRows'[r][targets[r][i]] = okRows[r][targets[r][i]]
        /\ failRows'[r][targets[r][i]] = failRows[r][targets[r][i]]
    BY <1>1, <2>1, <2>2, RowsWritten
  <2> QED
    BY <2>1, <2>3 DEF NoRows
<1>7. CASE phase'[r] \in {"done", "applying", "parking", "closing"}
  BY <1>5, <1>7 DEF RowsInv
<1>8. CASE /\ phase[r] \in {"trying", "demoting"} /\ phase'[r] = "trying"
           /\ targets'[r] = targets[r] /\ next'[r] = next[r] + 1
  <2>1. ASSUME NEW i \in DOMAIN targets[r], i >= next[r] + 1
        PROVE  okRows'[r][targets[r][i]] = 0 /\ failRows'[r][targets[r][i]] = 0
    BY <1>3, <1>6, <1>8, <2>1
  <2> QED
    BY <1>5, <1>8, <2>1 DEF RowsInv, NoRows
<1>9. CASE /\ phase[r] = "trying" /\ phase'[r] = "demoting"
           /\ targets'[r] = targets[r] /\ next'[r] = next[r]
  BY <1>5, <1>6, <1>9 DEF RowsInv, NoRows
<1>10. CASE /\ phase[r] = "trying" /\ phase'[r] = "pumping" /\ RowsUnchanged
            /\ targets'[r] = targets[r] /\ next'[r] = next[r]
  BY <1>5, <1>10 DEF RowsInv, NoRows, RowsUnchanged
<1>11. CASE phase[r] = "idle" /\ phase'[r] = "trying" /\ RowsUnchanged
  <2>1. \A i \in DOMAIN targets'[r] : targets'[r][i] \in Entries
    BY RequestStepGood DEF GoodStep, RequestTypeOK
  <2> QED
    BY <1>5, <1>11, <2>1 DEF RowsInv, NoRows, RowsUnchanged
<1> QED
  BY <1>1, <1>7, <1>8, <1>9, <1>10, <1>11 DEF Moves

LEMMA StepRowsInv ==
    ASSUME IInv, \A q \in Requests : RowsInv(q), [Next]_vars, NEW q \in Requests
    PROVE  RowsInv(q)'
<1>1. ASSUME NEW r \in Requests, RequestStep(r)
      PROVE  RowsInv(q)'
  <2>1. CASE q = r
    BY <1>1, <2>1, RowsOfMover
  <2>2. CASE q # r
    <3>1. \A e \in Entries : okRows'[q][e] = okRows[q][e] /\ failRows'[q][e] = failRows[q][e]
      BY <1>1, <2>2, RequestStepEffect, RowsWritten DEF Effect
    <3>2. /\ phase'[q] = phase[q] /\ targets'[q] = targets[q] /\ next'[q] = next[q]
      BY <1>1, <2>2, RequestStepGood DEF GoodStep, OthersKept
    <3>3. \A i \in DOMAIN targets[q] : targets[q][i] \in Entries
      BY DEF IInv, TypeOK, RequestTypeOK
    <3>4. RowsInv(q)
      OBVIOUS
    <3> QED
      BY <3>1, <3>2, <3>3, <3>4 DEF RowsInv, NoRows
  <2> QED
    BY <2>1, <2>2
<1>2. CASE OtherStep \/ UNCHANGED vars
  <2>1. phase' = phase /\ targets' = targets /\ next' = next
    BY <1>2, OtherStepKeeps DEF reqVars
  <2>2. \A e \in Entries : \/ okRows'[q][e] = okRows[q][e] /\ failRows'[q][e] = failRows[q][e]
                           \/ okRows'[q][e] = 0 /\ failRows'[q][e] = 0
    <3>1. CASE \E d \in Entries : RemoveEntry(d)
      BY <3>1 DEF RemoveEntry, IInv, TypeOK, StoreTypeOK
    <3>2. CASE ~\E d \in Entries : RemoveEntry(d)
      BY <1>2, <3>2 DEF OtherStep, ProbeCollect, ProbeAborts, Ping, ProbeEntry,
         AddEntry, Tick, vars, storeVars
    <3> QED
      BY <3>1, <3>2
  <2>3. \A i \in DOMAIN targets[q] : targets[q][i] \in Entries
    BY DEF IInv, TypeOK, RequestTypeOK
  <2>4. RowsInv(q)
    OBVIOUS
  <2> QED
    BY <2>1, <2>2, <2>3, <2>4 DEF RowsInv, NoRows
<1> QED
  BY <1>1, <1>2, NextSplit

\* Whichever of the reply, the attempt timeout and the client's disconnection
\* comes first, an attempt is logged at most once.
THEOREM LoggedAtMostOnce == Spec => []AtMostOneRow
<1> DEFINE AllRowsInv == \A q \in Requests : RowsInv(q)
<1>1. Init => AllRowsInv
  BY DEF Init, RowsInv, NoRows
<1>2. IInv /\ AllRowsInv /\ [Next]_vars => AllRowsInv'
  BY StepRowsInv
<1>3. AllRowsInv => AtMostOneRow
  BY DEF RowsInv, AtMostOneRow
<1> HIDE DEF AllRowsInv
<1> QED
  BY <1>1, <1>2, <1>3, InitIInv, StepIInv, PTL DEF Spec
-----------------------------------------------------------------------------
(* Rate limits.                                                            *)

\* A snapshot leaves out nothing of the set it lists.
LEMMA ListingCovers ==
    ASSUME NEW S \in SUBSET Entries, NEW s \in Listings(S)
    PROVE  {s[i] : i \in DOMAIN s} = S
<1> DEFINE N == 1..Cardinality(S)
<1>1. IsFiniteSet(S) /\ Cardinality(S) \in Nat
  BY EntriesAssumption, FS_Subset, FS_CardinalityType
<1>2. IsFiniteSet(N) /\ Cardinality(N) = Cardinality(S)
  BY <1>1, FS_Interval
<1>3. s \in Injection(N, S)
  BY DEF Listings, Injection, IsInjective
<1>4. s \in Surjection(N, S)
  BY <1>1, <1>2, <1>3, FS_Injection
<1>5. DOMAIN s = N /\ \A e \in S : \E i \in N : s[i] = e
  BY <1>4 DEF Surjection
<1>6. \A i \in N : s[i] \in S
  BY DEF Listings
<1> HIDE DEF N
<1> QED
  BY <1>5, <1>6

\* A handler that has not begun has no answer, and one that parks has a 429.
ThrottleInv(q) ==
    /\ phase[q] = "idle" => answer[q] = "none"
    /\ phase[q] = "parking" => failures[q][mark[q] + 1].class = "quota"

\* Only a request that is about to act on a 429 gets to park its entry.
LEMMA ParkingIsQuota ==
    ASSUME IInv, NEW r \in Requests, RequestStep(r), phase'[r] = "parking"
    PROVE  failures'[r][mark'[r] + 1].class = "quota"
<1>1. phase \in [Requests -> Phases]
  BY DEF IInv, TypeOK, RequestTypeOK
<1>2. ASSUME NEW p, Goto(r, p) PROVE p = "parking"
  BY <1>1, <1>2 DEF Goto
<1>3. ASSUME NEW a, Finish(r, a) PROVE FALSE
  BY <1>2, <1>3 DEF Finish
<1>4. ~NextTarget(r) /\ ~NextFailure(r)
  BY <1>2, <1>3 DEF NextTarget, NextFailure, Step
<1>5. \A c, h : ~Fail(r, c, h)
  BY <1>2 DEF Fail, Step
<1>6. ~Upstream(r)
  BY <1>2, <1>3, <1>4, <1>5 DEF Upstream, BufferedSuccess, BufferedTimeout,
     BufferedFailure, StreamSkip, StreamCommit, StreamEnd, StreamFailure,
     PumpFailure, StreamFails, NativeFailure, NativeBroken
<1>7. ~Park(r) /\ ~StreamDemote(r) /\ ~PumpDemote(r)
  BY <1>3, <1>4 DEF Park, StreamDemote, PumpDemote
<1>8. ~PumpAbandoned(r) /\ ~Abandon(r) /\ \A img \in Images : ~CacheHit(r, img)
  BY <1>3 DEF PumpAbandoned, Abandon, CacheHit
<1>9. \A sfc \in Surfaces, img \in Images : ~ResolveNone(r, sfc, img) /\ ~Resolve(r, sfc, img)
  BY <1>2, <1>3 DEF ResolveNone, Resolve
<1>10. ApplyFailure(r)
  BY <1>6, <1>7, <1>8, <1>9 DEF RequestStep, Handler
<1> QED
  BY <1>4, <1>10 DEF ApplyFailure

LEMMA StepThrottleInv ==
    ASSUME IInv, \A q \in Requests : ThrottleInv(q), [Next]_vars, NEW q \in Requests
    PROVE  ThrottleInv(q)'
<1>1. ASSUME NEW r \in Requests, RequestStep(r) PROVE ThrottleInv(q)'
  <2>1. CASE q = r
    <3>1. phase'[r] # "idle"
      BY <1>1, RequestStepEffect DEF Effect, Moves
    <3> QED
      BY <1>1, <2>1, <3>1, ParkingIsQuota DEF ThrottleInv
  <2>2. CASE q # r
    <3>1. OthersKept(r) /\ ThrottleInv(q)
      BY <1>1, RequestStepGood DEF GoodStep
    <3> QED
      BY <2>2, <3>1 DEF OthersKept, ThrottleInv
  <2> QED
    BY <2>1, <2>2
<1>2. CASE OtherStep \/ UNCHANGED vars
  <2>1. UNCHANGED reqVars /\ ThrottleInv(q)
    BY <1>2, OtherStepKeeps
  <2> QED
    BY <2>1 DEF reqVars, ThrottleInv
<1> QED
  BY <1>1, <1>2, NextSplit

\* What ThrottledKeysRest says of a request that begins, and of a window that
\* changes.
Able(img) == {e \in Entries : /\ status[e] \in {"healthy", "degraded"}
                              /\ img => vision[e]}
Resting(img) == {e \in Able(img) : cooldown[e] > clock}

BeginsWell(q, img) ==
    \/ Able(img) = {} /\ answer'[q] = "empty"
    \/ Able(img) # {} /\ answer'[q] = "ok"
    \/ /\ Able(img) # {} /\ answer'[q] = "none"
       /\ {targets'[q][i] : i \in DOMAIN targets'[q]} =
             IF Resting(img) = Able(img) THEN Able(img) ELSE Able(img) \ Resting(img)

ParkedBy(r, e) ==
    /\ phase[r] = "parking" /\ phase'[r] # "parking"
    /\ failures[r][mark[r] + 1].entry = e
    /\ failures[r][mark[r] + 1].class = "quota"
    /\ cooldown'[e] = clock + failures[r][mark[r] + 1].hint

\* A snapshot is all that is able and warm, or all that is able.
LEMMA CandidatesAreAble ==
    ASSUME IInv, NEW img \in Images
    PROVE  /\ Able(img) = Live(img)
           /\ Candidates(img) =
                IF Resting(img) = Able(img) THEN Able(img) ELSE Able(img) \ Resting(img)
<1>1. Able(img) = Live(img)
  BY DEF Able, Live
<1>2. \A e \in Entries : cooldown[e] \in Nat /\ clock \in Nat
  BY DEF IInv, TypeOK, StoreTypeOK
<1>3. Warm(img) = Able(img) \ Resting(img)
  BY <1>1, <1>2 DEF Warm, Resting, Able
<1>4. Resting(img) = Able(img) <=> Warm(img) = {}
  BY <1>3 DEF Resting
<1> QED
  BY <1>1, <1>3, <1>4 DEF Candidates

LEMMA RequestsBeginWell ==
    ASSUME IInv, NEW q \in Requests, ThrottleInv(q), [Next]_vars,
           phase[q] = "idle", phase'[q] # "idle"
    PROVE  \E img \in Images : BeginsWell(q, img)
<1>1. phase \in [Requests -> Phases] /\ answer \in [Requests -> Answers]
      /\ targets \in [Requests -> Seq(Entries)]
  BY DEF IInv, TypeOK, RequestTypeOK
<1>2. PICK r \in Requests : RequestStep(r)
  <2>1. ~(OtherStep \/ UNCHANGED vars)
    BY OtherStepKeeps DEF reqVars
  <2> QED
    BY <2>1, NextSplit
<1>3. q = r
  BY <1>2, RequestStepGood DEF GoodStep, OthersKept
<1>4. ~Handler(q) /\ ~PumpAbandoned(q) /\ ~Abandon(q)
  BY DEF Handler, Upstream, BufferedSuccess, BufferedTimeout, BufferedFailure,
     StreamSkip, StreamCommit, StreamEnd, StreamFailure, PumpFailure, NativeFailure,
     NativeBroken, ApplyFailure, Park, StreamDemote, PumpDemote, PumpAbandoned, Abandon
<1>5. ASSUME NEW sfc \in Surfaces, NEW img \in Images, ResolveNone(q, sfc, img)
      PROVE  BeginsWell(q, img)
  BY <1>1, <1>5, CandidatesAreAble DEF ResolveNone, Finish, BeginsWell
<1>6. ASSUME NEW img \in Images, CacheHit(q, img)
      PROVE  BeginsWell(q, img)
  BY <1>1, <1>6, CandidatesAreAble DEF CacheHit, Finish, BeginsWell
<1>7. ASSUME NEW sfc \in Surfaces, NEW img \in Images, Resolve(q, sfc, img)
      PROVE  BeginsWell(q, img)
  <2>1. PICK s \in Listings(Candidates(img)) : targets' = [targets EXCEPT ![q] = s]
    BY <1>7 DEF Resolve
  <2>2. Candidates(img) \in SUBSET Entries /\ Live(img) # {}
    BY <1>7, CandidatesType DEF Resolve
  <2>3. {targets'[q][i] : i \in DOMAIN targets'[q]} = Candidates(img)
    BY <1>1, <2>1, <2>2, ListingCovers
  <2>4. answer'[q] = "none"
    BY <1>7 DEF Resolve, ThrottleInv
  <2> QED
    BY <2>2, <2>3, <2>4, CandidatesAreAble DEF BeginsWell
<1> QED
  BY <1>2, <1>3, <1>4, <1>5, <1>6, <1>7 DEF RequestStep

LEMMA WindowsAreSet ==
    ASSUME IInv, \A q \in Requests : ThrottleInv(q), [Next]_vars,
           NEW e \in Entries, cooldown'[e] # cooldown[e]
    PROVE  \E r \in Requests : ParkedBy(r, e)
<1>1. ~(OtherStep \/ UNCHANGED vars)
  BY DEF OtherStep, ProbeCollect, ProbeAborts, Ping, ProbeEntry, AddEntry, RemoveEntry,
     Tick, vars, storeVars
<1>2. PICK r \in Requests : RequestStep(r)
  BY <1>1, NextSplit
<1>3. ~Upstream(r)
  BY DEF Upstream, BufferedSuccess, BufferedTimeout, BufferedFailure, Fail, StreamSkip,
     StreamCommit, StreamEnd, StreamFailure, PumpFailure, StreamFails, NativeFailure,
     NativeBroken, storeVars
<1>4. Park(r)
  BY <1>2, <1>3 DEF RequestStep, Handler, ResolveNone, Resolve, CacheHit, ApplyFailure,
     StreamDemote, PumpDemote, PumpAbandoned, Abandon, storeVars
<1>5. phase'[r] # "parking"
  <2>1. phase \in [Requests -> Phases]
    BY DEF IInv, TypeOK, RequestTypeOK
  <2> QED
    BY <1>4, <2>1 DEF Park, NextFailure, Finish, Goto
<1>6. cooldown \in [Entries -> Nat]
  BY DEF IInv, TypeOK, StoreTypeOK
<1>7. /\ failures[r][mark[r] + 1].entry = e
      /\ cooldown'[e] = clock + failures[r][mark[r] + 1].hint
  BY <1>4, <1>6 DEF Park
<1> QED
  BY <1>4, <1>5, <1>7 DEF Park, ParkedBy, ThrottleInv

\* A throttled entry sits out while another can serve, a chain that is cooling
\* as a whole is tried as a whole, and a window is set by a 429 and by nothing
\* else.
THEOREM ThrottlingRespected == Spec => ThrottledKeysRest
<1> DEFINE AllThrottleInv == \A q \in Requests : ThrottleInv(q)
           Begins == \A q \in Requests : phase[q] = "idle" /\ phase'[q] # "idle" =>
                        \E img \in Images : BeginsWell(q, img)
           Sets == \A e \in Entries : cooldown'[e] # cooldown[e] =>
                        \E r \in Requests : ParkedBy(r, e)
<1>1. Init => AllThrottleInv
  BY DEF Init, ThrottleInv
<1>2. IInv /\ AllThrottleInv /\ [Next]_vars => AllThrottleInv'
  BY StepThrottleInv
<1>3. IInv /\ AllThrottleInv /\ [Next]_vars => [Begins /\ Sets]_vars
  BY RequestsBeginWell, WindowsAreSet
<1>4. [Begins /\ Sets]_vars =>
        [/\ \A r \in Requests : phase[r] = "idle" /\ phase'[r] # "idle" =>
               \E img \in Images :
                  LET able == {e \in Entries : /\ status[e] \in {"healthy", "degraded"}
                                               /\ img => vision[e]}
                      resting == {e \in able : cooldown[e] > clock}
                      chosen == {targets'[r][i] : i \in DOMAIN targets'[r]}
                  IN  \/ able = {} /\ answer'[r] = "empty"
                      \/ able # {} /\ answer'[r] = "ok"
                      \/ /\ able # {} /\ answer'[r] = "none"
                         /\ chosen = IF resting = able THEN able ELSE able \ resting
         /\ \A e \in Entries : cooldown'[e] # cooldown[e] =>
               \E r \in Requests :
                  /\ phase[r] = "parking" /\ phase'[r] # "parking"
                  /\ failures[r][mark[r] + 1].entry = e
                  /\ failures[r][mark[r] + 1].class = "quota"
                  /\ cooldown'[e] = clock + failures[r][mark[r] + 1].hint]_vars
  BY DEF BeginsWell, ParkedBy, Able, Resting
<1> HIDE DEF AllThrottleInv, Begins, Sets
<1> QED
  BY <1>1, <1>2, <1>3, <1>4, InitIInv, StepIInv, PTL DEF Spec, ThrottledKeysRest
=============================================================================
