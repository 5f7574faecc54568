---------------------------- MODULE StreamProofs ----------------------------
(***************************************************************************)
(* What StreamRelay guarantees for streams of any length over a channel of *)
(* any capacity.                                                           *)
(***************************************************************************)
EXTENDS StreamRelay, TLAPS

Words == AllKinds \cup {"cut"}

LEMMA Assumptions ==
    /\ Modes \subseteq AllModes /\ Kinds \subseteq AllKinds
    /\ MaxFrames \in Nat /\ Capacity \in Nat /\ Capacity >= 1
BY ModesAssumption, KindsAssumption, MaxFramesAssumption, CapacityAssumption

-----------------------------------------------------------------------------
(* The bookkeeping of an attempt.                                          *)

\* The frames that have been handled.
Handled == Len(said) - Len(pending)

\* The queue holds the last numbers, in order.
QueueInv ==
    /\ Len(pending) <= Len(said)
    /\ \A i \in 1..Len(pending) : pending[i] = Handled + i

PhaseInv ==
    /\ phase = "probing" => Handled = 0 /\ ~spoke
    /\ phase \in {"probing", "failed"} => read = <<>> /\ channel = <<>>
    /\ phase \in {"pumping", "sentinel", "closing", "done"} =>
          said # <<>> /\ said[1] # "error"
    /\ phase = "gone" /\ said # <<>> /\ said[1] = "error" =>
          read = <<>> /\ channel = <<>>
    /\ phase \in {"probing", "pumping", "sentinel"} => failure = "none"
    /\ phase = "sentinel" => Len(said) >= 1 /\ Handled >= 1
    /\ client = "gone" => channel = <<>>
    /\ row = IF phase # "done" THEN "none" ELSE IF failure = "none" THEN "ok" ELSE "failed"

IInv == TypeOK /\ QueueInv /\ PhaseInv

\* The first frame in the queue is the next one after those handled.
LEMMA HeadIsNext ==
    ASSUME TypeOK, QueueInv, pending # <<>>
    PROVE  /\ Next1 = Handled + 1 /\ Next1 \in DOMAIN said /\ said[Next1] \in Words
           /\ Len(Tail(pending)) = Len(pending) - 1 /\ Tail(pending) \in Seq(Nat \ {0})
           /\ \A i \in 1..Len(Tail(pending)) : Tail(pending)[i] = Handled + 1 + i
<1>1. Len(pending) \in Nat /\ Len(pending) >= 1 /\ Len(said) \in Nat
  BY DEF TypeOK
<1>2. Next1 = pending[1] /\ Next1 = Handled + 1
  BY <1>1 DEF Next1, QueueInv
<1>3. Next1 \in DOMAIN said /\ said[Next1] \in Words
  BY <1>1, <1>2 DEF QueueInv, Handled, TypeOK, Words
<1>4. /\ Len(Tail(pending)) = Len(pending) - 1 /\ Tail(pending) \in Seq(Nat \ {0})
      /\ \A i \in 1..Len(Tail(pending)) : Tail(pending)[i] = pending[i + 1]
  BY <1>1 DEF TypeOK
<1>5. \A i \in 1..Len(Tail(pending)) : pending[i + 1] = Handled + (i + 1)
  BY <1>1, <1>4 DEF QueueInv
<1> QED
  BY <1>1, <1>2, <1>3, <1>4, <1>5 DEF Handled

LEMMA InitIInv == Init => IInv
<1> SUFFICES ASSUME Init PROVE IInv
  OBVIOUS
<1>1. TypeOK
  <2>1. said \in Seq(AllKinds \cup {"cut"}) /\ pending \in Seq(Nat \ {0})
    BY DEF Init
  <2>2. channel \in Seq(Nat \X Nat) /\ read \in Seq(Nat \X Nat) /\ Len(channel) <= Capacity
    BY Assumptions DEF Init
  <2>3. /\ mode \in AllModes /\ half \in BOOLEAN /\ ended \in BOOLEAN /\ spoke \in BOOLEAN
        /\ phase \in Phases /\ client \in {"reading", "gone"}
        /\ failure \in {"none", "idle", "transport", "error"} /\ row \in {"none", "ok", "failed"}
    BY Assumptions DEF Init, Phases
  <2> QED
    BY <2>1, <2>2, <2>3 DEF TypeOK
<1>2. QueueInv
  BY DEF Init, QueueInv, Handled
<1>3. PhaseInv
  BY DEF Init, PhaseInv, Handled
<1> QED
  BY <1>1, <1>2, <1>3 DEF IInv

-----------------------------------------------------------------------------
(* The steps.                                                              *)

\* Sending puts the item behind those in the channel, if anybody reads.
LEMMA SendType ==
    ASSUME TypeOK, PhaseInv, NEW item \in Nat \X Nat, Send(item)
    PROVE  /\ channel' \in Seq(Nat \X Nat) /\ Len(channel') <= Capacity
           /\ read' \in Seq(Nat \X Nat) /\ client' \in {"reading", "gone"}
           /\ client' = "gone" => channel' = <<>>
           /\ read' = read /\ client' = client
BY Assumptions DEF TypeOK, PhaseInv, Send, Room

LEMMA UpstreamStep == ASSUME IInv, Upstream PROVE IInv'
<1>1. CASE \E new \in Chunks, cutsFrame \in BOOLEAN : Chunk(new, cutsFrame)
  <2>1. PICK new \in Chunks, cutsFrame \in BOOLEAN : Chunk(new, cutsFrame)
    BY <1>1
  <2>2. new \in Seq(Words) /\ Len(new) \in Nat
    BY Assumptions, <2>1 DEF Chunks, Words
  <2>3. /\ said' \in Seq(Words) /\ Len(said') = Len(said) + Len(new) /\ Len(said) \in Nat
        /\ said # <<>> => said' # <<>> /\ said'[1] = said[1]
    BY <2>1, <2>2 DEF Chunk, IInv, TypeOK, Words
  <2>4. /\ pending' \in Seq(Nat \ {0}) /\ Len(pending') = Len(new)
        /\ \A i \in 1..Len(new) : pending'[i] = Len(said) + i
    BY <2>1, <2>2, <2>3 DEF Chunk
  <2>5. Handled' = Len(said) /\ pending = <<>>
    BY <2>1, <2>2, <2>3, <2>4 DEF Handled, Chunk, Awaiting
  <2>6. TypeOK'
    BY <2>1, <2>3, <2>4 DEF Chunk, IInv, TypeOK, Words, clientVars
  <2>7. QueueInv'
    BY <2>2, <2>3, <2>4, <2>5 DEF QueueInv
  <2>8. PhaseInv'
    BY <2>1, <2>3, <2>5 DEF Chunk, IInv, TypeOK, PhaseInv, Handled, clientVars, Awaiting
  <2> QED
    BY <2>6, <2>7, <2>8 DEF IInv
<1>2. CASE \E k \in Kinds \cup {"cut"} : EndWithFrame(k)
  <2>1. PICK k \in Kinds \cup {"cut"} : EndWithFrame(k)
    BY <1>2
  <2>2. k \in Words
    BY Assumptions DEF Words
  <2>3. /\ said' \in Seq(Words) /\ Len(said') = Len(said) + 1 /\ Len(said) \in Nat
        /\ said # <<>> => said' # <<>> /\ said'[1] = said[1]
    <3>1. said \in Seq(Words) /\ said' = Append(said, k)
      BY <2>1 DEF EndWithFrame, IInv, TypeOK, Words
    <3> QED
      BY <2>2, <3>1
  <2>4. /\ pending' \in Seq(Nat \ {0}) /\ Len(pending') = 1 /\ pending'[1] = Len(said) + 1
    BY <2>1, <2>3 DEF EndWithFrame
  <2>5. Handled' = Len(said) /\ pending = <<>>
    BY <2>1, <2>3, <2>4 DEF Handled, EndWithFrame, Awaiting
  <2>6. TypeOK'
    BY <2>1, <2>3, <2>4 DEF EndWithFrame, IInv, TypeOK, Words, clientVars
  <2>7. QueueInv'
    BY <2>3, <2>4, <2>5 DEF QueueInv
  <2>8. PhaseInv'
    BY <2>1, <2>3, <2>5 DEF EndWithFrame, IInv, TypeOK, PhaseInv, Handled, clientVars, Awaiting
  <2> QED
    BY <2>6, <2>7, <2>8 DEF IInv
<1> QED
  BY <1>1, <1>2 DEF Upstream

\* Dropping the queue leaves it in order.
LEMMA QueueDropped ==
    ASSUME TypeOK, UNCHANGED said, pending' = <<>>
    PROVE  pending' \in Seq(Nat \ {0}) /\ QueueInv'
<1>1. pending' \in Seq(Nat \ {0}) /\ Len(pending') = 0 /\ Len(said') \in Nat
  <2>1. <<>> \in Seq(Nat \ {0}) /\ Len(<<>>) = 0
    OBVIOUS
  <2> QED
    BY <2>1 DEF TypeOK
<1> QED
  BY <1>1 DEF QueueInv

LEMMA ProbeStep == ASSUME IInv, Probe PROVE IInv'
<1>1. /\ Next1 = Handled + 1 /\ Len(said) \in Nat /\ Len(pending) \in Nat
      /\ Next1 \in DOMAIN said
  BY HeadIsNext DEF Probe, IInv, TypeOK
<1>2. said # <<>> /\ Next1 = 1
  BY <1>1 DEF Probe, IInv, PhaseInv
<1>3. pending' \in Seq(Nat \ {0}) /\ QueueInv'
  <2>1. CASE pending' = <<>>
    BY <2>1, QueueDropped DEF Probe, upstreamVars, IInv
  <2>2. CASE pending' = pending
    BY <2>2 DEF Probe, upstreamVars, IInv, TypeOK, QueueInv, Handled
  <2> QED
    BY <2>1, <2>2 DEF Probe, HandOver
<1>4. TypeOK'
  BY <1>3 DEF Probe, IInv, TypeOK, Phases, upstreamVars, clientVars
<1>5. PhaseInv'
  BY <1>1, <1>2 DEF Probe, HandOver, Refused, Next1, IInv, TypeOK, PhaseInv, Handled,
                    upstreamVars, clientVars
<1> QED
  BY <1>3, <1>4, <1>5 DEF IInv

\* While the probe waits, the upstream's end fails the attempt; while the pump
\* waits, it breaks the loop.
LEMMA WaitStep == ASSUME IInv, End \/ Idle \/ Transport PROVE IInv'
<1>1. /\ said' = said /\ pending' = pending /\ mode' = mode /\ row' = row /\ spoke' = spoke
      /\ half' \in BOOLEAN /\ ended' \in BOOLEAN /\ Awaiting
  BY DEF End, Idle, Transport, upstreamVars, IInv, TypeOK
<1>2. \/ phase = "probing" /\ phase' = "failed" /\ failure' = failure
      \/ phase = "pumping" /\ phase' = "closing" /\ failure' \in {"none", "idle", "transport"}
  BY DEF End, Idle, Transport, Break
<1>3. UNCHANGED clientVars \/ (phase = "pumping" /\ Send(Broken))
  BY DEF End, Idle, Transport
<1>4. /\ channel' \in Seq(Nat \X Nat) /\ Len(channel') <= Capacity
      /\ read' \in Seq(Nat \X Nat) /\ client' \in {"reading", "gone"}
      /\ client' = "gone" => channel' = <<>>
      /\ phase = "probing" => read' = read /\ channel' = channel
  <2>1. CASE UNCHANGED clientVars
    BY <2>1 DEF clientVars, IInv, TypeOK, PhaseInv
  <2>2. CASE phase = "pumping" /\ Send(Broken)
    BY <2>2, SendType DEF Broken, IInv
  <2> QED
    BY <1>3, <2>1, <2>2
<1>5. TypeOK'
  BY <1>1, <1>2, <1>4 DEF IInv, TypeOK, Phases
<1>6. QueueInv'
  BY <1>1 DEF IInv, QueueInv, Handled
<1>7. PhaseInv'
  BY <1>1, <1>2, <1>4 DEF IInv, PhaseInv, Handled
<1> QED
  BY <1>5, <1>6, <1>7 DEF IInv

LEMMA PumpStep ==
    ASSUME IInv, PumpTerminal \/ PumpOther \/ PumpReturns \/ PumpSentinel \/ PumpLogs
    PROVE  IInv'
<1> USE DEF upstreamVars, clientVars
<1> Len(said) \in Nat /\ Len(pending) \in Nat
  BY DEF IInv, TypeOK
<1>1. CASE PumpTerminal
  <2>1. /\ Next1 \in Nat /\ pending' = Tail(pending) /\ pending' \in Seq(Nat \ {0})
        /\ Len(pending') = Len(pending) - 1 /\ Next1 = Handled + 1 /\ Next1 \in DOMAIN said
        /\ \A i \in 1..Len(pending') : pending'[i] = Handled + 1 + i
    BY <1>1, HeadIsNext DEF PumpTerminal, IInv, TypeOK
  <2>2. /\ channel' \in Seq(Nat \X Nat) /\ Len(channel') <= Capacity
        /\ read' \in Seq(Nat \X Nat) /\ client' \in {"reading", "gone"}
        /\ client' = "gone" => channel' = <<>>
    <3>1. <<Next1, 1>> \in Nat \X Nat
      BY <2>1
    <3> QED
      BY <1>1, <3>1, SendType DEF PumpTerminal, IInv
  <2>3. phase' = "closing" /\ failure' \in {"none", "error"} /\ UNCHANGED <<upstreamVars, spoke, row>>
    BY <1>1 DEF PumpTerminal, Break
  <2>4. TypeOK'
    BY <2>1, <2>2, <2>3 DEF IInv, TypeOK, Phases
  <2>5. Handled' = Handled + 1 /\ QueueInv'
    BY <2>1, <2>3 DEF IInv, QueueInv, Handled
  <2>6. PhaseInv'
    BY <1>1, <2>2, <2>3 DEF PumpTerminal, IInv, PhaseInv
  <2> QED
    BY <2>4, <2>5, <2>6 DEF IInv
<1>2. CASE PumpOther
  <2>1. /\ Next1 \in Nat /\ pending' = Tail(pending) /\ pending' \in Seq(Nat \ {0})
        /\ Len(pending') = Len(pending) - 1 /\ Next1 = Handled + 1 /\ Next1 \in DOMAIN said
        /\ \A i \in 1..Len(pending') : pending'[i] = Handled + 1 + i
    BY <1>2, HeadIsNext DEF PumpOther, IInv, TypeOK
  <2>2. /\ channel' \in Seq(Nat \X Nat) /\ Len(channel') <= Capacity
        /\ read' \in Seq(Nat \X Nat) /\ client' \in {"reading", "gone"}
        /\ client' = "gone" => channel' = <<>>
    <3>1. <<Next1, 1>> \in Nat \X Nat
      BY <2>1
    <3>2. CASE Send(<<Next1, 1>>)
      BY <3>1, <3>2, SendType DEF IInv
    <3>3. CASE UNCHANGED clientVars
      BY <3>3 DEF IInv, TypeOK, PhaseInv
    <3> QED
      BY <1>2, <3>2, <3>3 DEF PumpOther
  <2>3. /\ phase = "pumping" /\ phase' \in {"pumping", "sentinel"}
        /\ spoke' \in BOOLEAN /\ UNCHANGED <<upstreamVars, failure, row>>
    BY <1>2 DEF PumpOther, IInv, TypeOK
  <2>4. TypeOK'
    BY <2>1, <2>2, <2>3 DEF IInv, TypeOK, Phases
  <2>5. Handled' = Handled + 1 /\ QueueInv'
    BY <2>1, <2>3 DEF IInv, QueueInv, Handled
  <2>6. Handled \in Nat
    BY DEF Handled, IInv, QueueInv
  <2>7. PhaseInv'
    BY <2>1, <2>2, <2>3, <2>5, <2>6 DEF IInv, PhaseInv
  <2> QED
    BY <2>4, <2>5, <2>7 DEF IInv
<1>3. CASE PumpReturns
  <2>1. pending' \in Seq(Nat \ {0}) /\ QueueInv'
    BY <1>3, QueueDropped DEF PumpReturns, IInv
  <2>2. TypeOK'
    BY <1>3, <2>1 DEF PumpReturns, IInv, TypeOK, Phases
  <2>3. PhaseInv'
    BY <1>3 DEF PumpReturns, IInv, PhaseInv
  <2> QED
    BY <2>1, <2>2, <2>3 DEF IInv
<1>4. CASE PumpSentinel
  <2>1. Handled \in Nat /\ <<Len(said) - Len(pending), 2>> \in Nat \X Nat
    BY DEF IInv, QueueInv, Handled
  <2>2. /\ channel' \in Seq(Nat \X Nat) /\ Len(channel') <= Capacity
        /\ read' \in Seq(Nat \X Nat) /\ client' \in {"reading", "gone"}
        /\ client' = "gone" => channel' = <<>>
    BY <1>4, <2>1, SendType DEF PumpSentinel, IInv
  <2>3. phase' = "closing" /\ failure' = "none" /\ UNCHANGED <<upstreamVars, pending, spoke, row>>
    BY <1>4 DEF PumpSentinel, Break
  <2>4. TypeOK'
    BY <2>2, <2>3 DEF IInv, TypeOK, Phases
  <2>5. QueueInv'
    BY <2>3 DEF IInv, QueueInv, Handled
  <2>6. PhaseInv'
    BY <1>4, <2>2, <2>3 DEF PumpSentinel, IInv, PhaseInv
  <2> QED
    BY <2>4, <2>5, <2>6 DEF IInv
<1>5. CASE PumpLogs
  <2>1. TypeOK'
    BY <1>5 DEF PumpLogs, IInv, TypeOK, Phases
  <2>2. QueueInv'
    BY <1>5 DEF PumpLogs, IInv, QueueInv, Handled
  <2>3. PhaseInv'
    BY <1>5 DEF PumpLogs, IInv, PhaseInv
  <2> QED
    BY <2>1, <2>2, <2>3 DEF IInv
<1> QED
  BY <1>1, <1>2, <1>3, <1>4, <1>5

LEMMA ClientStep == ASSUME IInv, Receive \/ Leave PROVE IInv'
<1> USE DEF upstreamVars
<1>1. CASE Receive
  <2>1. /\ Head(channel) \in Nat \X Nat /\ Tail(channel) \in Seq(Nat \X Nat)
        /\ Len(Tail(channel)) = Len(channel) - 1 /\ Len(channel) \in Nat
    BY <1>1 DEF Receive, IInv, TypeOK
  <2>2. read' \in Seq(Nat \X Nat)
    BY <1>1, <2>1 DEF Receive, IInv, TypeOK
  <2>3. TypeOK'
    BY <1>1, <2>1, <2>2, Assumptions DEF Receive, IInv, TypeOK
  <2>4. QueueInv'
    BY <1>1 DEF Receive, IInv, QueueInv, Handled
  <2>5. PhaseInv'
    BY <1>1 DEF Receive, IInv, PhaseInv, Handled
  <2> QED
    BY <2>3, <2>4, <2>5 DEF IInv
<1>2. CASE Leave
  <2>1. pending' \in Seq(Nat \ {0}) /\ QueueInv'
    <3>1. CASE pending' = <<>>
      BY <1>2, <3>1, QueueDropped DEF Leave, IInv
    <3>2. CASE pending' = pending
      BY <1>2, <3>2 DEF Leave, IInv, TypeOK, QueueInv, Handled
    <3> QED
      BY <1>2, <3>1, <3>2 DEF Leave
  <2>2. TypeOK'
    <3>1. channel' \in Seq(Nat \X Nat) /\ Len(channel') <= Capacity
      BY <1>2, Assumptions DEF Leave
    <3> QED
      BY <1>2, <2>1, <3>1 DEF Leave, IInv, TypeOK, Phases
  <2>3. PhaseInv'
    BY <1>2 DEF Leave, IInv, PhaseInv, Handled
  <2> QED
    BY <2>1, <2>2, <2>3 DEF IInv
<1> QED
  BY <1>1, <1>2

LEMMA StepIInv == IInv /\ [Next]_vars => IInv'
<1> SUFFICES ASSUME IInv, [Next]_vars PROVE IInv'
  OBVIOUS
<1>1. CASE UNCHANGED vars
  BY <1>1 DEF vars, upstreamVars, clientVars, IInv, TypeOK, QueueInv, PhaseInv, Handled
<1> QED
  BY <1>1, UpstreamStep, ProbeStep, WaitStep, PumpStep, ClientStep DEF Next, Attempt

\* In every reachable state the bookkeeping of the attempt is in order.
THEOREM Bookkeeping == Spec => []IInv
BY InitIInv, StepIInv, PTL DEF Spec

\* Every variable keeps its type, and the channel never holds more than it can.
THEOREM TypeCorrectness == Spec => []TypeOK
<1>1. IInv => TypeOK
  BY DEF IInv
<1> QED
  BY <1>1, Bookkeeping, PTL

\* An attempt that its first frame refuses, or that breaks before it, leaves
\* nothing at the client and no usage row: the next target may be tried.
THEOREM RefusalLeavesNoTrace == Spec => []FirstErrorFailsOver
<1>1. IInv => FirstErrorFailsOver
  <2> SUFFICES ASSUME IInv, (said # <<>> /\ said[1] = "error") \/ phase = "failed"
               PROVE  Sent = <<>> /\ row = "none"
    BY DEF FirstErrorFailsOver
  <2>1. phase \in {"probing", "failed", "gone"}
    BY DEF IInv, TypeOK, Phases, PhaseInv
  <2>2. read = <<>> /\ channel = <<>> /\ row = "none"
    BY <2>1 DEF IInv, PhaseInv
  <2> QED
    BY <2>2 DEF Sent
<1> QED
  BY <1>1, Bookkeeping, PTL

-----------------------------------------------------------------------------
(* What has been sent.                                                     *)

Loud == {"text", "stop", "start"}

\* Frame i of s is one that clients of mode m see.
Visible(m, s, i) ==
    /\ \A j \in 1..(i - 1) : ~Terminal(m, s[j])
    /\ Terminal(m, s[i]) \/ Renders(m, s[i], \A j \in 1..(i - 1) : s[j] \notin Loud)

\* The items of the first n frames.
Items(m, s, n) ==
    {<<i, 1>> : i \in {j \in 1..n : Visible(m, s, j)}}
        \cup {<<i, 2>> : i \in {j \in 1..n : Visible(m, s, j) /\ m = "translated" /\ s[j] = "stop"}}

LEMMA ShownIsItems ==
    ASSUME NEW m, NEW s \in Seq(Words)
    PROVE  Shown(m, s) = Items(m, s, Len(s))
<1>1. DOMAIN s = 1..Len(s)
  OBVIOUS
<1> DEFINE reached == {i \in DOMAIN s : \A j \in 1..(i - 1) : ~Terminal(m, s[j])}
           loud(i) == s[i] \in {"text", "stop", "start"}
           visible == {i \in reached :
                         \/ Terminal(m, s[i])
                         \/ Renders(m, s[i], \A j \in 1..(i - 1) : ~loud(j))}
<1>2. visible = {j \in 1..Len(s) : Visible(m, s, j)}
  BY <1>1 DEF Visible, Loud
<1>3. Shown(m, s) = {<<i, 1>> : i \in visible}
                      \cup {<<i, 2>> : i \in {j \in visible : m = "translated" /\ s[j] = "stop"}}
  BY DEF Shown
<1> QED
  BY <1>2, <1>3 DEF Items

\* The items of n frames do not depend on what comes after them.
LEMMA ItemsKept ==
    ASSUME NEW m, NEW s, NEW t, NEW n \in Nat, \A i \in 1..n : t[i] = s[i]
    PROVE  Items(m, t, n) = Items(m, s, n)
<1>1. ASSUME NEW i \in 1..n PROVE Visible(m, t, i) <=> Visible(m, s, i)
  <2>1. \A j \in 1..i : t[j] = s[j]
    OBVIOUS
  <2>2. (\A j \in 1..(i - 1) : t[j] \notin Loud) <=> (\A j \in 1..(i - 1) : s[j] \notin Loud)
    BY <2>1
  <2>3. (\A j \in 1..(i - 1) : ~Terminal(m, t[j])) <=> (\A j \in 1..(i - 1) : ~Terminal(m, s[j]))
    BY <2>1
  <2>4. t[i] = s[i]
    BY <2>1
  <2> QED
    BY <2>2, <2>3, <2>4 DEF Visible, Renders
<1> QED
  BY <1>1 DEF Items

LEMMA ItemsNext ==
    ASSUME NEW m, NEW s, NEW n \in Nat
    PROVE  /\ ~Visible(m, s, n + 1) => Items(m, s, n + 1) = Items(m, s, n)
           /\ Visible(m, s, n + 1) /\ ~(m = "translated" /\ s[n + 1] = "stop") =>
                 Items(m, s, n + 1) = Items(m, s, n) \cup {<<n + 1, 1>>}
           /\ Visible(m, s, n + 1) /\ m = "translated" /\ s[n + 1] = "stop" =>
                 Items(m, s, n + 1) = Items(m, s, n) \cup {<<n + 1, 1>>, <<n + 1, 2>>}
<1>1. 1..(n + 1) = (1..n) \cup {n + 1}
  OBVIOUS
<1> QED
  BY <1>1 DEF Items

\* Nothing behind a terminal frame is seen.
LEMMA ItemsEnd ==
    ASSUME NEW m, NEW s, NEW n \in Nat \ {0}, NEW k \in Nat, n <= k, Terminal(m, s[n])
    PROVE  /\ Items(m, s, k) = Items(m, s, n)
           /\ \A i \in 1..k : Visible(m, s, i) => i <= n
<1>1. \A i \in 1..k : Visible(m, s, i) => i <= n
  BY DEF Visible
<1> QED
  BY <1>1 DEF Items

SentInv ==
    /\ phase \in {"probing", "pumping"} =>
          /\ \A j \in 1..Handled : ~Terminal(mode, said[j])
          /\ mode = "translated" => (spoke <=> \E j \in 1..Handled : said[j] \in Loud)
          /\ client = "reading" => Range(Sent) = Items(mode, said, Handled)
    /\ phase = "sentinel" =>
          /\ \A j \in 1..(Handled - 1) : ~Terminal(mode, said[j])
          /\ mode = "translated" /\ said[Handled] = "stop"
          /\ client = "reading" => /\ Range(Sent) = Items(mode, said, Handled) \ {<<Handled, 2>>}
                                   /\ <<Handled, 2>> \in Items(mode, said, Handled)
    /\ phase \in {"closing", "done"} /\ failure = "none" =>
          /\ ended \/ \E i \in 1..Len(said) : Terminal(mode, said[i])
          /\ \A i \in 1..Len(said) : Visible(mode, said, i) => said[i] # "error"
          /\ client = "reading" => Range(Sent) = Items(mode, said, Len(said))

SInv == IInv /\ SentInv

LEMMA SendAppends ==
    ASSUME TypeOK, NEW item \in Nat \X Nat, Send(item), client = "reading"
    PROVE  Sent' = Append(Sent, item) /\ Sent \in Seq(Nat \X Nat) /\ client' = "reading"
<1>1. read' = read /\ channel' = Append(channel, item) /\ client' = client
  BY DEF Send
<1>2. read \in Seq(Nat \X Nat) /\ channel \in Seq(Nat \X Nat)
  BY DEF TypeOK
<1> QED
  BY SMTT(30), <1>1, <1>2 DEF Sent

LEMMA SendSent ==
    ASSUME TypeOK, NEW item \in Nat \X Nat, Send(item), client = "reading"
    PROVE  Range(Sent') = Range(Sent) \cup {item}
<1>1. Sent' = Append(Sent, item) /\ Sent \in Seq(Nat \X Nat)
  BY SendAppends
<1>2. /\ DOMAIN Sent' = 1..(Len(Sent) + 1) /\ DOMAIN Sent = 1..Len(Sent) /\ Len(Sent) \in Nat
      /\ Sent'[Len(Sent) + 1] = item /\ \A i \in 1..Len(Sent) : Sent'[i] = Sent[i]
  BY <1>1
<1> QED
  BY <1>2 DEF Range

LEMMA InitSInv == Init => SInv
<1> SUFFICES ASSUME Init PROVE SentInv
  BY InitIInv DEF SInv
<1>1. Handled = 0 /\ Sent = <<>> /\ phase = "probing" /\ spoke = FALSE
  BY DEF Init, Handled, Sent
<1>2. Range(Sent) = {} /\ 1..Handled = {} /\ Items(mode, said, Handled) = {}
  BY <1>1 DEF Range, Items
<1> QED
  BY <1>1, <1>2 DEF SentInv

\* More of the stream arrives: what was handled stays handled.
LEMMA UpstreamSent == ASSUME SInv, Upstream PROVE SentInv'
<1>1. /\ phase' = phase /\ phase \in {"probing", "pumping"} /\ pending = <<>>
      /\ mode' = mode /\ spoke' = spoke /\ Sent' = Sent /\ client' = client
  BY DEF Upstream, Chunk, EndWithFrame, Awaiting, clientVars, Sent
<1>2. /\ Handled = Len(said) /\ Handled' = Len(said) /\ Len(said) \in Nat
      /\ \A i \in 1..Len(said) : said'[i] = said[i]
  <2>1. CASE \E new \in Chunks, cutsFrame \in BOOLEAN : Chunk(new, cutsFrame)
    <3>1. PICK new \in Chunks, cutsFrame \in BOOLEAN : Chunk(new, cutsFrame)
      BY <2>1
    <3>2. new \in Seq(Words) /\ Len(new) \in Nat /\ said \in Seq(Words)
      BY Assumptions, <3>1 DEF Chunks, Words, SInv, IInv, TypeOK
    <3> QED
      BY <1>1, <3>1, <3>2 DEF Chunk, Handled
  <2>2. CASE \E k \in Kinds \cup {"cut"} : EndWithFrame(k)
    <3>1. PICK k \in Kinds \cup {"cut"} : EndWithFrame(k)
      BY <2>2
    <3>2. said \in Seq(Words) /\ said' = Append(said, k) /\ k \in Words
      BY Assumptions, <3>1 DEF EndWithFrame, SInv, IInv, TypeOK, Words
    <3>3. Len(said) \in Nat /\ Len(said') = Len(said) + 1 /\ Len(pending') = 1
      BY <3>1, <3>2 DEF EndWithFrame
    <3> QED
      BY <1>1, <3>2, <3>3 DEF Handled
  <2> QED
    BY <2>1, <2>2 DEF Upstream
<1>3. Items(mode', said', Handled') = Items(mode, said, Handled)
  BY <1>1, <1>2, ItemsKept
<1> QED
  BY <1>1, <1>2, <1>3 DEF SInv, SentInv

\* The queue is empty, or the loop has been broken for another reason.
LEMMA AttemptWaits == ASSUME SInv, End \/ Idle \/ Transport PROVE SentInv'
<1>1. CASE phase = "probing"
  BY <1>1 DEF End, Idle, Transport, SentInv
<1>2. CASE phase = "pumping" /\ (Idle \/ Transport)
  BY <1>2 DEF Idle, Transport, Break, SentInv
<1>3. CASE phase = "pumping" /\ End
  <2>1. /\ phase' = "closing" /\ ended' = TRUE /\ UNCHANGED <<mode, said, clientVars>>
        /\ pending = <<>> /\ Len(said) \in Nat
    BY <1>3 DEF End, Break, Awaiting, SInv, IInv, TypeOK
  <2>2. Handled = Len(said) /\ Sent' = Sent
    BY <2>1 DEF Handled, clientVars, Sent
  <2>3. \A i \in 1..Len(said) : said[i] # "error"
    BY <1>3, <2>2 DEF SInv, SentInv, Terminal
  <2> QED
    BY <1>3, <2>1, <2>2, <2>3 DEF SInv, SentInv, clientVars
<1> QED
  BY <1>1, <1>2, <1>3 DEF End, Idle, Transport

LEMMA ProbeSent == ASSUME SInv, Probe PROVE SentInv'
<1>1. phase' \in {"failed", "pumping"} /\ phase = "probing"
      /\ UNCHANGED <<upstreamVars, spoke, failure, row, clientVars>>
      /\ (phase' = "pumping" => pending' = pending)
  BY DEF Probe, HandOver
<1>2. Sent' = Sent /\ (phase' = "pumping" => Handled' = Handled)
  BY <1>1 DEF Sent, clientVars, Handled, upstreamVars
<1> QED
  BY <1>1, <1>2 DEF SInv, SentInv, upstreamVars, clientVars

\* The frame at the head of the queue becomes the last one handled.
LEMMA OneHandled ==
    ASSUME SInv, phase = "pumping", pending # <<>>, UNCHANGED said, pending' = Tail(pending)
    PROVE  /\ Handled \in Nat /\ Next1 = Handled + 1 /\ Handled' = Handled + 1
           /\ Handled + 1 <= Len(said) /\ Len(said) \in Nat
           /\ said[Handled + 1] \in Words
<1>1. /\ Next1 = Handled + 1 /\ Next1 \in DOMAIN said /\ said[Next1] \in Words
      /\ Len(Tail(pending)) = Len(pending) - 1
  BY HeadIsNext DEF SInv, IInv
<1>2. Len(said) \in Nat /\ Len(pending) \in Nat /\ DOMAIN said = 1..Len(said)
  BY DEF SInv, IInv, TypeOK
<1> QED
  BY <1>1, <1>2 DEF Handled, SInv, IInv, QueueInv

LEMMA TerminalSent == ASSUME SInv, PumpTerminal PROVE SentInv'
<1> DEFINE n == Handled
<1>1. /\ phase = "pumping" /\ pending # <<>> /\ phase' = "closing"
      /\ UNCHANGED <<upstreamVars, spoke, row>> /\ pending' = Tail(pending)
      /\ said[Next1] \in {"done", "error"} /\ Send(<<Next1, 1>>)
      /\ failure' = IF said[Next1] = "error" THEN "error" ELSE "none"
  BY DEF PumpTerminal, Break
<1>2. /\ n \in Nat /\ Next1 = n + 1 /\ Handled' = n + 1
      /\ n + 1 <= Len(said) /\ Len(said) \in Nat
  BY <1>1, OneHandled DEF upstreamVars
<1> HIDE DEF n
<1> SUFFICES ASSUME failure' = "none" PROVE SentInv'
  BY <1>1 DEF SentInv
<1>3. said[n + 1] = "done" /\ Terminal(mode, said[n + 1])
  BY <1>1, <1>2 DEF Terminal
<1>4. \A j \in 1..n : ~Terminal(mode, said[j])
  BY <1>1 DEF SInv, SentInv, n
<1>5. Visible(mode, said, n + 1)
  BY <1>2, <1>3, <1>4 DEF Visible
<1>6. /\ Items(mode, said, Len(said)) = Items(mode, said, n + 1)
      /\ \A i \in 1..Len(said) : Visible(mode, said, i) => i <= n + 1
  BY <1>2, <1>3, ItemsEnd
<1>7. Items(mode, said, n + 1) = Items(mode, said, n) \cup {<<n + 1, 1>>}
  <2>1. ~(mode = "translated" /\ said[n + 1] = "stop")
    BY <1>3
  <2>2. n \in Nat
    BY <1>2
  <2>3. Visible(mode, said, n + 1) /\ ~(mode = "translated" /\ said[n + 1] = "stop") =>
          Items(mode, said, n + 1) = Items(mode, said, n) \cup {<<n + 1, 1>>}
    BY <2>2, ItemsNext
  <2> QED
    BY <1>5, <2>1, <2>3
<1>8. \A i \in 1..Len(said) : Visible(mode, said, i) => said[i] # "error"
  BY <1>2, <1>3, <1>4, <1>6 DEF Terminal
<1>9. client' = "reading" => Range(Sent') = Items(mode, said, Len(said))
  <2> SUFFICES ASSUME client' = "reading" PROVE Range(Sent') = Items(mode, said, Len(said))
    OBVIOUS
  <2>1. client = "reading" /\ <<Next1, 1>> \in Nat \X Nat
    BY <1>1, <1>2 DEF Send
  <2>2. Range(Sent') = Range(Sent) \cup {<<Next1, 1>>}
    BY <1>1, <2>1, SendSent DEF SInv, IInv
  <2>3. Range(Sent) = Items(mode, said, n)
    BY <1>1, <2>1 DEF SInv, SentInv, n
  <2> QED
    BY <1>2, <1>6, <1>7, <2>2, <2>3
<1> QED
  BY <1>1, <1>2, <1>3, <1>8, <1>9 DEF SentInv, upstreamVars

\* What the pump renders of a frame is what a client should see of it.
LEMMA OtherSent == ASSUME SInv, PumpOther PROVE SentInv'
<1> DEFINE n == Handled
           renders == Renders(mode, said[n + 1], ~spoke)
<1>1. /\ phase = "pumping" /\ pending # <<>> /\ UNCHANGED <<upstreamVars, failure, row>>
      /\ pending' = Tail(pending) /\ said[Next1] \notin {"done", "error"}
  BY DEF PumpOther
<1>2. /\ n \in Nat /\ Next1 = n + 1 /\ Handled' = n + 1 /\ said' = said /\ mode' = mode
      /\ n + 1 <= Len(said) /\ Len(said) \in Nat /\ said[n + 1] \in Words
  BY <1>1, OneHandled DEF upstreamVars
<1>3. IF renders
      THEN /\ client = "reading" /\ Send(<<n + 1, 1>>) /\ spoke' = TRUE
           /\ phase' = IF Terminal(mode, said[n + 1]) THEN "sentinel" ELSE phase
      ELSE UNCHANGED <<spoke, phase, clientVars>>
  BY <1>2 DEF PumpOther
<1>4. /\ \A j \in 1..n : ~Terminal(mode, said[j])
      /\ mode = "translated" => (spoke <=> \E j \in 1..n : said[j] \in Loud)
      /\ client = "reading" => Range(Sent) = Items(mode, said, n)
      /\ mode \in AllModes /\ spoke \in BOOLEAN
  BY <1>1 DEF SInv, SentInv, IInv, TypeOK
<1> HIDE DEF n
<1>5. Terminal(mode, said[n + 1]) => mode = "translated" /\ said[n + 1] = "stop" /\ renders
  BY <1>1, <1>2 DEF Terminal, Renders
<1>6. Visible(mode, said, n + 1) <=> renders
  <2>1. Visible(mode, said, n + 1) <=>
          Terminal(mode, said[n + 1]) \/ Renders(mode, said[n + 1], \A j \in 1..n : said[j] \notin Loud)
    <3>1. (n + 1) - 1 = n
      BY <1>2
    <3> QED
      BY <1>4, <3>1 DEF Visible, Renders
  <2>2. mode = "translated" => (~spoke <=> \A j \in 1..n : said[j] \notin Loud)
    BY <1>4
  <2>3. mode # "translated" => mode = "openai"
    BY <1>4 DEF AllModes
  <2> QED
    BY <1>5, <2>1, <2>2, <2>3 DEF Renders
<1>7. mode = "translated" => (spoke' <=> \E j \in 1..(n + 1) : said[j] \in Loud)
  <2>1. mode = "translated" /\ renders => said[n + 1] \in Loud
    BY DEF Renders, Loud
  <2>2. mode = "translated" /\ ~renders /\ said[n + 1] \in Loud => spoke
    BY <1>4 DEF Renders, Loud
  <2>3. (\E j \in 1..(n + 1) : said[j] \in Loud) <=> said[n + 1] \in Loud \/ \E j \in 1..n : said[j] \in Loud
    BY <1>2
  <2> QED
    BY <1>3, <1>4, <2>1, <2>2, <2>3
<1>8. CASE ~renders
  <2>1. /\ phase' = "pumping" /\ client' = client /\ Sent' = Sent
        /\ \A j \in 1..(n + 1) : ~Terminal(mode, said[j])
    BY <1>1, <1>2, <1>3, <1>4, <1>5, <1>8 DEF clientVars, Sent
  <2>2. Items(mode, said, n + 1) = Items(mode, said, n)
    BY <1>2, <1>6, <1>8, ItemsNext
  <2> QED
    BY <1>2, <1>4, <1>7, <2>1, <2>2 DEF SentInv
<1>9. CASE renders
  <2>1. client = "reading" /\ <<n + 1, 1>> \in Nat \X Nat /\ Send(<<n + 1, 1>>)
    BY <1>2, <1>3, <1>9
  <2>2. Range(Sent') = Items(mode, said, n) \cup {<<n + 1, 1>>}
    BY <1>4, <2>1, SendSent DEF SInv, IInv
  <2>3. CASE Terminal(mode, said[n + 1])
    <3>1. phase' = "sentinel" /\ mode = "translated" /\ said[n + 1] = "stop"
      BY <1>3, <1>5, <1>9, <2>3
    <3>2. Items(mode, said, n + 1) = Range(Sent') \cup {<<n + 1, 2>>}
      <4>1. Items(mode, said, n + 1) = Items(mode, said, n) \cup {<<n + 1, 1>>, <<n + 1, 2>>}
        <5>1. n \in Nat
          BY <1>2
        <5>2. Visible(mode, said, n + 1) /\ mode = "translated" /\ said[n + 1] = "stop" =>
                Items(mode, said, n + 1) =
                   Items(mode, said, n) \cup {<<n + 1, 1>>, <<n + 1, 2>>}
          BY <5>1, ItemsNext
        <5> QED
          BY <1>6, <1>9, <3>1, <5>2
      <4> QED
        BY <2>2, <4>1
    <3>4. <<n + 1, 2>> \notin Range(Sent')
      BY <1>2, <2>2 DEF Items
    <3>5. /\ Range(Sent') = Items(mode, said, n + 1) \ {<<n + 1, 2>>}
          /\ <<n + 1, 2>> \in Items(mode, said, n + 1)
      BY <3>2, <3>4
    <3>3. \A j \in 1..((n + 1) - 1) : ~Terminal(mode, said[j])
      BY <1>2, <1>4
    <3> QED
      BY <1>2, <3>1, <3>3, <3>5 DEF SentInv
  <2>4. CASE ~Terminal(mode, said[n + 1])
    <3>1. phase' = "pumping" /\ ~(mode = "translated" /\ said[n + 1] = "stop")
      BY <1>1, <1>3, <1>9, <2>4 DEF Terminal
    <3>2. Items(mode, said, n + 1) = Range(Sent')
      BY <1>2, <1>6, <1>9, <2>2, <3>1, ItemsNext
    <3>3. \A j \in 1..(n + 1) : ~Terminal(mode, said[j])
      BY <1>2, <1>4, <2>4
    <3> QED
      BY <1>2, <1>7, <3>1, <3>2, <3>3 DEF SentInv
  <2> QED
    BY <2>3, <2>4
<1> QED
  BY <1>8, <1>9

LEMMA SentinelSent == ASSUME SInv, PumpSentinel PROVE SentInv'
<1> DEFINE n == Handled
<1>1. /\ phase = "sentinel" /\ phase' = "closing" /\ Send(<<n, 2>>)
      /\ UNCHANGED <<upstreamVars, pending, spoke, row>>
  BY DEF PumpSentinel, Break, Handled
<1>2. n \in Nat \ {0} /\ n <= Len(said) /\ Len(said) \in Nat
  BY <1>1 DEF SInv, IInv, PhaseInv, TypeOK, Handled
<1>3. /\ \A j \in 1..(n - 1) : ~Terminal(mode, said[j])
      /\ mode = "translated" /\ said[n] = "stop" /\ Terminal(mode, said[n])
      /\ client = "reading" => /\ Range(Sent) = Items(mode, said, n) \ {<<n, 2>>}
                               /\ <<n, 2>> \in Items(mode, said, n)
  BY <1>1 DEF SInv, SentInv, Terminal
<1> HIDE DEF n
<1>4. /\ Items(mode, said, Len(said)) = Items(mode, said, n)
      /\ \A i \in 1..Len(said) : Visible(mode, said, i) => i <= n
  BY <1>2, <1>3, ItemsEnd
<1>5. \A i \in 1..Len(said) : Visible(mode, said, i) => said[i] # "error"
  BY <1>2, <1>3, <1>4 DEF Terminal
<1>6. client' = "reading" => Range(Sent') = Items(mode, said, Len(said))
  <2> SUFFICES ASSUME client' = "reading" PROVE Range(Sent') = Items(mode, said, Len(said))
    OBVIOUS
  <2>1. client = "reading" /\ <<n, 2>> \in Nat \X Nat
    BY <1>1, <1>2 DEF Send
  <2>2. Range(Sent') = Range(Sent) \cup {<<n, 2>>}
    BY <1>1, <2>1, SendSent DEF SInv, IInv
  <2>3. Range(Sent') = Items(mode, said, n)
    BY <1>3, <2>1, <2>2
  <2> QED
    BY <1>4, <2>3
<1> QED
  BY <1>1, <1>2, <1>3, <1>5, <1>6 DEF SentInv, upstreamVars

LEMMA QuietSent == ASSUME SInv, PumpReturns \/ PumpLogs \/ Leave PROVE SentInv'
<1>1. CASE PumpReturns
  BY <1>1 DEF PumpReturns, SentInv
<1>2. CASE PumpLogs
  BY <1>2 DEF PumpLogs, SInv, SentInv, upstreamVars, clientVars, Sent
<1>3. CASE Leave
  <2>1. client' = "gone" /\ UNCHANGED <<upstreamVars, spoke, failure>>
        /\ (phase' = "gone" \/ (phase' = phase /\ Handled' = Handled))
    BY <1>3 DEF Leave, Handled, upstreamVars
  <2> QED
    BY <2>1 DEF SInv, SentInv, upstreamVars
<1> QED
  BY <1>1, <1>2, <1>3

\* Reading moves the first item of the channel behind those read.
LEMMA MoveHead ==
    ASSUME NEW S, NEW s \in Seq(S), NEW t \in Seq(S), t # <<>>
    PROVE  Append(s, Head(t)) \o Tail(t) = s \o t
<1> DEFINE a == Append(s, Head(t)) \o Tail(t)
           b == s \o t
<1>1. /\ Len(s) \in Nat /\ Len(t) \in Nat /\ Len(t) >= 1 /\ Head(t) = t[1] /\ Head(t) \in S
      /\ Tail(t) \in Seq(S) /\ Len(Tail(t)) = Len(t) - 1
      /\ \A i \in 1..(Len(t) - 1) : Tail(t)[i] = t[i + 1]
  OBVIOUS
<1>2. Append(s, Head(t)) \in Seq(S) /\ Len(Append(s, Head(t))) = Len(s) + 1
  BY <1>1
<1>3. a \in Seq(S) /\ Len(a) = Len(s) + Len(t)
  BY <1>1, <1>2
<1>4. b \in Seq(S) /\ Len(b) = Len(s) + Len(t)
  BY <1>1
<1>5. ASSUME NEW i \in 1..(Len(s) + Len(t)) PROVE a[i] = b[i]
  <2>1. CASE i <= Len(s)
    BY <1>1, <1>2, <2>1
  <2>2. CASE i = Len(s) + 1
    BY <1>1, <1>2, <2>2
  <2>3. CASE i > Len(s) + 1
    <3>1. a[i] = Tail(t)[i - (Len(s) + 1)] /\ b[i] = t[i - Len(s)]
      BY <1>1, <1>2, <2>3
    <3>2. i - (Len(s) + 1) \in 1..(Len(t) - 1) /\ (i - (Len(s) + 1)) + 1 = i - Len(s)
      BY <1>1, <2>3
    <3> QED
      BY <1>1, <3>1, <3>2
  <2> QED
    BY <1>1, <2>1, <2>2, <2>3
<1> HIDE DEF a, b
<1>6. DOMAIN a = 1..Len(a) /\ DOMAIN b = 1..Len(b)
  BY <1>3, <1>4
<1>7. a = b
  BY <1>3, <1>4, <1>5, <1>6
<1> QED
  BY <1>7 DEF a, b

LEMMA ReceiveSent == ASSUME SInv, Receive PROVE SentInv'
<1>1. read \in Seq(Nat \X Nat) /\ channel \in Seq(Nat \X Nat) /\ channel # <<>>
      /\ read' = Append(read, Head(channel)) /\ channel' = Tail(channel)
  BY DEF Receive, SInv, IInv, TypeOK
<1>2. Sent' = Sent
  BY <1>1, MoveHead DEF Sent
<1>3. Handled' = Handled
  BY DEF Receive, Handled, upstreamVars
<1> QED
  BY <1>2, <1>3 DEF Receive, SInv, SentInv, upstreamVars

LEMMA StepSInv == SInv /\ [Next]_vars => SInv'
<1> SUFFICES ASSUME SInv, [Next]_vars PROVE SInv'
  OBVIOUS
<1>1. IInv'
  BY StepIInv DEF SInv
<1>2. CASE UNCHANGED vars
  BY <1>1, <1>2 DEF vars, upstreamVars, clientVars, SInv, SentInv, Handled, Sent
<1>3. CASE Next
  BY <1>3, <1>1, UpstreamSent, AttemptWaits, ProbeSent, TerminalSent, OtherSent, SentinelSent,
     QuietSent, ReceiveSent DEF Next, Attempt, SInv
<1> QED
  BY <1>2, <1>3

\* A success is logged only of a stream that ended by itself, and whose client,
\* if it stayed, has been sent everything it should see and no error.
THEOREM SuccessTellsTheTruth == Spec => []SuccessIsComplete
<1>1. SInv => SuccessIsComplete
  <2> SUFFICES ASSUME SInv, row = "ok" PROVE SuccessIsComplete
    BY DEF SuccessIsComplete
  <2>1. phase = "done" /\ failure = "none"
    BY DEF SInv, IInv, PhaseInv
  <2>2. said \in Seq(Words) /\ DOMAIN said = 1..Len(said)
    BY DEF SInv, IInv, TypeOK, Words
  <2>3. ended \/ \E i \in DOMAIN said : Terminal(mode, said[i])
    BY <2>1, <2>2 DEF SInv, SentInv
  <2>4. ASSUME client = "reading"
        PROVE  Range(Sent) = Shown(mode, said) /\ \A i \in DOMAIN Sent : said[Sent[i][1]] # "error"
    <3>1. Range(Sent) = Items(mode, said, Len(said))
      BY <2>1, <2>4 DEF SInv, SentInv
    <3>2. Range(Sent) = Shown(mode, said)
      BY <2>2, <3>1, ShownIsItems
    <3>3. ASSUME NEW i \in DOMAIN Sent PROVE said[Sent[i][1]] # "error"
      <4>1. Sent[i] \in Items(mode, said, Len(said))
        BY <3>1 DEF Range
      <4>2. PICK j \in 1..Len(said) : Visible(mode, said, j) /\ Sent[i][1] = j
        BY <4>1 DEF Items
      <4> QED
        BY <2>1, <4>2 DEF SInv, SentInv
    <3> QED
      BY <3>2, <3>3
  <2> QED
    BY <2>3, <2>4 DEF SuccessIsComplete
<1> QED
  BY <1>1, InitSInv, StepSInv, PTL DEF Spec

-----------------------------------------------------------------------------
(* The refinement.                                                         *)

Before(p, q) == p[1] < q[1] \/ (p[1] = q[1] /\ p[2] < q[2])

\* How many items have been sent before the report of a broken connection.
Proper == IF failure = "transport" THEN Len(Sent) - 1 ELSE Len(Sent)

\* They are the first ones of those shown, in order, and the report is last.
OrderInv ==
    client = "reading" =>
        /\ \A i \in 1..Proper : Sent[i] \in Shown(mode, said)
        /\ \A i, j \in 1..Proper : i < j => Before(Sent[i], Sent[j])
        /\ \A i \in 1..Proper : \A q \in Shown(mode, said) :
               Before(q, Sent[i]) => \E j \in 1..Proper : Sent[j] = q
        /\ failure = "transport" => Len(Sent) >= 1 /\ Sent[Len(Sent)] = Broken

OInv == SInv /\ OrderInv

LEMMA InitOInv == Init => OInv
<1> SUFFICES ASSUME Init PROVE OrderInv
  BY InitSInv DEF OInv
<1>1. Sent = <<>> /\ failure = "none"
  BY DEF Init, Sent
<1>2. Len(Sent) = 0 /\ Proper = 0 /\ 1..Proper = {}
  BY <1>1 DEF Proper
<1> QED
  BY <1>1, <1>2 DEF OrderInv

LEMMA InitRefined == Init => Promise!Init
BY DEF Init, Promise!Init, Delivered

\* A step of the upstream says more; any other but Receive is a stutter.
LEMMA SayRefined == ASSUME SInv, Upstream PROVE Promise!Say
<1>1. mode' = mode /\ Delivered' = Delivered
  BY DEF Upstream, Chunk, EndWithFrame, clientVars, Delivered
<1>2. IsPrefix(said, said')
  <2>1. CASE \E new \in Chunks, cutsFrame \in BOOLEAN : Chunk(new, cutsFrame)
    <3>1. PICK new \in Chunks, cutsFrame \in BOOLEAN : Chunk(new, cutsFrame)
      BY <2>1
    <3>2. new \in Seq(Words) /\ said \in Seq(Words) /\ said' = said \o new
      BY Assumptions, <3>1 DEF Chunks, Chunk, Words, SInv, IInv, TypeOK
    <3> QED
      BY <3>2 DEF IsPrefix
  <2>2. CASE \E k \in Kinds \cup {"cut"} : EndWithFrame(k)
    <3>1. PICK k \in Kinds \cup {"cut"} : EndWithFrame(k)
      BY <2>2
    <3>2. said \in Seq(Words) /\ said' = Append(said, k) /\ k \in Words
      BY Assumptions, <3>1 DEF EndWithFrame, SInv, IInv, TypeOK, Words
    <3> QED
      BY <3>2 DEF IsPrefix
  <2> QED
    BY <2>1, <2>2 DEF Upstream
<1> QED
  BY <1>1, <1>2 DEF Promise!Say, Promise!IsPrefix, IsPrefix

LEMMA SentIsSeq ==
    ASSUME TypeOK
    PROVE  /\ Sent \in Seq(Nat \X Nat) /\ Len(Sent) \in Nat /\ DOMAIN Sent = 1..Len(Sent)
           /\ Len(read) \in Nat /\ Len(read) <= Len(Sent)
           /\ \A i \in 1..Len(read) : read[i] = Sent[i]
           /\ channel # <<>> => Len(read) < Len(Sent) /\ Head(channel) = Sent[Len(read) + 1]
BY DEF TypeOK, Sent

\* Sending the first item that has not been sent keeps the order.
LEMMA SendInOrder ==
    ASSUME SInv, OrderInv, client = "reading", failure = "none", failure' # "transport",
           UNCHANGED <<mode, said>>, NEW p, Sent' = Append(Sent, p), p \in Shown(mode, said),
           \A q \in Range(Sent) : Before(q, p),
           \A q \in Shown(mode, said) : Before(q, p) => q \in Range(Sent)
    PROVE  OrderInv'
<1> DEFINE n == Len(Sent)
<1>1. /\ Sent \in Seq(Nat \X Nat) /\ n \in Nat /\ DOMAIN Sent = 1..n
  BY SentIsSeq DEF SInv, IInv
<1>2. /\ Len(Sent') = n + 1 /\ Sent'[n + 1] = p /\ \A i \in 1..n : Sent'[i] = Sent[i]
  BY <1>1
<1>3. Proper = n /\ Proper' = n + 1
  BY <1>2 DEF Proper
<1> HIDE DEF n
<1>4. ASSUME NEW i \in 1..(n + 1)
      PROVE  Sent'[i] \in Shown(mode, said)
  BY <1>1, <1>2, <1>3, <1>4 DEF OrderInv
<1>5. ASSUME NEW i \in 1..(n + 1), NEW j \in 1..(n + 1), i < j
      PROVE  Before(Sent'[i], Sent'[j])
  <2>1. CASE j = n + 1
    <3>1. i \in 1..n /\ Sent'[i] = Sent[i]
      BY <1>1, <1>2, <1>5, <2>1
    <3>2. Sent[i] \in Range(Sent)
      BY <1>1, <3>1 DEF Range
    <3> QED
      BY <1>2, <2>1, <3>1, <3>2
  <2>2. CASE j # n + 1
    <3>1. i \in 1..n /\ j \in 1..n
      BY <1>1, <1>5, <2>2
    <3> QED
      BY <1>2, <1>3, <1>5, <3>1 DEF OrderInv
  <2> QED
    BY <2>1, <2>2
<1>6. ASSUME NEW i \in 1..(n + 1), NEW q \in Shown(mode, said), Before(q, Sent'[i])
      PROVE  \E j \in 1..(n + 1) : Sent'[j] = q
  <2>1. CASE i = n + 1
    <3>1. q \in Range(Sent)
      BY <1>2, <1>6, <2>1
    <3>2. PICK j \in 1..n : Sent[j] = q
      BY <1>1, <3>1 DEF Range
    <3> QED
      BY <1>1, <1>2, <3>2
  <2>2. CASE i # n + 1
    <3>1. i \in 1..n /\ Before(q, Sent[i])
      BY <1>1, <1>2, <1>6, <2>2
    <3>2. PICK j \in 1..n : Sent[j] = q
      BY <1>3, <3>1 DEF OrderInv
    <3> QED
      BY <1>1, <1>2, <3>2
  <2> QED
    BY <2>1, <2>2
<1> QED
  BY <1>3, <1>4, <1>5, <1>6 DEF OrderInv

\* The items of a longer stream are those of the shorter, and later ones.
LEMMA ShownGrows ==
    ASSUME NEW m, NEW s \in Seq(Words), NEW t \in Seq(Words), Len(s) <= Len(t),
           \A i \in 1..Len(s) : t[i] = s[i], NEW p \in Shown(m, s)
    PROVE  /\ p \in Shown(m, t)
           /\ \A q \in Shown(m, t) : Before(q, p) => q \in Shown(m, s)
<1>1. Len(s) \in Nat /\ Len(t) \in Nat
  OBVIOUS
<1>2. /\ Shown(m, s) = Items(m, s, Len(s)) /\ Shown(m, t) = Items(m, t, Len(t))
      /\ Items(m, t, Len(s)) = Items(m, s, Len(s))
  BY <1>1, ShownIsItems, ItemsKept
<1>3. p \in Items(m, t, Len(s)) /\ p[1] <= Len(s) /\ p[1] \in Nat
  <2>1. p \in Items(m, t, Len(s))
    BY <1>2
  <2>2. p[1] \in 1..Len(s)
    BY <2>1 DEF Items
  <2> QED
    BY <1>1, <2>1, <2>2
<1>4. p \in Items(m, t, Len(t))
  BY <1>1, <1>3 DEF Items
<1>5. ASSUME NEW q \in Items(m, t, Len(t)), Before(q, p) PROVE q \in Items(m, t, Len(s))
  <2>1. q[1] \in 1..Len(t)
    BY <1>5 DEF Items
  <2>2. q[1] \in 1..Len(s)
    BY <1>1, <1>3, <1>5, <2>1 DEF Before
  <2> QED
    BY <1>1, <1>5, <2>2 DEF Items
<1> QED
  BY <1>2, <1>4, <1>5

LEMMA UpstreamOrder == ASSUME OInv, Upstream PROVE OrderInv'
<1>1. /\ mode' = mode /\ Sent' = Sent /\ client' = client /\ failure' = failure
  BY DEF Upstream, Chunk, EndWithFrame, clientVars, Sent
<1>2. /\ said \in Seq(Words) /\ said' \in Seq(Words) /\ Len(said) <= Len(said')
      /\ \A i \in 1..Len(said) : said'[i] = said[i]
  <2>1. CASE \E new \in Chunks, cutsFrame \in BOOLEAN : Chunk(new, cutsFrame)
    <3>1. PICK new \in Chunks, cutsFrame \in BOOLEAN : Chunk(new, cutsFrame)
      BY <2>1
    <3>2. new \in Seq(Words) /\ said \in Seq(Words) /\ said' = said \o new
      BY Assumptions, <3>1 DEF Chunks, Chunk, Words, OInv, SInv, IInv, TypeOK
    <3> QED
      BY <3>2
  <2>2. CASE \E k \in Kinds \cup {"cut"} : EndWithFrame(k)
    <3>1. PICK k \in Kinds \cup {"cut"} : EndWithFrame(k)
      BY <2>2
    <3>2. said \in Seq(Words) /\ said' = Append(said, k) /\ k \in Words
      BY Assumptions, <3>1 DEF EndWithFrame, OInv, SInv, IInv, TypeOK, Words
    <3> QED
      BY <3>2
  <2> QED
    BY <2>1, <2>2 DEF Upstream
<1>3. Proper' = Proper
  BY <1>1 DEF Proper
<1>4. ASSUME NEW i \in 1..Proper, client = "reading"
      PROVE  /\ Sent[i] \in Shown(mode, said')
             /\ \A q \in Shown(mode, said') : Before(q, Sent[i]) => q \in Shown(mode, said)
  <2>1. Sent[i] \in Shown(mode, said)
    BY <1>4 DEF OInv, OrderInv
  <2> QED
    BY <1>2, <2>1, ShownGrows
<1> QED
  BY <1>1, <1>3, <1>4 DEF OInv, OrderInv

\* A frame that is rendered is the first that has not been sent.
LEMMA FrameInOrder ==
    ASSUME SInv, phase = "pumping", client = "reading", Handled \in Nat, Handled + 1 <= Len(said),
           Visible(mode, said, Handled + 1)
    PROVE  /\ <<Handled + 1, 1>> \in Shown(mode, said)
           /\ \A q \in Range(Sent) : Before(q, <<Handled + 1, 1>>)
           /\ \A q \in Shown(mode, said) : Before(q, <<Handled + 1, 1>>) => q \in Range(Sent)
<1> DEFINE n == Handled
<1>1. /\ Shown(mode, said) = Items(mode, said, Len(said)) /\ Len(said) \in Nat
      /\ Range(Sent) = Items(mode, said, n)
  BY ShownIsItems DEF SInv, SentInv, IInv, TypeOK, Words
<1> HIDE DEF n
<1>2. n \in Nat /\ n + 1 \in 1..Len(said)
  BY <1>1 DEF n
<1>3. <<n + 1, 1>> \in Items(mode, said, Len(said))
  BY <1>2 DEF Items, n
<1>4. ASSUME NEW q \in Items(mode, said, n) PROVE Before(q, <<n + 1, 1>>)
  <2>1. q[1] \in 1..n
    BY <1>4 DEF Items
  <2> QED
    BY <1>2, <2>1 DEF Before
<1>5. ASSUME NEW q \in Items(mode, said, Len(said)), Before(q, <<n + 1, 1>>)
      PROVE  q \in Items(mode, said, n)
  <2>1. PICK i \in 1..Len(said) : q = <<i, 1>> \/ q = <<i, 2>>
    BY <1>5 DEF Items
  <2>2. i \in 1..n
    BY <1>1, <1>2, <1>5, <2>1 DEF Before
  <2> QED
    BY <1>5, <2>1, <2>2 DEF Items
<1> QED
  BY <1>1, <1>3, <1>4, <1>5 DEF n

\* So is the [DONE] behind the last event of a translated stream.
LEMMA SentinelInOrder ==
    ASSUME SInv, phase = "sentinel", client = "reading"
    PROVE  /\ <<Handled, 2>> \in Shown(mode, said)
           /\ \A q \in Range(Sent) : Before(q, <<Handled, 2>>)
           /\ \A q \in Shown(mode, said) : Before(q, <<Handled, 2>>) => q \in Range(Sent)
<1> DEFINE n == Handled
<1>1. n \in Nat \ {0} /\ n <= Len(said) /\ Len(said) \in Nat
  BY DEF SInv, IInv, PhaseInv, TypeOK, Handled
<1>2. /\ Range(Sent) = Items(mode, said, n) \ {<<n, 2>>} /\ <<n, 2>> \in Items(mode, said, n)
      /\ Terminal(mode, said[n])
  BY DEF SInv, SentInv, Terminal
<1>3. Shown(mode, said) = Items(mode, said, Len(said))
  BY ShownIsItems DEF SInv, IInv, TypeOK, Words
<1> HIDE DEF n
<1>4. Items(mode, said, Len(said)) = Items(mode, said, n)
  BY <1>1, <1>2, ItemsEnd
<1>5. ASSUME NEW q \in Items(mode, said, n), q # <<n, 2>> PROVE Before(q, <<n, 2>>)
  <2>1. PICK i \in 1..n : q = <<i, 1>> \/ q = <<i, 2>>
    BY <1>5 DEF Items
  <2> QED
    BY <1>1, <1>5, <2>1 DEF Before
<1>6. ~Before(<<n, 2>>, <<n, 2>>)
  BY <1>1 DEF Before
<1> QED
  BY <1>2, <1>3, <1>4, <1>5, <1>6 DEF n

\* A step that sends nothing and leaves the stream alone.
LEMMA QuietOrder ==
    ASSUME OInv, Sent' = Sent, UNCHANGED <<mode, said>>,
           client' = "reading" => client = "reading",
           failure' = failure \/ (failure # "transport" /\ failure' # "transport")
    PROVE  OrderInv'
BY DEF OInv, OrderInv, Proper

LEMMA TransportOrder == ASSUME OInv, Transport PROVE OrderInv'
<1>1. CASE phase = "probing"
  BY <1>1, QuietOrder DEF Transport, clientVars, Sent
<1>2. CASE phase = "pumping"
  <2>1. failure = "none" /\ failure' = "transport" /\ Send(Broken) /\ UNCHANGED <<mode, said>>
    BY <1>2 DEF Transport, Break, OInv, SInv, IInv, PhaseInv
  <2> SUFFICES ASSUME client' = "reading" PROVE OrderInv'
    BY DEF OrderInv
  <2>2. client = "reading" /\ Sent' = Append(Sent, Broken) /\ Sent \in Seq(Nat \X Nat)
    BY <2>1, SendAppends DEF Send, Broken, OInv, SInv, IInv
  <2>3. /\ Len(Sent) \in Nat /\ Len(Sent') = Len(Sent) + 1 /\ Sent'[Len(Sent) + 1] = Broken
        /\ \A i \in 1..Len(Sent) : Sent'[i] = Sent[i]
    BY <2>2
  <2>4. Proper = Len(Sent) /\ Proper' = Len(Sent)
    BY <2>1, <2>3 DEF Proper
  <2> QED
    BY <2>1, <2>2, <2>3, <2>4 DEF OInv, OrderInv
<1> QED
  BY <1>1, <1>2 DEF Transport

LEMMA TerminalOrder == ASSUME OInv, PumpTerminal PROVE OrderInv'
<1>1. /\ phase = "pumping" /\ pending # <<>> /\ UNCHANGED upstreamVars /\ pending' = Tail(pending)
      /\ said[Next1] \in {"done", "error"} /\ Send(<<Next1, 1>>) /\ failure' # "transport"
  BY DEF PumpTerminal, Break
<1>2. /\ Handled \in Nat /\ Next1 = Handled + 1 /\ Handled + 1 <= Len(said)
  BY <1>1, OneHandled DEF upstreamVars, OInv
<1> SUFFICES ASSUME client' = "reading" PROVE OrderInv'
  BY DEF OrderInv
<1>3. client = "reading" /\ Sent' = Append(Sent, <<Handled + 1, 1>>)
  BY <1>1, <1>2, SendAppends DEF Send, OInv, SInv, IInv
<1>4. Visible(mode, said, Handled + 1)
  <2>1. \A j \in 1..Handled : ~Terminal(mode, said[j])
    BY <1>1 DEF OInv, SInv, SentInv
  <2>2. Terminal(mode, said[Handled + 1]) /\ (Handled + 1) - 1 = Handled
    BY <1>1, <1>2 DEF Terminal
  <2> QED
    BY <2>1, <2>2 DEF Visible
<1>5. failure = "none"
  BY <1>1 DEF OInv, SInv, IInv, PhaseInv
<1> QED
  BY <1>1, <1>2, <1>3, <1>4, <1>5, FrameInOrder, SendInOrder DEF OInv, upstreamVars

LEMMA OtherOrder == ASSUME OInv, PumpOther PROVE OrderInv'
<1>1. /\ phase = "pumping" /\ pending # <<>> /\ UNCHANGED <<upstreamVars, failure>>
      /\ pending' = Tail(pending)
  BY DEF PumpOther
<1>2. /\ Handled \in Nat /\ Next1 = Handled + 1 /\ Handled + 1 <= Len(said)
  BY <1>1, OneHandled DEF upstreamVars, OInv
<1>3. CASE ~Renders(mode, said[Next1], ~spoke)
  BY <1>1, <1>3, QuietOrder DEF PumpOther, clientVars, Sent, upstreamVars
<1>4. CASE Renders(mode, said[Next1], ~spoke)
  <2>1. client = "reading" /\ Send(<<Next1, 1>>)
    BY <1>4 DEF PumpOther
  <2>2. Sent' = Append(Sent, <<Handled + 1, 1>>)
    BY <1>2, <2>1, SendAppends DEF OInv, SInv, IInv
  <2>3. Visible(mode, said, Handled + 1)
    <3>1. /\ \A j \in 1..Handled : ~Terminal(mode, said[j])
          /\ mode = "translated" => (spoke <=> \E j \in 1..Handled : said[j] \in Loud)
          /\ mode \in AllModes /\ spoke \in BOOLEAN
      BY <1>1 DEF OInv, SInv, SentInv, IInv, TypeOK
    <3>2. (Handled + 1) - 1 = Handled
      BY <1>2
    <3>3. mode = "translated" => (~spoke <=> \A j \in 1..Handled : said[j] \notin Loud)
      BY <3>1
    <3>4. Renders(mode, said[Handled + 1], \A j \in 1..Handled : said[j] \notin Loud)
      BY <1>2, <1>4, <3>1, <3>3 DEF Renders, AllModes
    <3> QED
      BY <3>1, <3>2, <3>4 DEF Visible, Renders
  <2>4. failure = "none"
    BY <1>1 DEF OInv, SInv, IInv, PhaseInv
  <2> QED
    BY <1>1, <1>2, <2>1, <2>2, <2>3, <2>4, FrameInOrder, SendInOrder DEF OInv, upstreamVars
<1> QED
  BY <1>3, <1>4

LEMMA SentinelOrder == ASSUME OInv, PumpSentinel PROVE OrderInv'
<1>1. /\ phase = "sentinel" /\ Send(<<Handled, 2>>) /\ UNCHANGED upstreamVars /\ failure' = "none"
  BY DEF PumpSentinel, Break, Handled
<1>2. Handled \in Nat /\ failure = "none"
  BY <1>1 DEF OInv, SInv, IInv, PhaseInv, TypeOK, Handled
<1> SUFFICES ASSUME client' = "reading" PROVE OrderInv'
  BY DEF OrderInv
<1>3. client = "reading" /\ Sent' = Append(Sent, <<Handled, 2>>)
  BY <1>1, <1>2, SendAppends DEF Send, OInv, SInv, IInv
<1> QED
  BY <1>1, <1>2, <1>3, SentinelInOrder, SendInOrder DEF OInv, upstreamVars

LEMMA StepOInv == OInv /\ [Next]_vars => OInv'
<1> SUFFICES ASSUME OInv, [Next]_vars PROVE OrderInv'
  BY StepSInv DEF OInv
<1>1. CASE UNCHANGED vars
  BY <1>1, QuietOrder DEF vars, upstreamVars, clientVars, Sent
<1>2. CASE End \/ Idle
  <2>1. failure # "transport"
    BY <1>2 DEF End, Idle, OInv, SInv, IInv, PhaseInv
  <2> QED
    BY <1>2, <2>1, QuietOrder DEF End, Idle, Break, upstreamVars, clientVars, Sent
<1>3. CASE Probe \/ PumpReturns \/ PumpLogs
  BY <1>3, QuietOrder DEF Probe, PumpReturns, PumpLogs, upstreamVars, clientVars, Sent
<1>4. CASE Leave
  BY <1>4 DEF Leave, OrderInv
<1>5. CASE Receive
  <2>1. read \in Seq(Nat \X Nat) /\ channel \in Seq(Nat \X Nat) /\ channel # <<>>
        /\ read' = Append(read, Head(channel)) /\ channel' = Tail(channel)
    BY <1>5 DEF Receive, OInv, SInv, IInv, TypeOK
  <2>2. Sent' = Sent
    BY <2>1, MoveHead DEF Sent
  <2> QED
    BY <1>5, <2>2, QuietOrder DEF Receive, upstreamVars
<1> QED
  BY <1>1, <1>2, <1>3, <1>4, <1>5, UpstreamOrder, TransportOrder, TerminalOrder, OtherOrder,
     SentinelOrder DEF Next, Attempt

\* The client reads the next item of those shown, or the report of a broken
\* connection.
LEMMA ReceiveRefined ==
    ASSUME OInv, Receive
    PROVE  Promise!Read \/ UNCHANGED Promise!vars
<1> DEFINE n == Len(read)
           x == Sent[n + 1]
<1>1. /\ client = "reading" /\ read \in Seq(Nat \X Nat) /\ n \in Nat
      /\ read' = Append(read, x) /\ UNCHANGED <<mode, said>>
      /\ n + 1 <= Len(Sent) /\ Len(Sent) \in Nat /\ \A i \in 1..n : read[i] = Sent[i]
  BY SMTT(30), SentIsSeq DEF Receive, upstreamVars, OInv, SInv, IInv, TypeOK
<1>2. /\ \A i \in 1..Proper : Sent[i] \in Shown(mode, said)
      /\ \A i, j \in 1..Proper : i < j => Before(Sent[i], Sent[j])
      /\ \A i \in 1..Proper : \A q \in Shown(mode, said) :
             Before(q, Sent[i]) => \E j \in 1..Proper : Sent[j] = q
      /\ failure = "transport" => Sent[Len(Sent)] = Broken
  BY <1>1 DEF OInv, OrderInv
<1>3. \A q \in Shown(mode, said) : q # Broken /\ ~Before(q, q)
  <2>1. Shown(mode, said) = Items(mode, said, Len(said)) /\ Len(said) \in Nat
    BY ShownIsItems DEF OInv, SInv, IInv, TypeOK, Words
  <2>2. \A q \in Items(mode, said, Len(said)) : \E i \in 1..Len(said) : q = <<i, 1>> \/ q = <<i, 2>>
    BY DEF Items
  <2> QED
    BY <2>1, <2>2 DEF Broken, Before
<1>4. n <= Proper /\ (n + 1 <= Proper \/ (failure = "transport" /\ x = Broken))
  BY <1>1, <1>2 DEF Proper
<1>5. Proper \in Int /\ \A i \in 1..n : i \in 1..Proper
  BY <1>1, <1>4 DEF Proper
<1> HIDE DEF n, x
<1>6. Delivered = read
  <2>1. read # <<>> => n \in 1..Proper /\ Last(read) = Sent[n]
    BY <1>1, <1>5 DEF Last, n
  <2> QED
    BY <1>2, <1>3, <2>1 DEF Delivered
<1>7. /\ Len(read') = n + 1 /\ read'[n + 1] = x /\ read' # <<>> /\ Last(read') = x
  BY <1>1 DEF Last, n, x
<1>8. CASE n + 1 <= Proper
  <2>1. n + 1 \in 1..Proper /\ x \in Shown(mode, said)
    BY <1>1, <1>2, <1>5, <1>8 DEF x
  <2>2. Delivered' = Append(read, x)
    BY <1>1, <1>3, <1>7, <2>1 DEF Delivered
  <2>3. Range(read) = {Sent[i] : i \in 1..n}
    <3>1. DOMAIN read = 1..n
      BY <1>1 DEF n
    <3> QED
      BY <1>1, <3>1 DEF Range
  <2>4. \A q \in Range(read) : Before(q, x)
    BY <1>1, <1>2, <1>5, <2>1, <2>3 DEF x
  <2>5. x \notin Range(read)
    BY <1>3, <2>1, <2>4
  <2>6. ASSUME NEW q \in Shown(mode, said), Before(q, x) PROVE q \in Range(read)
    <3>1. PICK j \in 1..Proper : Sent[j] = q
      BY <1>2, <2>1, <2>6 DEF x
    <3>2. j # n + 1
      BY <1>3, <2>6, <3>1 DEF x
    <3>3. ~(n + 1 < j)
      <4> SUFFICES ASSUME n + 1 < j PROVE FALSE
        OBVIOUS
      <4>1. Before(x, q)
        BY <1>2, <2>1, <3>1 DEF x
      <4>2. q \in Nat \X Nat /\ x \in Nat \X Nat
        <5>1. Sent \in Seq(Nat \X Nat) /\ j \in 1..Len(Sent) /\ n + 1 \in 1..Len(Sent)
          BY <1>1, <3>1, SentIsSeq DEF OInv, SInv, IInv, Proper
        <5> QED
          BY <3>1, <5>1 DEF x
      <4> QED
        BY <2>6, <4>1, <4>2 DEF Before
    <3>4. j \in 1..n
      BY <1>1, <1>5, <3>2, <3>3
    <3> QED
      BY <2>3, <3>1, <3>4
  <2> QED
    BY <1>1, <1>6, <2>1, <2>2, <2>4, <2>5, <2>6
       DEF Promise!Read, Promise!Before, Promise!Range, Before, Range
<1>9. CASE x = Broken
  <2>1. Delivered' = Front(read')
    BY <1>7, <1>9 DEF Delivered
  <2>2. Front(read') = read
    BY <1>1, <1>7 DEF Front, n
  <2> QED
    BY <1>1, <1>6, <2>1, <2>2 DEF Promise!vars
<1> QED
  BY <1>4, <1>8, <1>9

\* Every other step is a stutter for the reader.
LEMMA StepRefined ==
    ASSUME OInv, [Next]_vars
    PROVE  [Promise!Say \/ Promise!Read]_(Promise!vars)
<1>1. CASE Upstream
  BY <1>1, SayRefined DEF OInv
<1>2. CASE Receive
  BY <1>2, ReceiveRefined
<1>3. CASE UNCHANGED vars
  BY <1>3 DEF vars, upstreamVars, clientVars, Promise!vars, Delivered
<1>4. CASE Attempt \/ Leave
  <2>1. read' = read /\ mode' = mode /\ said' = said
    BY <1>4 DEF Attempt, End, Idle, Transport, Probe, PumpTerminal, PumpOther, PumpReturns,
                PumpSentinel, PumpLogs, Leave, Send, upstreamVars, clientVars
  <2> QED
    BY <2>1 DEF Promise!vars, Delivered
<1> QED
  BY <1>1, <1>2, <1>3, <1>4 DEF Next

\* The relay keeps the promise: what the client is delivered is what the
\* upstream said, in order, without loss, repetition or invention.
THEOREM RelayRefines == Spec => RelaysFaithfully
<1>1. OInv /\ [Next]_vars => [Promise!Say \/ Promise!Read]_(Promise!vars)
  BY StepRefined
<1> QED
  BY <1>1, InitOInv, StepOInv, InitRefined, PTL DEF Spec, RelaysFaithfully, Promise!Spec
=============================================================================
