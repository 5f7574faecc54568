-------------------------- MODULE RouteGraphProofs --------------------------
(***************************************************************************)
(* What resolution guarantees for any store, any limit of the depth and    *)
(* any edits during the walk.  That the walk is sound rests on what it     *)
(* verifies itself; that the store is, on what StoreProofs proves.         *)
(***************************************************************************)
EXTENDS RouteGraph, StoreProofs, WellFoundedInduction

(* Offered only grows, by what the store offers at each moment.              *)
Covers(w, d) ==
  /\ \A v : Usable(d, w.profile, v) => v \in w.offered.providers
  /\ \A r : Enterable(d, w.profile, r) => r \in w.offered.routes

Shape(w) ==
  w \in [phase : {w.phase}, profile : {w.profile}, proxy : {w.proxy}, frames : {w.frames},
         visited : {w.visited}, next : {w.next}, route : {w.route}, found : {w.found},
         alone : {w.alone}, offered : {w.offered}]

(* Where the walk is says how its path and its stack fit together, and which *)
(* of its next steps has already been verified.                             *)
PhaseSound(w) ==
  /\ w.phase \in {"proxy", "enter", "chain", "shared"} => Len(w.visited) = Len(w.frames)
  /\ w.phase = "proxy" => w.frames = << >>
  /\ w.phase = "enter" /\ w.frames # << >> => w.next \in w.offered.routes
  /\ w.phase \in {"chain", "shared"} => w.frames # << >>
  /\ w.phase = "shared" /\ w.next[2] = w.profile => w.next[1] \in w.offered.routes

(* The list and the path hold only what was offered; the path is simple.     *)
PathSound(w) ==
  /\ \A i \in DOMAIN w.found : w.found[i].provider \in w.offered.providers
  /\ \A i \in 2 .. Len(w.visited) : w.visited[i] \in w.offered.routes
  /\ Len(w.visited) <= MaxDepth
  /\ \A i, j \in 1 .. Len(w.visited) : w.visited[i] = w.visited[j] => i = j

WalkSound(w, d) ==
  /\ Shape(w)
  /\ IsList(w.frames) /\ IsList(w.visited) /\ IsList(w.found)
  /\ w.phase \in {"proxy", "enter", "chain", "shared", "done", "failed"}
  /\ Covers(w, d) /\ PhaseSound(w) /\ PathSound(w)

WalkInv == walk = Resting \/ WalkSound(walk, db)

-----------------------------------------------------------------------------
(* The steps of a walk.                                                      *)

LEMMA WalkKeeps ==
  ASSUME NEW w, Walk(w), w = Resting \/ WalkSound(w, db)
  PROVE  WalkInv'
<1>1. walk' = w /\ db' = db
  BY DEF Walk, consoleVars
<1> QED
  BY <1>1 DEF WalkInv

(* A walk that is under way is sound.                                        *)
LEMMA UnderWay ==
  ASSUME WalkInv, walk.phase # "idle"
  PROVE  WalkSound(walk, db)
BY DEF WalkInv, Resting

LEMMA FindProxyKeeps ==
  ASSUME NEW p, FindProxy(p)
  PROVE  WalkInv'
<1>1. PICK x \in ListProxies(db, p) :
        walk' = [phase |-> "proxy", profile |-> p, proxy |-> x, frames |-> <<>>, visited |-> <<>>,
                 next |-> None, route |-> None, found |-> <<>>, alone |-> TRUE,
                 offered |-> Offered(db, p)]
  BY DEF FindProxy
<1>2. db' = db
  BY DEF FindProxy, consoleVars
<1> DEFINE w == walk'
<1>3. Shape(w) /\ w.phase = "proxy" /\ w.profile = p /\ w.frames = << >> /\ w.visited = << >>
      /\ w.found = << >> /\ w.offered = Offered(db, p)
  BY <1>1 DEF Shape
<1> HIDE DEF w
<1>4. Covers(w, db)
  BY <1>3 DEF Covers, Offered, Usable, Enterable
<1>5. PhaseSound(w)
  BY <1>3 DEF PhaseSound
<1>6. PathSound(w)
  BY <1>3, GraphAssumption DEF PathSound
<1>7. WalkSound(w, db)
  BY <1>3, <1>4, <1>5, <1>6, EmptyIsList DEF WalkSound
<1> QED
  BY <1>2, <1>7 DEF WalkInv, w

LEMMA FailKeeps ==
  ASSUME WalkInv, walk.phase # "idle", Fail
  PROVE  WalkInv'
<1> DEFINE w == [walk EXCEPT !.phase = "failed"]
<1>1. WalkSound(walk, db)
  BY UnderWay
<1>2. Shape(w) /\ w.phase = "failed" /\ w.frames = walk.frames /\ w.visited = walk.visited
      /\ w.found = walk.found /\ w.offered = walk.offered /\ w.profile = walk.profile
  BY <1>1 DEF WalkSound, Shape
<1>3. Walk(w)
  BY DEF Fail
<1> HIDE DEF w
<1>4. WalkSound(w, db)
  BY <1>1, <1>2 DEF WalkSound, Covers, PhaseSound, PathSound
<1> QED
  BY <1>3, <1>4, WalkKeeps

LEMMA FindRouteKeeps ==
  ASSUME WalkInv, FindRoute
  PROVE  WalkInv'
<1>1. walk.phase = "proxy"
  BY DEF FindRoute
<1>2. CASE Fail
  BY <1>1, <1>2, FailKeeps
<1>3. ASSUME NEW r, Walk([walk EXCEPT !.phase = "enter", !.next = r, !.route = r])
      PROVE  WalkInv'
  <2> DEFINE w == [walk EXCEPT !.phase = "enter", !.next = r, !.route = r]
  <2>1. WalkSound(walk, db)
    BY <1>1, UnderWay
  <2>2. Shape(w) /\ w.phase = "enter" /\ w.frames = walk.frames /\ w.visited = walk.visited
        /\ w.found = walk.found /\ w.offered = walk.offered /\ w.profile = walk.profile
    BY <2>1 DEF WalkSound, Shape
  <2> HIDE DEF w
  <2>3. WalkSound(w, db)
    BY <1>1, <2>1, <2>2 DEF WalkSound, Covers, PhaseSound, PathSound
  <2> QED
    BY <1>3, <2>3, WalkKeeps DEF w
<1> QED
  BY <1>2, <1>3 DEF FindRoute

LEMMA EnterKeeps ==
  ASSUME WalkInv, Enter
  PROVE  WalkInv'
<1>1. walk.phase = "enter"
  BY DEF Enter
<1>2. CASE Fail
  BY <1>1, <1>2, FailKeeps
<1>3. ASSUME ~TooDeepOrCircular(walk), NEW rows,
             Walk([walk EXCEPT !.phase = "chain", !.visited = Append(@, walk.next),
                               !.frames = Append(@, rows)])
      PROVE  WalkInv'
  <2> DEFINE w == [walk EXCEPT !.phase = "chain", !.visited = Append(@, walk.next),
                               !.frames = Append(@, rows)]
  <2>1. WalkSound(walk, db)
    BY <1>1, UnderWay
  <2>2. /\ Shape(w) /\ w.phase = "chain" /\ w.frames = Append(walk.frames, rows)
        /\ w.visited = Append(walk.visited, walk.next)
        /\ w.found = walk.found /\ w.offered = walk.offered /\ w.profile = walk.profile
    BY <2>1 DEF WalkSound, Shape
  <2> HIDE DEF w
  <2>3. IsList(walk.frames) /\ IsList(walk.visited) /\ Len(walk.frames) \in Nat /\ Len(walk.visited) \in Nat
    BY <2>1 DEF WalkSound, IsList
  <2>4. /\ IsList(w.frames) /\ Len(w.frames) = Len(walk.frames) + 1 
        /\ IsList(w.visited) /\ Len(w.visited) = Len(walk.visited) + 1
        /\ \A i \in 1 .. Len(walk.visited) : w.visited[i] = walk.visited[i]
        /\ w.visited[Len(walk.visited) + 1] = walk.next
    BY <2>2, <2>3, AppendIsList
  <2>5. Len(walk.visited) < MaxDepth /\ \A i \in 1 .. Len(walk.visited) : walk.visited[i] # walk.next
    BY <1>3, <2>3, GraphAssumption DEF TooDeepOrCircular, Contains
  <2>6. Len(walk.visited) = Len(walk.frames) /\ PathSound(walk)
    BY <1>1, <2>1 DEF WalkSound, PhaseSound
  <2>7. Len(walk.visited) # 0 => walk.next \in walk.offered.routes
    <3>1. Len(walk.visited) # 0 => walk.frames # << >>
      BY <2>6
    <3> QED
      BY <1>1, <2>1, <3>1 DEF WalkSound, PhaseSound
  <2>8. PathSound(w)
    <3>1. \A i \in 2 .. Len(w.visited) : w.visited[i] \in w.offered.routes
      BY <2>2, <2>3, <2>4, <2>6, <2>7 DEF PathSound
    <3>2. Len(w.visited) <= MaxDepth
      BY <2>3, <2>4, <2>5, GraphAssumption
    <3>3. \A i, j \in 1 .. Len(walk.visited) : w.visited[i] = w.visited[j] => i = j
      BY <2>4, <2>6 DEF PathSound
    <3>4. \A i \in 1 .. Len(walk.visited) : w.visited[i] # w.visited[Len(walk.visited) + 1]
      BY <2>4, <2>5
    <3>5. \A i \in 1 .. Len(w.visited) :
            i \in 1 .. Len(walk.visited) \/ i = Len(walk.visited) + 1
      BY <2>3, <2>4
    <3>6. \A i, j \in 1 .. Len(w.visited) : w.visited[i] = w.visited[j] => i = j
      BY <3>3, <3>4, <3>5
    <3> QED
      BY <2>2, <2>6, <3>1, <3>2, <3>6 DEF PathSound
  <2>9. PhaseSound(w)
    <3>1. w.frames # << >>
      BY <2>3, <2>4
    <3> QED
      BY <2>2, <2>4, <2>6, <3>1 DEF PhaseSound
  <2>10. WalkSound(w, db)
    BY <2>1, <2>2, <2>4, <2>8, <2>9 DEF WalkSound, Covers
  <2> QED
    BY <1>3, <2>10, WalkKeeps DEF w
<1> QED
  BY <1>2, <1>3 DEF Enter

(* What Rest leaves as it is.                                                *)
LEMMA RestKeepsShape ==
  ASSUME NEW w, Shape(w), IsList(w.frames), w.frames # << >>
  PROVE  LET u == Rest(w)
         IN  /\ Shape(u) /\ IsList(u.frames) /\ Len(u.frames) = Len(w.frames) /\ u.frames # << >>
             /\ u.phase = w.phase /\ u.profile = w.profile /\ u.visited = w.visited
             /\ u.next = w.next /\ u.found = w.found /\ u.offered = w.offered
<1> DEFINE f == [w.frames EXCEPT ![Len(w.frames)] = Tail(@)]
           u == Rest(w)
<1>1. IsList(f) /\ Len(f) = Len(w.frames)
  BY ReplaceIsList
<1> HIDE DEF f
<1>2. f # << >>
  <2>1. Len(w.frames) # 0
    <3>1. PICK S : w.frames \in Seq(S)
      BY ListIsSeq
    <3> QED
      BY <3>1
  <2> QED
    BY <1>1, <2>1
<1>3. u = [w EXCEPT !.frames = f]
  BY DEF Rest, Shape, f
<1> HIDE DEF u
<1>4. /\ Shape(u) /\ u.frames = f
      /\ u.phase = w.phase /\ u.profile = w.profile /\ u.visited = w.visited
      /\ u.next = w.next /\ u.found = w.found /\ u.offered = w.offered
  BY <1>3 DEF Shape
<1> QED
  BY <1>1, <1>2, <1>4 DEF u

LEMMA LeafKeeps ==
  ASSUME WalkInv, Leaf
  PROVE  WalkInv'
<1>1. walk.phase = "chain"
  BY DEF Leaf
<1>2. CASE Fail
  BY <1>1, <1>2, FailKeeps
<1>3. CASE /\ Usable(db, walk.profile, Head(Top).provider)
           /\ Walk([Rest(walk) EXCEPT !.found = Append(@, Head(Top))])
  <2> DEFINE u == Rest(walk)
             w == [u EXCEPT !.found = Append(@, Head(Top))]
  <2>1. WalkSound(walk, db) /\ walk.frames # << >>
    BY <1>1, UnderWay DEF WalkSound, PhaseSound
  <2>2. /\ Shape(u) /\ IsList(u.frames) /\ Len(u.frames) = Len(walk.frames) /\ u.frames # << >>
        /\ u.phase = walk.phase /\ u.profile = walk.profile /\ u.visited = walk.visited
        /\ u.next = walk.next /\ u.found = walk.found /\ u.offered = walk.offered
    BY <2>1, RestKeepsShape DEF WalkSound
  <2>3. Walk(w)
    BY <1>3
  <2> HIDE DEF u
  <2>4. /\ Shape(w) /\ w.phase = u.phase /\ w.profile = u.profile /\ w.visited = u.visited
        /\ w.frames = u.frames /\ w.found = Append(u.found, Head(Top)) /\ w.offered = u.offered
    BY <2>2 DEF Shape
  <2> HIDE DEF w
  <2>5. IsList(walk.found) /\ Len(walk.found) \in Nat /\ DOMAIN walk.found = 1 .. Len(walk.found)
    BY <2>1 DEF WalkSound, IsList
  <2>6. /\ IsList(w.found) /\ Len(w.found) = Len(walk.found) + 1
        /\ \A i \in 1 .. Len(walk.found) : w.found[i] = walk.found[i]
        /\ w.found[Len(walk.found) + 1] = Head(Top)
    BY <2>2, <2>4, <2>5, AppendIsList
  <2>7. Head(Top).provider \in walk.offered.providers
    BY <1>3, <2>1 DEF WalkSound, Covers
  <2>8. DOMAIN w.found = 1 .. Len(w.found)
    BY <2>6 DEF IsList
  <2>9. \A i \in DOMAIN w.found : w.found[i].provider \in w.offered.providers
    BY <2>1, <2>2, <2>4, <2>5, <2>6, <2>7, <2>8 DEF WalkSound, PathSound
  <2>10. WalkSound(w, db)
    BY <1>1, <2>1, <2>2, <2>4, <2>6, <2>9 DEF WalkSound, Covers, PhaseSound, PathSound
  <2> QED
    BY <2>3, <2>10, WalkKeeps
<1> QED
  BY <1>2, <1>3 DEF Leaf

LEMMA NestedOwnerKeeps ==
  ASSUME WalkInv, NestedOwner
  PROVE  WalkInv'
<1>1. walk.phase = "chain"
  BY DEF NestedOwner
<1>2. CASE Fail
  BY <1>1, <1>2, FailKeeps
<1>3. ASSUME NEW t, t \in DOMAIN db.routes,
             Walk([walk EXCEPT !.phase = "shared", !.next = <<t, RouteOwnerProfile(db, t)>>])
      PROVE  WalkInv'
  <2> DEFINE w == [walk EXCEPT !.phase = "shared", !.next = <<t, RouteOwnerProfile(db, t)>>]
  <2>1. WalkSound(walk, db)
    BY <1>1, UnderWay
  <2>2. /\ Shape(w) /\ w.phase = "shared" /\ w.frames = walk.frames /\ w.visited = walk.visited
        /\ w.found = walk.found /\ w.offered = walk.offered /\ w.profile = walk.profile
        /\ w.next[1] = t /\ w.next[2] = RouteOwnerProfile(db, t)
    BY <2>1 DEF WalkSound, Shape
  <2> HIDE DEF w
  <2>3. w.next[2] = w.profile => w.next[1] \in w.offered.routes
    BY <1>3, <2>1, <2>2 DEF WalkSound, Covers, Enterable
  <2>4. WalkSound(w, db)
    BY <1>1, <2>1, <2>2, <2>3 DEF WalkSound, Covers, PhaseSound, PathSound
  <2> QED
    BY <1>3, <2>4, WalkKeeps DEF w
<1> QED
  BY <1>2, <1>3 DEF NestedOwner

LEMMA NestedSharedKeeps ==
  ASSUME WalkInv, NestedShared
  PROVE  WalkInv'
<1> DEFINE t == walk.next[1]
<1>1. walk.phase = "shared"
  BY DEF NestedShared
<1>2. CASE Fail
  BY <1>1, <1>2, FailKeeps
<1>3. CASE /\ (t \in DOMAIN db.routes /\ db.routes[t].shared) \/ walk.next[2] = walk.profile
           /\ Walk([Rest(walk) EXCEPT !.phase = "enter", !.next = t])
  <2> DEFINE u == Rest(walk)
             w == [u EXCEPT !.phase = "enter", !.next = t]
  <2>1. WalkSound(walk, db) /\ walk.frames # << >>
    BY <1>1, UnderWay DEF WalkSound, PhaseSound
  <2>2. /\ Shape(u) /\ IsList(u.frames) /\ Len(u.frames) = Len(walk.frames) /\ u.frames # << >>
        /\ u.profile = walk.profile /\ u.visited = walk.visited
        /\ u.found = walk.found /\ u.offered = walk.offered
    BY <2>1, RestKeepsShape DEF WalkSound
  <2>3. t \in walk.offered.routes
    BY <1>1, <1>3, <2>1 DEF WalkSound, Covers, PhaseSound, Enterable
  <2>4. Walk(w)
    BY <1>3
  <2> HIDE DEF u, t
  <2>5. /\ Shape(w) /\ w.phase = "enter" /\ w.profile = u.profile /\ w.visited = u.visited
        /\ w.frames = u.frames /\ w.found = u.found /\ w.offered = u.offered /\ w.next = t
    BY <2>2 DEF Shape
  <2> HIDE DEF w
  <2>6. WalkSound(w, db)
    BY <1>1, <2>1, <2>2, <2>3, <2>5 DEF WalkSound, Covers, PhaseSound, PathSound
  <2> QED
    BY <2>4, <2>6, WalkKeeps
<1> QED
  BY <1>2, <1>3 DEF NestedShared

LEMMA LeaveKeeps ==
  ASSUME WalkInv, Leave
  PROVE  WalkInv'
<1> DEFINE w == [walk EXCEPT !.frames = Front(@), !.visited = Front(@)]
<1>1. walk.phase = "chain" /\ Len(walk.frames) > 1 /\ Walk(w)
  BY DEF Leave
<1>2. WalkSound(walk, db)
  BY <1>1, UnderWay
<1>3. /\ Shape(w) /\ w.phase = "chain" /\ w.frames = Front(walk.frames)
      /\ w.visited = Front(walk.visited) /\ w.profile = walk.profile
      /\ w.found = walk.found /\ w.offered = walk.offered
  BY <1>1, <1>2 DEF WalkSound, Shape
<1> HIDE DEF w
<1>4. /\ IsList(walk.frames) /\ IsList(walk.visited) /\ Len(walk.frames) \in Nat
      /\ Len(walk.visited) = Len(walk.frames) /\ walk.frames # << >> /\ PathSound(walk)
  BY <1>1, <1>2 DEF WalkSound, PhaseSound, IsList
<1>5. walk.visited # << >>
  BY <1>1, <1>4
<1>6. /\ IsList(w.frames) /\ Len(w.frames) = Len(walk.frames) - 1
      /\ IsList(w.visited) /\ Len(w.visited) = Len(walk.visited) - 1
      /\ \A i \in 1 .. Len(walk.visited) - 1 : w.visited[i] = walk.visited[i]
  BY <1>3, <1>4, <1>5, FrontIsList
<1>7. w.frames # << >>
  BY <1>1, <1>4, <1>6
<1>8. PathSound(w)
  BY <1>3, <1>4, <1>6, GraphAssumption DEF PathSound
<1>9. WalkSound(w, db)
  BY <1>2, <1>3, <1>4, <1>6, <1>7, <1>8 DEF WalkSound, Covers, PhaseSound
<1> QED
  BY <1>1, <1>9, WalkKeeps

LEMMA AnswerKeeps ==
  ASSUME Answer
  PROVE  WalkInv'
BY WalkKeeps DEF Answer

-----------------------------------------------------------------------------
(* What the strategies return are rearrangements of what was found.          *)

PartOf(s, list) == IsList(s) /\ \A i \in DOMAIN s : \E j \in DOMAIN list : s[i] = list[j]

LEMMA SortedIsPart ==
  ASSUME NEW list, IsList(list), NEW key, DOMAIN key \subseteq DOMAIN list,
         NEW s \in Sorted(list, key)
  PROVE  PartOf(s, list)
<1> DEFINE at == DOMAIN key
           n == Cardinality(at)
<1>1. n \in Nat
  <2>1. DOMAIN list = 1 .. Len(list) /\ Len(list) \in Nat
    BY DEF IsList
  <2>2. IsFiniteSet(1 .. Len(list))
    BY <2>1, FS_Interval
  <2> QED
    BY <2>1, <2>2, FS_Subset, FS_CardinalityType
<1>2. PICK f \in [1 .. n -> at] : s = [i \in 1 .. n |-> list[f[i]]]
  BY DEF Sorted
<1> HIDE DEF n, at
<1>3. s = [i \in 1 .. n |-> s[i]] /\ DOMAIN s = 1 .. n
  BY <1>2
<1>4. IsList(s)
  BY <1>1, <1>3, FunctionIsList
<1>5. \A i \in 1 .. n : f[i] \in DOMAIN list /\ s[i] = list[f[i]]
  BY <1>2 DEF at
<1> QED
  BY <1>3, <1>4, <1>5 DEF PartOf

LEMMA WarmFirstIsPart ==
  ASSUME NEW list, IsList(list), NEW s \in WarmFirst(list)
  PROVE  PartOf(s, list)
<1> DEFINE warm == {i \in DOMAIN list : list[i].warm = 0}
           k0 == [i \in warm |-> 0]
           k1 == [i \in DOMAIN list |-> list[i].warm]
<1>1. DOMAIN k0 \subseteq DOMAIN list /\ DOMAIN k1 \subseteq DOMAIN list
  OBVIOUS
<1>2. s \in Sorted(list, k0) \/ s \in Sorted(list, k1)
  BY DEF WarmFirst
<1> HIDE DEF k0, k1
<1> QED
  BY <1>1, <1>2, SortedIsPart

LEMMA CheapFirstIsPart ==
  ASSUME NEW list, IsList(list), NEW s \in CheapFirst(list)
  PROVE  PartOf(s, list)
<1> DEFINE key == [i \in DOMAIN list |->
                     IF list[i].entry \in DOMAIN Price THEN Price[list[i].entry] ELSE Unpriced]
<1>1. DOMAIN key \subseteq DOMAIN list
  OBVIOUS
<1>2. s \in Sorted(list, key)
  BY DEF CheapFirst
<1> HIDE DEF key
<1> QED
  BY <1>1, <1>2, SortedIsPart

LEMMA RotateIsPart ==
  ASSUME NEW list, IsList(list), NEW k \in 0 .. Len(list)
  PROVE  PartOf(RotateLeft(list, k), list)
<1> DEFINE r == RotateLeft(list, k)
           n == Len(list)
           a == SubSeq(list, k + 1, n)
           b == SubSeq(list, 1, k)
<1>1. PICK S : list \in Seq(S)
  BY ListIsSeq
<1>2. n \in Nat /\ DOMAIN list = 1 .. n /\ k \in Nat /\ k <= n
  BY DEF IsList
<1> HIDE DEF n
<1>3. a \in Seq(S) /\ Len(a) = n - k /\ \A i \in 1 .. n - k : a[i] = list[k + i]
  <2>1. /\ k \in Int /\ k + 1 \in Int /\ n \in Int /\ n - (k + 1) + 1 = n - k
        /\ \A i \in k + 1 .. n : list[i] \in S
    BY <1>1, <1>2
  <2>2. /\ a \in Seq(S) /\ Len(a) = IF k + 1 <= n THEN n - (k + 1) + 1 ELSE 0
        /\ \A i \in 1 .. n - (k + 1) + 1 : a[i] = list[k + 1 + i - 1]
    BY <2>1, SubSeqProperties
  <2>3. n - k \in Nat /\ (~(k + 1 <= n) => n - k = 0)
    BY <1>2
  <2>4. \A i \in 1 .. n - k : k + 1 + i - 1 = k + i
    BY <2>1, <2>3
  <2> QED
    BY <2>1, <2>2, <2>3, <2>4
<1>4. b \in Seq(S) /\ Len(b) = k /\ \A i \in 1 .. k : b[i] = list[i]
  BY <1>1, <1>2
<1>5. r = a \o b
  BY DEF RotateLeft, n
<1> HIDE DEF r, a, b
<1>6. /\ r \in Seq(S) /\ Len(r) = Len(a) + Len(b)
      /\ \A i \in 1 .. Len(a) + Len(b) : r[i] = IF i <= Len(a) THEN a[i] ELSE b[i - Len(a)]
  BY <1>3, <1>4, <1>5, ConcatProperties
<1>7. ASSUME NEW i \in 1 .. n
      PROVE  \E j \in DOMAIN list : r[i] = list[j]
  <2>1. CASE i <= n - k
    <3>1. r[i] = list[k + i] /\ k + i \in DOMAIN list
      BY <1>2, <1>3, <1>4, <1>6, <2>1
    <3> QED
      BY <3>1
  <2>2. CASE i > n - k
    <3>1. r[i] = list[i - (n - k)] /\ i - (n - k) \in DOMAIN list
      BY <1>2, <1>3, <1>4, <1>6, <2>2
    <3> QED
      BY <3>1
  <2> QED
    BY <1>2, <2>1, <2>2
<1>8. Len(r) = n
  BY <1>2, <1>3, <1>4, <1>6
<1>9. IsList(r) /\ DOMAIN r = 1 .. n
  BY <1>6, <1>8, SeqIsList
<1> QED
  BY <1>7, <1>9 DEF PartOf, r

LEMMA OrderedIsPart ==
  ASSUME NEW r, NEW list, IsList(list), NEW s \in Ordered(r, list),
         Turn(r) \in Nat
  PROVE  PartOf(s, list)
<1>1. CASE Rotates(r, list)
  <2>1. s = RotateLeft(list, Split(r, list))
    BY <1>1 DEF Ordered, Rotates
  <2>2. Len(list) \in Nat /\ Len(list) > 1
    BY <1>1 DEF Rotates, IsList
  <2>3. Split(r, list) \in 0 .. Len(list)
    BY <2>2 DEF Split
  <2> QED
    BY <2>1, <2>3, RotateIsPart
<1>2. CASE ~Rotates(r, list) /\ StrategyOf(r) = "weighted" /\ list # << >>
  <2>1. PICK k \in 0 .. Len(list) - 1 : s = RotateLeft(list, k)
    BY <1>2 DEF Ordered
  <2>2. k \in 0 .. Len(list)
    BY DEF IsList
  <2> QED
    BY <2>1, <2>2, RotateIsPart
<1>3. CASE ~Rotates(r, list) /\ StrategyOf(r) = "economy"
  <2>1. s \in CheapFirst(list)
    BY <1>3 DEF Ordered
  <2> QED
    BY <2>1, CheapFirstIsPart
<1>4. CASE s = list
  BY <1>4 DEF PartOf
<1> QED
  BY <1>1, <1>2, <1>3, <1>4 DEF Ordered

LEMMA PartOfPart ==
  ASSUME NEW s, NEW t, NEW u, PartOf(s, t), PartOf(t, u)
  PROVE  PartOf(s, u)
BY DEF PartOf

-----------------------------------------------------------------------------
(* Round robin.  The positions that have led a list follow each other around *)
(* it, and the counter stands at the one to come, so that no position leads  *)
(* twice before the list is through.                                        *)
Wrap(k, n) == IF k < n THEN k ELSE k - n

LeadersSound(list, led, t) ==
  /\ Len(list) \in Nat /\ Len(list) > 1
  /\ led \in Seq(0 .. Len(list) - 1)
  /\ Len(led) >= 1 /\ Len(led) <= Len(list)
  /\ \A i \in 1 .. Len(led) : led[i] = Wrap(led[1] + i - 1, Len(list))
  /\ t = Wrap(led[1] + Len(led), Len(list))

TurnInv ==
  /\ \A r \in DOMAIN turn : turn[r] \in Nat
  /\ \A r \in DOMAIN served :
       r \in DOMAIN turn /\ LeadersSound(served[r].list, served[r].led, turn[r])

LEMMA TurnIsNat ==
  ASSUME TurnInv, NEW r
  PROVE  Turn(r) \in Nat
BY DEF TurnInv, Turn

LEMMA WrapWrap ==
  ASSUME NEW n \in Nat, n > 1, NEW k \in 0 .. 2 * n - 2
  PROVE  Wrap(Wrap(k, n) + 1, n) = Wrap(k + 1, n)
BY DEF Wrap

LEMMA WrapIsInjective ==
  ASSUME NEW n \in Nat, n > 1, NEW a \in 0 .. n - 1, NEW i \in 1 .. n, NEW j \in 1 .. n,
         Wrap(a + i - 1, n) = Wrap(a + j - 1, n)
  PROVE  i = j
BY DEF Wrap

LEMMA RemainderIsUnique ==
  ASSUME NEW n \in Nat, n > 1, NEW p \in Int, NEW q \in Int,
         NEW a \in 0 .. n - 1, NEW b \in 0 .. n - 1, n * p + a = n * q + b
  PROVE  a = b
<1>1. CASE p = q
  BY <1>1
<1>2. CASE p >= q + 1
  <2>1. n * p >= n * (q + 1)
    BY <1>2
  <2>2. n * (q + 1) = n * q + n
    OBVIOUS
  <2> QED
    BY <2>1, <2>2
<1>3. CASE q >= p + 1
  <2>1. n * q >= n * (p + 1)
    BY <1>3
  <2>2. n * (p + 1) = n * p + n
    OBVIOUS
  <2> QED
    BY <2>1, <2>2
<1> QED
  BY <1>1, <1>2, <1>3

LEMMA Remainder ==
  ASSUME NEW n \in Nat, n > 1, NEW k \in Nat
  PROVE  k % n \in 0 .. n - 1 /\ k \div n \in Int /\ n * (k \div n) + (k % n) = k
OBVIOUS

LEMMA OneMore ==
  ASSUME NEW n \in Nat, n > 1, NEW k \in Nat
  PROVE  /\ k % n \in 0 .. n - 1
         /\ k < n => k % n = k
         /\ (k + 1) % n = Wrap((k % n) + 1, n)
<1> DEFINE q == k \div n
           a == k % n
           s == (k + 1) \div n
           b == (k + 1) % n
<1>1. a \in 0 .. n - 1 /\ q \in Int /\ n * q + a = k
  BY Remainder
<1>2. b \in 0 .. n - 1 /\ s \in Int /\ n * s + b = k + 1
  BY Remainder
<1> HIDE DEF a, b, q, s
<1>3. ASSUME a + 1 < n PROVE b = Wrap(a + 1, n)
  <2>1. n * s + b = n * q + (a + 1) /\ a + 1 \in 0 .. n - 1
    BY <1>1, <1>2, <1>3
  <2>2. b = a + 1
    BY <1>2, <1>1, <2>1, RemainderIsUnique
  <2> QED
    BY <1>3, <2>2 DEF Wrap
<1>4. ASSUME a + 1 = n PROVE b = Wrap(a + 1, n)
  <2>1. n * (q + 1) = n * q + n
    BY <1>1
  <2>2. n * s + b = n * (q + 1) + 0 /\ 0 \in 0 .. n - 1 /\ q + 1 \in Int
    BY <1>1, <1>2, <1>4, <2>1
  <2>3. b = 0
    BY <1>2, <2>2, RemainderIsUnique
  <2> QED
    BY <1>1, <1>4, <2>3 DEF Wrap
<1>5. b = Wrap(a + 1, n)
  BY <1>1, <1>3, <1>4
<1>6. k < n => a = k
  <2>1. ASSUME k < n
        PROVE  a = k
    <3>1. n * q + a = n * 0 + k /\ k \in 0 .. n - 1
      BY <1>1, <2>1
    <3> QED
      BY <1>1, <3>1, RemainderIsUnique
  <2> QED
    BY <2>1
<1> QED
  BY <1>1, <1>5, <1>6 DEF a, b

(* The positions led so far with the one the counter picks.                  *)
LEMMA NextLeads ==
  ASSUME TurnInv, NEW r, NEW list, IsList(list), Len(list) > 1
  PROVE  LeadersSound(list, Append(Leaders(r, list), Split(r, list)), (Turn(r) + 1) % Len(list))
<1> DEFINE n == Len(list)
           led == Leaders(r, list)
           p == Split(r, list)
           t == (Turn(r) + 1) % n
           more == Append(led, p)
<1>1. n \in Nat /\ n > 1
  BY DEF IsList
<1>2. p = Turn(r) % n /\ Turn(r) \in Nat
  BY TurnIsNat DEF Split
<1>3. p \in 0 .. n - 1 /\ t = Wrap(p + 1, n) /\ (Turn(r) < n => p = Turn(r))
  BY <1>1, <1>2, OneMore
<1>4. CASE led = << >>
  <2>1. more = <<p>>
    BY <1>4
  <2> QED
    BY <1>1, <1>3, <2>1 DEF LeadersSound, Wrap
<1>5. CASE led # << >>
  <2>1. /\ r \in DOMAIN served /\ served[r].list = list /\ Len(served[r].led) < n
        /\ led = served[r].led
    BY <1>5 DEF Leaders
  <2>2. LeadersSound(list, led, turn[r]) /\ Turn(r) = turn[r] /\ Len(led) < n
    BY <2>1 DEF TurnInv, Turn, CounterOf
  <2> HIDE DEF led, n
  <2>3. /\ led \in Seq(0 .. n - 1) /\ Len(led) \in Nat /\ Len(led) >= 1
        /\ led[1] \in 0 .. n - 1
        /\ \A i \in 1 .. Len(led) : led[i] = Wrap(led[1] + i - 1, n)
        /\ Turn(r) = Wrap(led[1] + Len(led), n)
    <3>1. /\ led \in Seq(0 .. n - 1) /\ Len(led) >= 1
          /\ \A i \in 1 .. Len(led) : led[i] = Wrap(led[1] + i - 1, n)
          /\ Turn(r) = Wrap(led[1] + Len(led), n)
      BY <2>2 DEF LeadersSound, n
    <3>2. Len(led) \in Nat /\ led \in [1 .. Len(led) -> 0 .. n - 1]
      BY <3>1, SeqIsFunction
    <3> QED
      BY <3>1, <3>2
  <2>4. p = Wrap(led[1] + Len(led), n)
    <3>1. Turn(r) < n
      BY <1>1, <2>2, <2>3 DEF Wrap
    <3> QED
      BY <1>3, <2>3, <3>1
  <2> HIDE DEF p, t
  <2>5. /\ more \in Seq(0 .. n - 1) /\ Len(more) = Len(led) + 1
        /\ \A i \in 1 .. Len(led) : more[i] = led[i]
        /\ more[Len(led) + 1] = p
    BY <1>3, <2>3
  <2> HIDE DEF more
  <2>6. more[1] = led[1]
    BY <2>3, <2>5
  <2>7. \A i \in 1 .. Len(more) : more[i] = Wrap(more[1] + i - 1, n)
    <3>1. ASSUME NEW i \in 1 .. Len(more)
          PROVE  more[i] = Wrap(more[1] + i - 1, n)
      <4>1. CASE i \in 1 .. Len(led)
        BY <2>3, <2>5, <2>6, <4>1
      <4>2. CASE i = Len(led) + 1
        <5>1. led[1] + i - 1 = led[1] + Len(led)
          BY <2>3, <4>2
        <5> QED
          BY <2>4, <2>5, <2>6, <4>2, <5>1
      <4> QED
        BY <2>3, <2>5, <4>1, <4>2
    <3> QED
      BY <3>1
  <2>8. t = Wrap(more[1] + Len(more), n)
    <3>1. /\ more[1] + Len(more) = led[1] + Len(led) + 1
          /\ led[1] + Len(led) \in 0 .. 2 * n - 2
      BY <1>1, <2>2, <2>3, <2>5, <2>6
    <3> QED
      BY <1>1, <1>3, <2>4, <3>1, WrapWrap
  <2>9. Len(more) >= 1 /\ Len(more) <= n
    BY <1>1, <2>2, <2>3, <2>5
  <2>10. LeadersSound(list, more, t)
    BY <1>1, <2>5, <2>7, <2>8, <2>9 DEF LeadersSound, n
  <2> QED
    BY <2>10 DEF n, t, more, p, led
<1> QED
  BY <1>4, <1>5

LEMMA RotationKeeps ==
  ASSUME TurnInv, NEW r, NEW list, IsList(list), Len(list) > 1,
         turn' = With(turn, CounterOf(r), (Turn(r) + 1) % Len(list)),
         served' = With(served, r, [list |-> list,
                                    led |-> Append(Leaders(r, list), Split(r, list))])
  PROVE  TurnInv'
<1> DEFINE led == Append(Leaders(r, list), Split(r, list))
           t == (Turn(r) + 1) % Len(list)
<1>1. LeadersSound(list, led, t)
  BY NextLeads
<1>2. t \in Nat
  <2>1. Len(list) \in Nat /\ Turn(r) + 1 \in Nat
    BY TurnIsNat DEF IsList
  <2>2. t \in 0 .. Len(list) - 1
    BY <2>1, OneMore
  <2> QED
    BY <2>1, <2>2
<1> HIDE DEF led, t
<1>3. /\ DOMAIN turn' = {r} \cup DOMAIN turn /\ turn'[r] = t
      /\ \A q \in DOMAIN turn : q # r => turn'[q] = turn[q]
  BY DEF CounterOf, With, t
<1>4. /\ DOMAIN served' = {r} \cup DOMAIN served
      /\ served'[r].list = list /\ served'[r].led = led
      /\ \A q \in DOMAIN served : q # r => served'[q] = served[q]
  BY DEF With, led
<1>5. \A q \in DOMAIN turn' : turn'[q] \in Nat
  BY <1>2, <1>3 DEF TurnInv
<1>6. ASSUME NEW q \in DOMAIN served'
      PROVE  q \in DOMAIN turn' /\ LeadersSound(served'[q].list, served'[q].led, turn'[q])
  <2>1. CASE q = r
    BY <1>1, <1>3, <1>4, <2>1
  <2>2. CASE q # r
    BY <1>3, <1>4, <1>6, <2>2 DEF TurnInv
  <2> QED
    BY <2>1, <2>2
<1> QED
  BY <1>5, <1>6 DEF TurnInv

-----------------------------------------------------------------------------
(* Resolution ends, and others act.                                          *)

LEMMA ResolveKeeps ==
  ASSUME WalkInv, TurnInv, Resolve
  PROVE  WalkInv' /\ TurnInv'
<1>1. /\ walk.phase = "chain" /\ Len(walk.frames) = 1 /\ db' = db
  BY DEF Resolve, consoleVars
<1>2. PICK list \in WarmFirst(walk.found) : \E answer \in Ordered(walk.route, list) :
        /\ walk' = [walk EXCEPT !.phase = "done", !.visited = Front(@), !.found = answer]
        /\ IF Rotates(walk.route, list)
           THEN /\ turn' = With(turn, CounterOf(walk.route), (Turn(walk.route) + 1) % Len(list))
                /\ served' = With(served, walk.route,
                                 [list |-> list,
                                  led |-> Append(Leaders(walk.route, list), Split(walk.route, list))])
           ELSE UNCHANGED <<turn, served>>
  BY DEF Resolve
<1>3. PICK answer \in Ordered(walk.route, list) :
        walk' = [walk EXCEPT !.phase = "done", !.visited = Front(@), !.found = answer]
  BY <1>2
<1>4. WalkSound(walk, db)
  BY <1>1, UnderWay
<1>5. PartOf(list, walk.found) /\ IsList(list)
  BY <1>4, WarmFirstIsPart DEF WalkSound, PartOf
<1>6. PartOf(answer, walk.found)
  <2>1. PartOf(answer, list)
    BY <1>5, TurnIsNat, OrderedIsPart
  <2> QED
    BY <1>5, <2>1, PartOfPart
<1>7. WalkInv'
  <2> DEFINE w == walk'
  <2>1. /\ Shape(w) /\ w.phase = "done" /\ w.frames = walk.frames
        /\ w.visited = Front(walk.visited) /\ w.profile = walk.profile
        /\ w.found = answer /\ w.offered = walk.offered
    BY <1>3, <1>4 DEF WalkSound, Shape
  <2> HIDE DEF w
  <2>2. IsList(walk.visited) /\ Len(walk.visited) = 1 /\ PathSound(walk)
    BY <1>1, <1>4 DEF WalkSound, PhaseSound
  <2>7. walk.visited # << >>
    BY <2>2, NotEmpty DEF IsList
  <2>3. IsList(w.visited) /\ Len(w.visited) = 0
    <3>1. IsList(Front(walk.visited)) /\ Len(Front(walk.visited)) = Len(walk.visited) - 1
      BY <2>2, <2>7, FrontIsList
    <3> QED
      BY <2>1, <2>2, <3>1
  <2>4. \A i \in DOMAIN w.found : w.found[i].provider \in w.offered.providers
    BY <1>6, <2>1, <2>2 DEF PartOf, PathSound
  <2>5. PathSound(w)
    BY <2>1, <2>2, <2>3, <2>4, GraphAssumption DEF PathSound
  <2>6. WalkSound(w, db)
    BY <1>4, <1>6, <2>1, <2>3, <2>5 DEF WalkSound, Covers, PhaseSound, PartOf
  <2> QED
    BY <1>1, <2>6 DEF WalkInv, w
<1>8. TurnInv'
  <2>1. CASE Rotates(walk.route, list)
    <3>1. Len(list) > 1
      BY <2>1 DEF Rotates
    <3> QED
      BY <1>2, <1>5, <2>1, <3>1, RotationKeeps
  <2>2. CASE ~Rotates(walk.route, list)
    BY <1>2, <2>2 DEF TurnInv
  <2> QED
    BY <2>1, <2>2
<1> QED
  BY <1>7, <1>8

(* An edit adds what the new store offers; what was offered stays so.        *)
LEMMA DisturbedKeeps ==
  ASSUME WalkInv, walk' = Disturbed(walk, db')
  PROVE  WalkInv'
<1>1. CASE walk = Resting
  BY <1>1 DEF Disturbed, WalkInv
<1>2. CASE walk # Resting
  <2> DEFINE w == walk'
             more == [providers |-> walk.offered.providers \cup Offered(db', walk.profile).providers,
                      routes |-> walk.offered.routes \cup Offered(db', walk.profile).routes]
  <2>1. WalkSound(walk, db)
    BY <1>2 DEF WalkInv
  <2>2. w = [walk EXCEPT !.alone = FALSE, !.offered = more]
    BY <1>2 DEF Disturbed
  <2> HIDE DEF more
  <2>3. /\ Shape(w) /\ w.phase = walk.phase /\ w.frames = walk.frames /\ w.visited = walk.visited
        /\ w.profile = walk.profile /\ w.found = walk.found /\ w.next = walk.next
        /\ w.offered = more
    BY <2>1, <2>2 DEF WalkSound, Shape
  <2> HIDE DEF w
  <2>4. /\ walk.offered.providers \subseteq more.providers
        /\ walk.offered.routes \subseteq more.routes
        /\ \A v : Usable(db', walk.profile, v) => v \in more.providers
        /\ \A r : Enterable(db', walk.profile, r) => r \in more.routes
    BY DEF more, Offered, Usable, Enterable
  <2>5. Covers(w, db')
    BY <2>3, <2>4 DEF Covers
  <2>6. PhaseSound(w)
    BY <2>1, <2>3, <2>4 DEF WalkSound, PhaseSound
  <2>7. PathSound(w)
    BY <2>1, <2>3, <2>4 DEF WalkSound, PathSound
  <2>8. WalkSound(w, db')
    BY <2>1, <2>3, <2>5, <2>6, <2>7 DEF WalkSound
  <2> QED
    BY <2>8 DEF WalkInv, w
<1> QED
  BY <1>1, <1>2

GraphInv == WalkInv /\ TurnInv

LEMMA InitGraphInv == Init => GraphInv
BY DEF Init, GraphInv, WalkInv, TurnInv

LEMMA StepGraphInv == GraphInv /\ [Next]_vars => GraphInv'
<1> SUFFICES ASSUME GraphInv, [Next]_vars
             PROVE  GraphInv'
  OBVIOUS
<1> USE DEF GraphInv
<1>1. ASSUME UNCHANGED <<turn, served>>
      PROVE  TurnInv'
  BY <1>1 DEF TurnInv
<1>2. CASE UNCHANGED vars
  BY <1>1, <1>2 DEF vars, graphVars, consoleVars, WalkInv
<1>3. ASSUME NEW p \in Profiles, FindProxy(p)
      PROVE  GraphInv'
  BY <1>1, <1>3, FindProxyKeeps DEF FindProxy
<1>4. CASE FindRoute \/ Enter \/ Leaf \/ NestedOwner \/ NestedShared \/ Leave \/ Answer
  <2>1. UNCHANGED <<turn, served>>
    BY <1>4 DEF FindRoute, Enter, Leaf, NestedOwner, NestedShared, Leave, Answer, Fail, Walk
  <2>2. WalkInv'
    BY <1>4, FindRouteKeeps, EnterKeeps, LeafKeeps, NestedOwnerKeeps, NestedSharedKeeps,
       LeaveKeeps, AnswerKeeps
  <2> QED
    BY <1>1, <2>1, <2>2
<1>5. CASE Resolve
  BY <1>5, ResolveKeeps
<1>6. CASE Edit
  <2>1. UNCHANGED <<turn, served>> /\ walk' = Disturbed(walk, db')
    BY <1>6 DEF Edit
  <2> QED
    BY <1>1, <2>1, DisturbedKeeps
<1>7. CASE Health
  <2>1. UNCHANGED <<turn, served>> /\ walk' = Disturbed(walk, db)
    BY <1>7 DEF Health
  <2>2. db' = db
    BY <1>7 DEF Health, Run
  <2> QED
    BY <1>1, <2>1, <2>2, DisturbedKeeps
<1> QED
  BY <1>2, <1>3, <1>4, <1>5, <1>6, <1>7 DEF Next, WalkStep

(* Walks and counters are sound, whatever is edited between the reads of a   *)
(* walk (expand_inner, rotate_round_robin).                                  *)
THEOREM WalkBookkeeping == Spec => []GraphInv
BY InitGraphInv, StepGraphInv, PTL DEF Spec

(* A walk is never deeper than the limit and never inside a route twice, so  *)
(* it ends, on any graph and while the graph is being edited.                *)
PathIsSimple ==
  walk # Resting =>
    /\ Len(walk.visited) <= MaxDepth
    /\ \A i, j \in 1 .. Len(walk.visited) : walk.visited[i] = walk.visited[j] => i = j

THEOREM PathsAreSimple == Spec => []PathIsSimple
<1>1. GraphInv => PathIsSimple
  BY DEF GraphInv, WalkInv, WalkSound, PathSound, PathIsSimple
<1> QED
  BY <1>1, WalkBookkeeping, PTL

(* A provider is tried, and a route gone into, only when it was the caller's *)
(* own or shared at some time during the walk.                               *)
THEOREM NothingForeign == Spec => []OnlyWhatWasOffered
<1>1. GraphInv => OnlyWhatWasOffered
  BY DEF GraphInv, WalkInv, WalkSound, PathSound, OnlyWhatWasOffered
<1> QED
  BY <1>1, WalkBookkeeping, PTL

(* No target leads a list a second time before each has led it once, however *)
(* many routes rotate and however long the list was before.                  *)
THEOREM RoundRobinIsFair == Spec => []TurnsAreFair
<1>1. ASSUME GraphInv, NEW r \in DOMAIN served
      PROVE  IsInjective(served[r].led)
  <2> DEFINE led == served[r].led
             n == Len(served[r].list)
  <2>1. LeadersSound(served[r].list, led, turn[r])
    BY <1>1 DEF GraphInv, TurnInv
  <2> HIDE DEF led, n
  <2>2. /\ n \in Nat /\ n > 1 /\ led \in Seq(0 .. n - 1) /\ Len(led) >= 1 /\ Len(led) <= n
        /\ \A i \in 1 .. Len(led) : led[i] = Wrap(led[1] + i - 1, n)
    BY <2>1 DEF LeadersSound, n
  <2>3. Len(led) \in Nat /\ led \in [1 .. Len(led) -> 0 .. n - 1]
    BY <2>2, SeqIsFunction
  <2>4. led[1] \in 0 .. n - 1
    BY <2>2, <2>3
  <2>5. ASSUME NEW i \in 1 .. Len(led), NEW j \in 1 .. Len(led), led[i] = led[j]
        PROVE  i = j
    <3>1. Wrap(led[1] + i - 1, n) = Wrap(led[1] + j - 1, n)
      BY <2>2, <2>5
    <3>2. i \in 1 .. n /\ j \in 1 .. n
      BY <2>2, <2>3
    <3> QED
      BY <2>2, <2>4, <3>1, <3>2, WrapIsInjective
  <2> QED
    BY <2>3, <2>5 DEF IsInjective, led
<1>2. GraphInv => TurnsAreFair
  BY <1>1 DEF TurnsAreFair
<1> QED
  BY <1>2, WalkBookkeeping, PTL
(* Whatever the console does during a walk, the store stays sound.           *)
LEMMA StepKeepsStore ==
  ASSUME Sound(db), [Next]_vars
  PROVE  Sound(db')
<1>1. CASE UNCHANGED vars
  BY <1>1 DEF vars, consoleVars
<1>2. ASSUME NEW p, FindProxy(p) PROVE Sound(db')
  BY <1>2 DEF FindProxy, consoleVars
<1>3. CASE FindRoute \/ Enter \/ Leaf \/ NestedOwner \/ NestedShared \/ Leave \/ Answer
  BY <1>3 DEF FindRoute, Enter, Leaf, NestedOwner, NestedShared, Leave, Answer, Fail, Walk, consoleVars
<1>4. CASE Resolve
  BY <1>4 DEF Resolve, consoleVars
<1>5. CASE Edit
  <2>1. Evolves(db, db')
    BY <1>5, AdminCommandsEvolve, RouteCommandsEvolve, JobsEvolve DEF Edit
  <2> QED
    BY <2>1 DEF Evolves
<1>6. CASE Health
  BY <1>6 DEF Health, Run
<1> QED
  BY <1>1, <1>2, <1>3, <1>4, <1>5, <1>6 DEF Next, WalkStep

(* The store stays one SQLite accepts under every edit a walk can meet, and  *)
(* the walk's path, its stack and its depth fit together at every read       *)
(* (expand_inner).                                                           *)
THEOREM GraphTypeCorrect == Spec => []TypeOK
<1>1. Init => Sound(db)
  BY ConsoleAssumption DEF Init, ConsoleInit, Sound
<1>2. Sound(db) /\ [Next]_vars => Sound(db)'
  BY StepKeepsStore DEF Sound, IsStore, Consistent, IsRow, Legal
<1>3. Sound(db) /\ GraphInv => TypeOK
  <2> SUFFICES ASSUME Sound(db), GraphInv
               PROVE  TypeOK
    OBVIOUS
  <2>1. CASE walk = Resting
    BY <2>1 DEF TypeOK, Sound, Resting
  <2>2. CASE walk # Resting
    <3>1. WalkSound(walk, db)
      BY <2>2 DEF GraphInv, WalkInv
    <3>2. IsInjective(walk.visited)
      BY <3>1 DEF WalkSound, PathSound, IsList, IsInjective
    <3> QED
      BY <2>2, <3>1, <3>2 DEF TypeOK, Sound, WalkSound, PathSound, PhaseSound
  <2> QED
    BY <2>1, <2>2
<1> QED
  BY <1>1, <1>2, <1>3, WalkBookkeeping, PTL DEF Spec

-----------------------------------------------------------------------------
(* Induction over the naturals, for a set of them.                           *)
LEMMA Induction ==
  ASSUME NEW S, 0 \in S, \A n \in Nat : n \in S => n + 1 \in S
  PROVE  \A n \in Nat : n \in S
<1> DEFINE T == {n \in Nat : n \notin S}
<1> SUFFICES ASSUME T # {} PROVE FALSE
  OBVIOUS
<1> DEFINE R == OpToRel(<, Nat)
<1>1. PICK x \in T : \A y \in T : ~ (<<y, x>> \in R)
  BY WFMin, NatLessThanWellFounded
<1>2. \A y, z \in Nat : y < z => <<y, z>> \in R
  BY DEF OpToRel
<1>3. x \in Nat /\ x \notin S
  OBVIOUS
<1> HIDE DEF R, T
<1>4. x # 0
  BY <1>3
<1>5. x - 1 \in Nat /\ x - 1 < x
  BY <1>3, <1>4
<1>6. x - 1 \in S
  BY <1>1, <1>2, <1>3, <1>5 DEF T
<1> QED
  BY <1>3, <1>5, <1>6

(* What a recursion computes that goes from each value to the next.          *)
AreSteps(step, n, S) == step \in [1 .. n -> [S -> S]]

Recurs(f, n, S, base, step) ==
  f \in [0 .. n -> S] /\ f[0] = base /\ \A i \in 1 .. n : f[i] = step[i][f[i - 1]]

LEMMA Recursion ==
  ASSUME NEW S, NEW base \in S, NEW n \in Nat, NEW step, AreSteps(step, n, S)
  PROVE  \E f : Recurs(f, n, S, base, step)
<1> USE DEF AreSteps, Recurs
<1> DEFINE Part(m, f) == /\ f \in [0 .. m -> S] /\ f[0] = base
                         /\ \A i \in 1 .. m : f[i] = step[i][f[i - 1]]
           D == {m \in Nat : m <= n => \E f : Part(m, f)}
<1>1. 0 \in D
  <2> DEFINE f == [i \in 0 .. 0 |-> base]
  <2>1. Part(0, f)
    OBVIOUS
  <2> QED
    BY <2>1
<1>2. ASSUME NEW m \in Nat, m \in D
      PROVE  m + 1 \in D
  <2> SUFFICES ASSUME m + 1 <= n PROVE \E f : Part(m + 1, f)
    OBVIOUS
  <2>1. PICK f : Part(m, f)
    BY <1>2
  <2> DEFINE g == [i \in 0 .. m + 1 |-> IF i = m + 1 THEN step[m + 1][f[m]] ELSE f[i]]
  <2>2. step[m + 1][f[m]] \in S
    BY <2>1
  <2>3. g \in [0 .. m + 1 -> S] /\ g[0] = base
    BY <2>1, <2>2
  <2>4. \A i \in 1 .. m + 1 : g[i] = step[i][g[i - 1]]
    <3>1. \A i \in 1 .. m + 1 : i - 1 \in 0 .. m /\ i - 1 # m + 1 /\ (i = m + 1 \/ i \in 1 .. m)
      OBVIOUS
    <3>2. \A i \in 1 .. m : f[i] = step[i][f[i - 1]]
      BY <2>1
    <3>3. \A i \in 1 .. m + 1 : g[i - 1] = f[i - 1]
      BY <3>1
    <3>4. \A i \in 1 .. m : g[i] = f[i]
      OBVIOUS
    <3>5. g[m + 1] = step[m + 1][f[m]] /\ m + 1 - 1 = m
      OBVIOUS
    <3> HIDE DEF g
    <3> QED
      BY <3>1, <3>2, <3>3, <3>4, <3>5
  <2> HIDE DEF g
  <2>5. Part(m + 1, g)
    BY <2>3, <2>4
  <2> QED
    BY <2>5
<1> HIDE DEF D
<1>3. n \in D
  BY <1>1, <1>2, Induction
<1> QED
  BY <1>3 DEF D

(* Functions that begin alike and go on alike are alike.                     *)
LEMMA Alike ==
  ASSUME NEW n \in Nat, NEW f, NEW g, f[0] = g[0],
         \A i \in 1 .. n : f[i - 1] = g[i - 1] => f[i] = g[i]
  PROVE  \A i \in 0 .. n : f[i] = g[i]
<1> DEFINE S == {i \in Nat : i <= n => f[i] = g[i]}
<1>1. 0 \in S
  OBVIOUS
<1>2. ASSUME NEW i \in Nat, i \in S
      PROVE  i + 1 \in S
  <2> SUFFICES ASSUME i + 1 <= n PROVE f[i + 1] = g[i + 1]
    OBVIOUS
  <2>1. i + 1 \in 1 .. n /\ i + 1 - 1 = i /\ f[i] = g[i]
    BY <1>2
  <2> QED
    BY <2>1
<1> HIDE DEF S
<1>3. \A i \in Nat : i \in S
  BY <1>1, <1>2, Induction
<1> QED
  BY <1>3 DEF S

(* Sets of lists over R, and of no list.                                     *)
Words(R) == Seq(R)
Glue(s, t) == s \o t
ListsOf(R) == SUBSET (Words(R) \cup {NoList})

LEMMA WordsJoin ==
  ASSUME NEW R
  PROVE  /\ << >> \in Words(R)
         /\ \A s \in Words(R) : Glue(<< >>, s) = s /\ Glue(s, << >>) = s
         /\ \A s, t \in Words(R) : Glue(s, t) \in Words(R)
         /\ \A s, t, u \in Words(R) : Glue(Glue(s, t), u) = Glue(s, Glue(t, u))
BY ConcatAssociative DEF Words, Glue

LEMMA JoinedIs ==
  ASSUME NEW R, NoList \notin Words(R), NEW A \in ListsOf(R), NEW B \in ListsOf(R)
  PROVE  /\ Joined(A, B) \in ListsOf(R)
         /\ NoList \in Joined(A, B) <=> NoList \in A \/ NoList \in B
         /\ \A s, t \in Words(R) : s \in A /\ t \in B => Glue(s, t) \in Joined(A, B) /\ Glue(s, t) \in Words(R)
         /\ \A x \in Joined(A, B) : x # NoList =>
              \E s, t \in Words(R) : s \in A /\ t \in B /\ x = Glue(s, t)
<1> DEFINE J == Joined(A, B)
<1>1. /\ A \subseteq Words(R) \cup {NoList} /\ B \subseteq Words(R) \cup {NoList}
  BY DEF ListsOf
<1>2. \A x : x \in J <=> \/ \E s \in A \ {NoList} : \E t \in B \ {NoList} : x = Glue(s, t)
                         \/ x = NoList /\ (x \in A \/ x \in B)
  BY DEF Joined, Glue
<1> HIDE DEF J
<1>3. ASSUME NEW s \in Words(R), NEW t \in Words(R)
      PROVE  Glue(s, t) \in Words(R) /\ Glue(s, t) # NoList /\ s # NoList /\ t # NoList
  <2>1. Glue(s, t) \in Words(R)
    BY WordsJoin
  <2> QED
    BY <2>1
<1>4. J \in ListsOf(R)
  <2>1. ASSUME NEW x \in J PROVE x \in Words(R) \cup {NoList}
    BY <1>1, <1>2, <1>3, <2>1
  <2> QED
    BY <2>1 DEF ListsOf
<1>5. NoList \in J <=> NoList \in A \/ NoList \in B
  <2>1. ASSUME NEW s \in A \ {NoList}, NEW t \in B \ {NoList}, NoList = Glue(s, t)
        PROVE  FALSE
    BY <1>1, <1>3, <2>1
  <2> QED
    BY <1>2, <2>1
<1>6. ASSUME NEW s \in Words(R), NEW t \in Words(R), s \in A, t \in B
      PROVE  Glue(s, t) \in J /\ Glue(s, t) \in Words(R)
  BY <1>2, <1>3, <1>6
<1>7. ASSUME NEW x \in J, x # NoList
      PROVE  \E s, t \in Words(R) : s \in A /\ t \in B /\ x = Glue(s, t)
  <2>1. PICK s \in A \ {NoList} : \E t \in B \ {NoList} : x = Glue(s, t)
    BY <1>2, <1>7
  <2>2. PICK t \in B \ {NoList} : x = Glue(s, t)
    BY <2>1
  <2> QED
    BY <1>1, <2>2
<1> QED
  BY <1>4, <1>5, <1>6, <1>7 DEF J

LEMMA JoinedAssociates ==
  ASSUME NEW R, NoList \notin Words(R), NEW A \in ListsOf(R), NEW B \in ListsOf(R), NEW C \in ListsOf(R)
  PROVE  Joined(Joined(A, B), C) = Joined(A, Joined(B, C))
<1> DEFINE AB == Joined(A, B)
           BC == Joined(B, C)
<1>1. AB \in ListsOf(R) /\ BC \in ListsOf(R) /\ Joined(AB, C) \in ListsOf(R) /\ Joined(A, BC) \in ListsOf(R)
  BY JoinedIs
<1>2. NoList \in Joined(AB, C) <=> NoList \in Joined(A, BC)
  BY <1>1, JoinedIs
<1>3. ASSUME NEW x \in Joined(AB, C), x # NoList
      PROVE  x \in Joined(A, BC)
  <2>1. PICK s \in Words(R), t \in Words(R) : s \in AB /\ t \in C /\ x = Glue(s, t)
    BY <1>1, <1>3, JoinedIs
  <2>2. PICK u \in Words(R), v \in Words(R) : u \in A /\ v \in B /\ s = Glue(u, v)
    BY <2>1, JoinedIs
  <2>3. Glue(v, t) \in BC /\ Glue(v, t) \in Words(R)
    BY <2>1, <2>2, JoinedIs
  <2>4. x = Glue(u, Glue(v, t))
    BY <2>1, <2>2, WordsJoin
  <2> HIDE DEF BC, AB
  <2> QED
    BY <1>1, <2>2, <2>3, <2>4, JoinedIs
<1>4. ASSUME NEW x \in Joined(A, BC), x # NoList
      PROVE  x \in Joined(AB, C)
  <2>1. PICK s \in Words(R), t \in Words(R) : s \in A /\ t \in BC /\ x = Glue(s, t)
    BY <1>1, <1>4, JoinedIs
  <2>2. PICK u \in Words(R), v \in Words(R) : u \in B /\ v \in C /\ t = Glue(u, v)
    BY <2>1, JoinedIs
  <2>3. Glue(s, u) \in AB /\ Glue(s, u) \in Words(R)
    BY <2>1, <2>2, JoinedIs
  <2>4. x = Glue(Glue(s, u), v)
    BY <2>1, <2>2, WordsJoin
  <2> HIDE DEF BC, AB
  <2> QED
    BY <1>1, <2>2, <2>3, <2>4, JoinedIs
<1> QED
  BY <1>2, <1>3, <1>4

LEMMA JoinedEmpty ==
  ASSUME NEW R, NoList \notin Words(R), NEW A \in ListsOf(R)
  PROVE  {<< >>} \in ListsOf(R) /\ Joined({<< >>}, A) = A
<1>1. << >> \in Words(R) /\ << >> # NoList
  BY WordsJoin DEF NoList
<1>2. \A s \in Words(R) : Glue(<< >>, s) = s
  BY WordsJoin
<1>3. {<< >>} \in ListsOf(R)
  BY <1>1 DEF ListsOf
<1>4. Joined({<< >>}, A) \in ListsOf(R) /\ (NoList \in Joined({<< >>}, A) <=> NoList \in A)
  BY <1>1, <1>3, JoinedIs
<1>5. \A s \in Words(R) : s \in Joined({<< >>}, A) <=> s \in A
  <2> TAKE s \in Words(R)
  <2>1. ASSUME s \in A
        PROVE  s \in Joined({<< >>}, A)
    <3>1. Glue(<< >>, s) \in Joined({<< >>}, A)
      BY <1>1, <1>3, <2>1, JoinedIs
    <3> QED
      BY <1>2, <3>1
  <2>2. ASSUME s \in Joined({<< >>}, A)
        PROVE  s \in A
    <3>1. PICK u, t \in Words(R) : u \in {<< >>} /\ t \in A /\ s = Glue(u, t)
      BY <1>3, <2>2, JoinedIs
    <3> QED
      BY <1>2, <3>1
  <2> QED
    BY <2>1, <2>2
<1> QED
  BY <1>3, <1>4, <1>5 DEF ListsOf

LEMMA JoinedGrows ==
  ASSUME NEW A, NEW B, NEW C, A \subseteq B
  PROVE  Joined(A, C) \subseteq Joined(B, C)
BY DEF Joined

(* From the i-th of n sets on: what the rest of the sets stands for, before  *)
(* what follows them.                                                        *)
Follows(f, R, n, sets, last) ==
  /\ f \in [1 .. n + 1 -> ListsOf(R)]
  /\ f[n + 1] = last
  /\ \A i \in 1 .. n : sets[i] \in ListsOf(R) /\ f[i] = Joined(sets[i], f[i + 1])

LEMMA ConcatenatedFollows ==
  ASSUME NEW R, NoList \notin Words(R), NEW sets, Len(sets) \in Nat,
         \A i \in 1 .. Len(sets) : sets[i] \in ListsOf(R)
  PROVE  \E f : Follows(f, R, Len(sets), sets, {<< >>}) /\ Concatenated(sets) = f[1]
<1> DEFINE n == Len(sets)
           Part(m, f) == /\ f \in [n + 1 - m .. n + 1 -> ListsOf(R)]
                         /\ f[n + 1] = {<< >>}
                         /\ \A i \in n + 1 - m .. n : f[i] = Joined(sets[i], f[i + 1])
           S == {m \in Nat : m <= n => \E f : Part(m, f)}
<1>0. n \in Nat
  OBVIOUS
<1>1. 0 \in S
  <2> DEFINE f == [i \in n + 1 .. n + 1 |-> {<< >>}]
  <2>1. {<< >>} \in ListsOf(R)
    BY JoinedEmpty DEF ListsOf
  <2> HIDE DEF n
  <2>2. f \in [n + 1 - 0 .. n + 1 -> ListsOf(R)] /\ f[n + 1] = {<< >>}
    BY <1>0, <2>1
  <2>3. Part(0, f)
    BY <1>0, <2>2
  <2> QED
    BY <2>3
<1>2. ASSUME NEW m \in Nat, m \in S
      PROVE  m + 1 \in S
  <2> SUFFICES ASSUME m + 1 <= n PROVE \E f : Part(m + 1, f)
    BY <1>0
  <2>1. PICK f : Part(m, f)
    BY <1>0, <1>2
  <2> DEFINE k == n - m
             g == [i \in k .. n + 1 |-> IF i = k THEN Joined(sets[k], f[k + 1]) ELSE f[i]]
  <2> HIDE DEF n
  <2>2. k \in 1 .. n /\ n + 1 - m = k + 1 /\ n + 1 - (m + 1) = k
    BY <1>0
  <2> HIDE DEF k
  <2>3. /\ f \in [k + 1 .. n + 1 -> ListsOf(R)] /\ f[n + 1] = {<< >>}
        /\ \A i \in k + 1 .. n : f[i] = Joined(sets[i], f[i + 1])
    BY <2>1, <2>2
  <2>4. Joined(sets[k], f[k + 1]) \in ListsOf(R)
    <3>1. f[k + 1] \in ListsOf(R)
      BY <1>0, <2>2, <2>3
    <3>2. sets[k] \in ListsOf(R)
      BY <2>2 DEF n
    <3> QED
      BY <3>1, <3>2, JoinedIs
  <2>5. g \in [k .. n + 1 -> ListsOf(R)]
    <3>1. \A i \in k .. n + 1 : i = k \/ i \in k + 1 .. n + 1
      BY <1>0, <2>2
    <3> QED
      BY <2>3, <2>4, <3>1
  <2>6. g[n + 1] = {<< >>} /\ \A i \in k .. n : g[i] = Joined(sets[i], g[i + 1])
    <3>1. n + 1 \in k .. n + 1 /\ n + 1 # k
      BY <1>0, <2>2
    <3>2. \A i \in k .. n : i \in k .. n + 1 /\ i + 1 \in k .. n + 1 /\ i + 1 # k
      BY <1>0, <2>2
    <3>3. \A i \in k .. n : i = k \/ i \in k + 1 .. n
      BY <1>0, <2>2
    <3> QED
      BY <2>3, <3>1, <3>2, <3>3
  <2> HIDE DEF g
  <2>7. Part(m + 1, g)
    BY <2>2, <2>5, <2>6
  <2> QED
    BY <2>7
<1>3. n \in S
  <2> HIDE DEF S
  <2>1. \A m \in Nat : m \in S
    BY <1>1, <1>2, Induction
  <2> QED
    BY <1>0, <2>1
<1>4. PICK f : Part(n, f)
  BY <1>0, <1>3
<1> DEFINE Body(g) == [i \in 1 .. Len(sets) + 1 |->
                         IF i = Len(sets) + 1 THEN {<< >>} ELSE Joined(sets[i], g[i + 1])]
           from == CHOOSE from : from = Body(from)
<1>5. f = Body(f)
  <2>1. n + 1 - n = 1 /\ n + 1 \in 1 .. n + 1
    BY <1>0
  <2>2. \A i \in 1 .. n + 1 : i = n + 1 \/ (i \in 1 .. n /\ i # n + 1)
    BY <1>0
  <2>3. f \in [1 .. n + 1 -> ListsOf(R)] /\ f[n + 1] = {<< >>}
        /\ \A i \in 1 .. n : f[i] = Joined(sets[i], f[i + 1])
    BY <1>4, <2>1
  <2>4. \A i \in 1 .. n + 1 : f[i] = Body(f)[i]
    BY <2>2, <2>3
  <2> QED
    BY <2>3, <2>4
<1>6. from = Body(from)
  <2> HIDE DEF Body
  <2> QED
    BY <1>5
<1>7. Concatenated(sets) = from[1]
  BY DEF Concatenated
<1>8. /\ f \in [1 .. n + 1 -> ListsOf(R)] /\ f[n + 1] = {<< >>} /\ from[n + 1] = {<< >>}
      /\ \A i \in 1 .. n : f[i] = Joined(sets[i], f[i + 1]) /\ from[i] = Joined(sets[i], from[i + 1])
  <2>1. n + 1 - n = 1 /\ n + 1 \in 1 .. n + 1
    BY <1>0
  <2>2. \A i \in 1 .. n : i \in 1 .. n + 1 /\ i # n + 1
    BY <1>0
  <2> HIDE DEF from
  <2>3. from[n + 1] = Body(from)[n + 1] /\ \A i \in 1 .. n : from[i] = Body(from)[i]
    BY <1>6
  <2> QED
    BY <1>4, <2>1, <2>2, <2>3
<1> HIDE DEF from
<1>9. from[1] = f[1]
  <2> DEFINE Same == {m \in Nat : m <= n => from[n + 1 - m] = f[n + 1 - m]}
  <2> HIDE DEF n
  <2>1. 0 \in Same
    <3>1. n + 1 - 0 = n + 1
      BY <1>0
    <3> QED
      BY <1>8, <3>1
  <2>2. ASSUME NEW m \in Nat, m \in Same
        PROVE  m + 1 \in Same
    <3> SUFFICES ASSUME m + 1 <= n
                 PROVE  from[n + 1 - (m + 1)] = f[n + 1 - (m + 1)]
      OBVIOUS
    <3>1. n - m \in 1 .. n /\ n + 1 - (m + 1) = n - m /\ n - m + 1 = n + 1 - m
      BY <1>0
    <3>2. from[n - m + 1] = f[n - m + 1]
      BY <1>0, <2>2, <3>1
    <3> QED
      BY <1>8, <3>1, <3>2
  <2> HIDE DEF Same
  <2>3. n \in Same
    BY <1>0, <2>1, <2>2, Induction
  <2>4. n + 1 - n = 1
    BY <1>0
  <2> QED
    BY <1>0, <2>3, <2>4 DEF Same
<1>10. Follows(f, R, n, sets, {<< >>})
  <2>1. \A i \in 1 .. n : sets[i] \in ListsOf(R)
    OBVIOUS
  <2> HIDE DEF n
  <2> QED
    BY <1>8, <2>1 DEF Follows
<1> QED
  BY <1>7, <1>9, <1>10
(* What follows the sets follows what they stand for.                        *)
LEMMA FollowsBefore ==
  ASSUME NEW R, NoList \notin Words(R), NEW n \in Nat, NEW sets, NEW last \in ListsOf(R),
         NEW f, Follows(f, R, n, sets, {<< >>})
  PROVE  \E g : Follows(g, R, n, sets, last) /\ g[1] = Joined(f[1], last)
<1> DEFINE g == [i \in 1 .. n + 1 |-> Joined(f[i], last)]
<1>1. \A i \in 1 .. n + 1 : f[i] \in ListsOf(R)
  BY DEF Follows
<1>2. \A i \in 1 .. n + 1 : g[i] = Joined(f[i], last) /\ g[i] \in ListsOf(R)
  BY <1>1, JoinedIs
<1>3. g \in [1 .. n + 1 -> ListsOf(R)]
  BY <1>2
<1> HIDE DEF g
<1>4. g[n + 1] = last
  <2>1. n + 1 \in 1 .. n + 1
    OBVIOUS
  <2>2. g[n + 1] = Joined({<< >>}, last)
    BY <1>2, <2>1 DEF Follows
  <2> QED
    BY <2>2, JoinedEmpty
<1>5. ASSUME NEW i \in 1 .. n
      PROVE  sets[i] \in ListsOf(R) /\ g[i] = Joined(sets[i], g[i + 1])
  <2>1. i \in 1 .. n + 1 /\ i + 1 \in 1 .. n + 1
    OBVIOUS
  <2>2. sets[i] \in ListsOf(R) /\ f[i] = Joined(sets[i], f[i + 1])
    BY DEF Follows
  <2>3. f[i + 1] \in ListsOf(R)
    BY <1>1, <2>1
  <2>4. Joined(Joined(sets[i], f[i + 1]), last) = Joined(sets[i], Joined(f[i + 1], last))
    BY <2>2, <2>3, JoinedAssociates
  <2> QED
    BY <1>2, <2>1, <2>2, <2>4
<1>6. Follows(g, R, n, sets, last)
  BY <1>3, <1>4, <1>5 DEF Follows
<1>7. g[1] = Joined(f[1], last)
  BY <1>2
<1> QED
  BY <1>6, <1>7

(* Once there is no list, there is none from the start.                      *)
LEMMA NoneFromTheStart ==
  ASSUME NEW R, NoList \notin Words(R), NEW n \in Nat, NEW sets, NEW last,
         NEW f, Follows(f, R, n, sets, last), NEW i \in 1 .. n,
         NoList \in sets[i] \/ NoList \in f[i + 1]
  PROVE  NoList \in f[1]
<1> DEFINE S == {m \in Nat : m + 1 <= i => NoList \in f[i - m]}
<1>1. ASSUME NEW k \in 1 .. n, NoList \in sets[k] \/ NoList \in f[k + 1]
      PROVE  NoList \in f[k]
  <2>1. k + 1 \in 1 .. n + 1
    OBVIOUS
  <2>2. sets[k] \in ListsOf(R) /\ f[k] = Joined(sets[k], f[k + 1]) /\ f[k + 1] \in ListsOf(R)
    BY <2>1 DEF Follows
  <2> QED
    BY <1>1, <2>2, JoinedIs
<1>2. 0 \in S
  <2>1. NoList \in f[i] /\ i - 0 = i
    BY <1>1
  <2> QED
    BY <2>1
<1>3. ASSUME NEW m \in Nat, m \in S
      PROVE  m + 1 \in S
  <2> SUFFICES ASSUME m + 1 + 1 <= i
               PROVE  NoList \in f[i - (m + 1)]
    OBVIOUS
  <2>1. i - (m + 1) \in 1 .. n /\ i - (m + 1) + 1 = i - m
    OBVIOUS
  <2>2. NoList \in f[i - m]
    BY <1>3
  <2> QED
    BY <1>1, <2>1, <2>2
<1> HIDE DEF S
<1>4. i - 1 \in S
  BY <1>2, <1>3, Induction
<1> QED
  BY <1>4 DEF S
(* The entries that are up, of more and more of a chain.                     *)
LivePrefixes(live, h, n, chain) ==
  /\ live[0] = << >>
  /\ \A i \in 1 .. n : live[i] = IF IsUp(h, chain[i]) THEN Append(live[i - 1], chain[i])
                                                             ELSE live[i - 1]

UpIn(h, C) == {e \in C : IsUp(h, e)}

LEMMA LiveIs ==
  ASSUME NEW h, NEW C, NEW chain \in Seq(C)
  PROVE  \E live \in [0 .. Len(chain) -> Seq(UpIn(h, C))] :
           LivePrefixes(live, h, Len(chain), chain) /\ Live(h, chain) = live[Len(chain)]
<1> DEFINE n == Len(chain)
           S == Seq(UpIn(h, C))
           step == [i \in 1 .. n |-> [s \in S |-> IF IsUp(h, chain[i])
                                                THEN Append(s, chain[i]) ELSE s]]
           Body(live) == [i \in 0 .. Len(chain) |->
                            IF i = 0 THEN << >>
                            ELSE IF IsUp(h, chain[i]) THEN Append(live[i - 1], chain[i])
                                                               ELSE live[i - 1]]
           live == CHOOSE live : live = Body(live)
<1>0. n \in Nat /\ \A i \in 1 .. n : chain[i] \in C
  OBVIOUS
<1>1. ASSUME NEW i \in 1 .. n, NEW s \in S
      PROVE  (IF IsUp(h, chain[i]) THEN Append(s, chain[i]) ELSE s) \in S
  <2>1. CASE IsUp(h, chain[i])
    <3>1. chain[i] \in UpIn(h, C)
      BY <1>0, <2>1 DEF UpIn
    <3> QED
      BY <2>1, <3>1
  <2>2. CASE ~IsUp(h, chain[i])
    BY <2>2
  <2> QED
    BY <2>1, <2>2
<1>2. step \in [1 .. n -> [S -> S]]
  BY <1>1
<1>3. << >> \in S
  OBVIOUS
<1>4. \A i \in 1 .. n, s \in S : step[i][s] = IF IsUp(h, chain[i]) THEN Append(s, chain[i]) ELSE s
  OBVIOUS
<1> HIDE DEF step, S
<1>5. PICK f : Recurs(f, n, S, << >>, step)
  <2>1. AreSteps(step, n, S)
    BY <1>2 DEF AreSteps
  <2> HIDE DEF n
  <2> QED
    BY <1>0, <1>3, <2>1, Recursion
<1>50. f \in [0 .. n -> S] /\ f[0] = << >> /\ \A i \in 1 .. n : f[i] = step[i][f[i - 1]]
  BY <1>5 DEF Recurs
<1>6. \A i \in 1 .. n : f[i] = IF IsUp(h, chain[i]) THEN Append(f[i - 1], chain[i]) ELSE f[i - 1]
  <2> TAKE i \in 1 .. n
  <2>1. f[i - 1] \in S
    BY <1>0, <1>50
  <2> QED
    BY <1>4, <1>50, <2>1
<1>7. f = Body(f)
  <2>1. \A i \in 0 .. n : i = 0 \/ (i \in 1 .. n /\ i # 0)
    BY <1>0
  <2>2. \A i \in 0 .. n : f[i] = Body(f)[i]
    BY <1>50, <1>6, <2>1
  <2> QED
    BY <1>50, <2>2
<1>8. live = Body(live)
  <2> HIDE DEF Body
  <2> QED
    BY <1>7
<1>9. Live(h, chain) = live[n]
  BY DEF Live
<1> HIDE DEF live
<1>10. LivePrefixes(live, h, n, chain)
  <2>1. \A i \in 1 .. n : i \in 0 .. n /\ i # 0
    BY <1>0
  <2>2. live[0] = << >>
    BY <1>0, <1>8
  <2>3. \A i \in 1 .. n : live[i] = Body(live)[i]
    BY <1>8
  <2>4. \A i \in 1 .. n : live[i] = IF IsUp(h, chain[i]) THEN Append(live[i - 1], chain[i])
                                                                  ELSE live[i - 1]
    BY <2>1, <2>3
  <2> QED
    BY <2>2, <2>4 DEF LivePrefixes
<1>11. \A i \in 0 .. n : f[i] = live[i]
  <2>1. f[0] = live[0] /\ \A i \in 1 .. n : f[i - 1] = live[i - 1] => f[i] = live[i]
    BY <1>50, <1>6, <1>10 DEF LivePrefixes
  <2> HIDE DEF n
  <2> QED
    BY <1>0, <2>1, Alike
<1>12. LivePrefixes(f, h, n, chain)
  BY <1>50, <1>6 DEF LivePrefixes
<1> QED
  BY <1>0, <1>9, <1>11, <1>12, <1>50 DEF S

(* The entries that are down stand for nothing: what the chain stands for is *)
(* what its entries that are up stand for.                                   *)
LEMMA LiveFollows ==
  ASSUME NEW R, NoList \notin Words(R), NEW h, NEW C, NEW chain \in Seq(C), NEW P,
         \A e \in C : ~IsUp(h, e) => P[e] = {<< >>},
         NEW last, NEW f, Follows(f, R, Len(chain), [i \in DOMAIN chain |-> P[chain[i]]], last)
  PROVE  /\ Live(h, chain) \in Seq(UpIn(h, C))
         /\ \E g : /\ Follows(g, R, Len(Live(h, chain)),
                              [i \in DOMAIN Live(h, chain) |-> P[Live(h, chain)[i]]], last)
                  /\ g[1] = f[1]
<1> DEFINE n == Len(chain)
           U == UpIn(h, C)
           Sets(s) == [i \in DOMAIN s |-> P[s[i]]]
<1>0. n \in Nat /\ DOMAIN chain = 1 .. n /\ \A i \in 1 .. n : chain[i] \in C
  OBVIOUS
<1>1. PICK live \in [0 .. n -> Seq(U)] : LivePrefixes(live, h, n, chain) /\ Live(h, chain) = live[n]
  BY LiveIs
<1>2. /\ f \in [1 .. n + 1 -> ListsOf(R)] /\ f[n + 1] = last
      /\ \A i \in 1 .. n : P[chain[i]] \in ListsOf(R) /\ f[i] = Joined(P[chain[i]], f[i + 1])
  BY <1>0 DEF Follows
<1> DEFINE Good(m) == \E g : Follows(g, R, Len(live[m]), Sets(live[m]), f[m + 1]) /\ g[1] = f[1]
           D == {m \in Nat : m <= n => Good(m)}
<1> HIDE DEF n, U
<1>3. 0 \in D
  <2> DEFINE g == [i \in 1 .. 1 |-> f[1]]
  <2>1. live[0] = << >> /\ f[1] \in ListsOf(R)
    BY <1>0, <1>1, <1>2 DEF LivePrefixes
  <2>2. Follows(g, R, Len(live[0]), Sets(live[0]), f[0 + 1]) /\ g[1] = f[1]
    BY <2>1 DEF Follows
  <2> HIDE DEF g
  <2>3. Good(0)
    BY <2>2
  <2> QED
    BY <2>3
<1>4. ASSUME NEW m \in Nat, m \in D
      PROVE  m + 1 \in D
  <2> SUFFICES ASSUME m + 1 <= n PROVE Good(m + 1)
    OBVIOUS
  <2>1. PICK g : Follows(g, R, Len(live[m]), Sets(live[m]), f[m + 1]) /\ g[1] = f[1]
    <3>1. Good(m)
      <4> HIDE DEF Good
      <4> QED
        BY <1>0, <1>4
    <3> QED
      BY <3>1
  <2> DEFINE e == chain[m + 1]
             s == live[m]
             k == Len(s)
  <2>2. /\ s \in Seq(U) /\ e \in C /\ P[e] \in ListsOf(R) /\ f[m + 1] = Joined(P[e], f[m + 1 + 1])
        /\ f[m + 1 + 1] \in ListsOf(R)
        /\ live[m + 1] = IF IsUp(h, e) THEN Append(s, e) ELSE s
    <3>1. m + 1 \in 1 .. n /\ m \in 0 .. n /\ m + 1 - 1 = m /\ m + 1 + 1 \in 1 .. n + 1
      BY <1>0
    <3>2. live[m + 1] = IF IsUp(h, e) THEN Append(live[m + 1 - 1], e) ELSE live[m + 1 - 1]
      <4>1. LivePrefixes(live, h, n, chain)
        BY <1>1
      <4>2. \A i \in 1 .. n : live[i] = IF IsUp(h, chain[i]) THEN Append(live[i - 1], chain[i])
                                                                     ELSE live[i - 1]
        BY <4>1 DEF LivePrefixes
      <4> DEFINE j == m + 1
      <4>3. j \in 1 .. n
        BY <3>1
      <4> HIDE DEF j
      <4>4. live[j] = IF IsUp(h, chain[j]) THEN Append(live[j - 1], chain[j]) ELSE live[j - 1]
        BY <4>2, <4>3
      <4> QED
        BY <4>4 DEF e, j
    <3>3. e \in C /\ P[e] \in ListsOf(R) /\ f[m + 1] = Joined(P[e], f[m + 1 + 1])
      BY <1>0, <1>2, <3>1 DEF e
    <3>4. s \in Seq(U) /\ f[m + 1 + 1] \in ListsOf(R)
      BY <1>1, <1>2, <3>1
    <3> QED
      BY <3>1, <3>2, <3>3, <3>4
  <2> DEFINE rest == f[m + 1 + 1]
  <2> HIDE DEF e
  <2>3. CASE ~IsUp(h, e)
    <3>1. live[m + 1] = s
      BY <2>2, <2>3
    <3>2. f[m + 1] = rest
      BY <2>2, <2>3, JoinedEmpty
    <3> QED
      BY <2>1, <3>1, <3>2
  <2>4. CASE IsUp(h, e)
    <3> DEFINE t == Append(s, e)
               g2 == [i \in 1 .. k + 1 + 1 |-> IF i = k + 1 + 1 THEN rest ELSE g[i]]
    <3>1. k \in Nat /\ Len(t) = k + 1 /\ DOMAIN t = 1 .. k + 1 /\ t[k + 1] = e
          /\ \A i \in 1 .. k : t[i] = s[i]
      BY <2>2
    <3>2. live[m + 1] = t
      BY <2>2, <2>4
    <3> HIDE DEF t, rest
    <3>3. /\ g \in [1 .. k + 1 -> ListsOf(R)] /\ g[k + 1] = f[m + 1]
          /\ \A i \in 1 .. k : P[s[i]] \in ListsOf(R) /\ g[i] = Joined(P[s[i]], g[i + 1])
      <4>1. DOMAIN s = 1 .. k
        BY <2>2
      <4> QED
        BY <2>1, <4>1 DEF Follows
    <3> HIDE DEF s, k
    <3>4. g2 \in [1 .. k + 1 + 1 -> ListsOf(R)] /\ g2[k + 1 + 1] = rest /\ \A i \in 1 .. k + 1 : g2[i] = g[i]
      <4>1. \A i \in 1 .. k + 1 + 1 : i = k + 1 + 1 \/ i \in 1 .. k + 1
        BY <3>1
      <4>2. rest \in ListsOf(R)
        BY <2>2 DEF rest
      <4> QED
        BY <3>1, <3>3, <4>1, <4>2
    <3> HIDE DEF g2
    <3>5. ASSUME NEW i \in 1 .. k + 1
          PROVE  Sets(t)[i] \in ListsOf(R) /\ g2[i] = Joined(Sets(t)[i], g2[i + 1])
      <4>1. Sets(t)[i] = P[t[i]]
        BY <3>1
      <4>2. CASE i = k + 1
        <5>1. g2[i] = f[m + 1] /\ g2[i + 1] = rest
          BY <3>1, <3>3, <3>4, <4>2
        <5> QED
          BY <2>2, <3>1, <4>1, <4>2, <5>1 DEF rest
      <4>3. CASE i \in 1 .. k
        <5>1. g2[i] = g[i] /\ g2[i + 1] = g[i + 1]
          BY <3>1, <3>4, <4>3
        <5> QED
          BY <3>1, <3>3, <4>1, <4>3, <5>1
      <4> QED
        BY <3>1, <4>2, <4>3
    <3>6. Follows(g2, R, Len(t), Sets(t), rest)
      BY <3>1, <3>4, <3>5 DEF Follows
    <3>7. g2[1] = f[1]
      BY <2>1, <3>1, <3>4
    <3> QED
      BY <3>2, <3>6, <3>7 DEF rest
  <2> HIDE DEF Good
  <2> QED
    BY <2>3, <2>4
<1>5. Good(n)
  <2> HIDE DEF Good
  <2> HIDE DEF D
  <2>1. n \in D
    BY <1>0, <1>3, <1>4, Induction
  <2> QED
    BY <1>0, <2>1 DEF D
<1>6. n \in 0 .. n
  BY <1>0
<1>7. Live(h, chain) \in Seq(U)
  BY <1>1, <1>6
<1>8. \E g : Follows(g, R, Len(Live(h, chain)), Sets(Live(h, chain)), last) /\ g[1] = f[1]
  BY <1>1, <1>2, <1>5
<1> QED
  BY <1>7, <1>8 DEF U

RowsOf(d, h) == {RowRead(d, h, e) : e \in DOMAIN d.entries}

LEMMA NoListIsNoList ==
  ASSUME NEW d, NEW h
  PROVE  NoList \notin Words(RowsOf(d, h))
<1> SUFFICES ASSUME NoList \in Seq(RowsOf(d, h)) PROVE FALSE
  BY DEF Words
<1>1. NoList[1] = [entry |-> None] /\ Len(NoList) = 1
  BY DEF NoList
<1>2. NoList[1] \in RowsOf(d, h)
  BY <1>1
<1>3. PICK e : [entry |-> None] = RowRead(d, h, e)
  BY <1>1, <1>2 DEF RowsOf
<1>4. DOMAIN [entry |-> None] = {"entry"} /\ "warm" \in DOMAIN RowRead(d, h, e)
  BY DEF RowRead
<1> QED
  BY <1>3, <1>4

Pieces(d, h, p, nested, chain) == [i \in DOMAIN chain |-> Piece(d, h, p, nested, chain[i])]

(* What the routes stand for, level by level.                                *)
Stands(d, h, p, nested) ==
  [r \in DOMAIN d.routes |->
     UNION {Concatenated(Pieces(d, h, p, nested, chain)) : chain \in RouteEntries(d, r)}]

Levels(d, h, p, lists) ==
  /\ lists \in [0 .. MaxDepth -> [DOMAIN d.routes -> ListsOf(RowsOf(d, h))]]
  /\ \A r \in DOMAIN d.routes : lists[0][r] = {NoList}
  /\ \A n \in 1 .. MaxDepth : lists[n] = Stands(d, h, p, lists[n - 1])

LEMMA ChainIsWords ==
  ASSUME NEW d, Sound(d), NEW r, NEW chain \in RouteEntries(d, r)
  PROVE  /\ chain \in Seq(DOMAIN d.entries) /\ Len(chain) \in Nat /\ DOMAIN chain = 1 .. Len(chain)
         /\ \A i \in 1 .. Len(chain) : chain[i] \in DOMAIN d.entries
<1>1. PICK n \in Nat : chain \in [1 .. n -> Chain(d, r)]
  BY ChainsAreLists
<1>2. Chain(d, r) \subseteq DOMAIN d.entries
  BY DEF Chain, Pointing
<1>3. chain \in [1 .. n -> DOMAIN d.entries]
  BY <1>1, <1>2
<1>4. chain \in Seq(DOMAIN d.entries)
  BY <1>3
<1> QED
  BY <1>4

LEMMA PieceIsLists ==
  ASSUME NEW d, NEW h, NEW p, NEW e \in DOMAIN d.entries,
         NEW nested \in [DOMAIN d.routes -> ListsOf(RowsOf(d, h))]
  PROVE  Piece(d, h, p, nested, e) \in ListsOf(RowsOf(d, h))
<1>1. RowRead(d, h, e) \in RowsOf(d, h)
  BY DEF RowsOf
<1>2. <<RowRead(d, h, e)>> \in Words(RowsOf(d, h)) /\ << >> \in Words(RowsOf(d, h))
  BY <1>1 DEF Words
<1>3. \A r : Enterable(d, p, r) => r \in DOMAIN d.routes
  BY DEF Enterable
<1> DEFINE W == Words(RowsOf(d, h))
<1> HIDE DEF W
<1>4. /\ {<< >>} \in SUBSET (W \cup {NoList}) /\ {<<RowRead(d, h, e)>>} \in SUBSET (W \cup {NoList})
      /\ {NoList} \in SUBSET (W \cup {NoList})
  BY <1>2 DEF W
<1>5. /\ {<< >>} \in ListsOf(RowsOf(d, h)) /\ {<<RowRead(d, h, e)>>} \in ListsOf(RowsOf(d, h))
      /\ {NoList} \in ListsOf(RowsOf(d, h))
  BY <1>4 DEF ListsOf, W
<1> DEFINE L == ListsOf(RowsOf(d, h))
           row == d.entries[e]
<1> HIDE DEF L
<1>6. Enterable(d, p, row.target) => nested[row.target] \in L
  BY <1>3 DEF L
<1>7. /\ {<< >>} \in L /\ {<<RowRead(d, h, e)>>} \in L /\ {NoList} \in L
  BY <1>5 DEF L
<1> HIDE DEF row
<1>8. Piece(d, h, p, nested, e) =
        CASE ~IsUp(h, e) -> {<<>>}
          [] IsUp(h, e) /\ row.target = None /\ Usable(d, p, row.provider) -> {<<RowRead(d, h, e)>>}
          [] IsUp(h, e) /\ row.target # None /\ Enterable(d, p, row.target) -> nested[row.target]
          [] OTHER -> {NoList}
  BY DEF Piece, row
<1>9. Piece(d, h, p, nested, e) \in L
  BY <1>6, <1>7, <1>8
<1> QED
  BY <1>9 DEF L

LEMMA StandsForLists ==
  ASSUME NEW d, Sound(d), NEW h, NEW p, NEW nested \in [DOMAIN d.routes -> ListsOf(RowsOf(d, h))]
  PROVE  /\ Stands(d, h, p, nested) \in [DOMAIN d.routes -> ListsOf(RowsOf(d, h))]
         /\ \A r, chain : chain \in RouteEntries(d, r) =>
              \E f : /\ Follows(f, RowsOf(d, h), Len(chain), Pieces(d, h, p, nested, chain), {<< >>})
                    /\ Concatenated(Pieces(d, h, p, nested, chain)) = f[1]
<1> DEFINE R == RowsOf(d, h)
<1>1. ASSUME NEW r, NEW chain \in RouteEntries(d, r)
      PROVE  /\ \E f : /\ Follows(f, R, Len(chain), Pieces(d, h, p, nested, chain), {<< >>})
                       /\ Concatenated(Pieces(d, h, p, nested, chain)) = f[1]
             /\ Concatenated(Pieces(d, h, p, nested, chain)) \in ListsOf(R)
  <2> DEFINE sets == Pieces(d, h, p, nested, chain)
  <2>1. /\ Len(chain) \in Nat /\ DOMAIN chain = 1 .. Len(chain)
        /\ \A i \in 1 .. Len(chain) : chain[i] \in DOMAIN d.entries
    BY ChainIsWords
  <2>2. \A i \in 1 .. Len(chain) : sets[i] \in ListsOf(R)
    BY <2>1, PieceIsLists DEF Pieces
  <2>3. Len(sets) = Len(chain)
    BY <2>1 DEF Pieces
  <2>4. NoList \notin Words(R)
    BY NoListIsNoList
  <2> HIDE DEF sets, R
  <2>5. PICK f : Follows(f, R, Len(sets), sets, {<< >>}) /\ Concatenated(sets) = f[1]
    BY <2>1, <2>2, <2>3, <2>4, ConcatenatedFollows
  <2>6. f[1] \in ListsOf(R)
    BY <2>1, <2>3, <2>5 DEF Follows
  <2> QED
    BY <2>3, <2>5, <2>6 DEF sets
<1>2. Stands(d, h, p, nested) \in [DOMAIN d.routes -> ListsOf(R)]
  <2> HIDE DEF R
  <2>1. \A r : UNION {Concatenated(Pieces(d, h, p, nested, chain)) : chain \in RouteEntries(d, r)} \in ListsOf(R)
    BY <1>1 DEF ListsOf
  <2> QED
    BY <2>1 DEF Stands
<1> QED
  BY <1>1, <1>2

LEMMA FlatteningIs ==
  ASSUME NEW d, Sound(d), NEW h, NEW p
  PROVE  \E lists : Levels(d, h, p, lists) /\ Flattening(d, h, p) = lists[MaxDepth]
<1> DEFINE S == [DOMAIN d.routes -> ListsOf(RowsOf(d, h))]
           none == [r \in DOMAIN d.routes |-> {NoList}]
           step == [n \in 1 .. MaxDepth |-> [nested \in S |-> Stands(d, h, p, nested)]]
           Body(lists) == [n \in 0 .. MaxDepth |->
             [r \in DOMAIN d.routes |->
                IF n = 0 THEN {NoList}
                ELSE UNION {Concatenated([i \in DOMAIN chain |-> Piece(d, h, p, lists[n - 1], chain[i])]) :
                              chain \in RouteEntries(d, r)}]]
           lists == CHOOSE lists : lists = Body(lists)
<1>0. MaxDepth \in Nat
  BY GraphAssumption
<1>1. none \in S
  BY DEF ListsOf
<1>2. \A nested \in S : Stands(d, h, p, nested) \in S
  BY StandsForLists
<1>3. AreSteps(step, MaxDepth, S)
  BY <1>2 DEF AreSteps
<1>4. \A n \in 1 .. MaxDepth, nested \in S : step[n][nested] = Stands(d, h, p, nested)
  OBVIOUS
<1> HIDE DEF S, step, none
<1>5. PICK f : Recurs(f, MaxDepth, S, none, step)
  BY <1>0, <1>1, <1>3, Recursion
<1>6. /\ f \in [0 .. MaxDepth -> S] /\ f[0] = none
      /\ \A n \in 1 .. MaxDepth : f[n] = Stands(d, h, p, f[n - 1])
  <2>1. f \in [0 .. MaxDepth -> S] /\ f[0] = none /\ \A n \in 1 .. MaxDepth : f[n] = step[n][f[n - 1]]
    BY <1>5 DEF Recurs
  <2>2. \A n \in 1 .. MaxDepth : f[n - 1] \in S
    BY <1>0, <2>1
  <2> QED
    BY <1>4, <2>1, <2>2
<1>7. \A g : /\ Body(g)[0] = none
             /\ \A n \in 1 .. MaxDepth : Body(g)[n] = Stands(d, h, p, g[n - 1])
  <2> TAKE g
  <2>1. 0 \in 0 .. MaxDepth /\ \A n \in 1 .. MaxDepth : n \in 0 .. MaxDepth /\ n # 0
    BY <1>0
  <2>2. Body(g)[0] = none
    BY <2>1 DEF none
  <2>3. ASSUME NEW n \in 1 .. MaxDepth
        PROVE  Body(g)[n] = Stands(d, h, p, g[n - 1])
    BY <2>1 DEF Stands, Pieces
  <2> QED
    BY <2>2, <2>3
<1>8. f = Body(f)
  <2>1. \A n \in 0 .. MaxDepth : n = 0 \/ n \in 1 .. MaxDepth
    BY <1>0
  <2>2. \A n \in 0 .. MaxDepth : f[n] = Body(f)[n]
    <3> HIDE DEF Body
    <3> QED
      BY <1>6, <1>7, <2>1
  <2>3. Body(f) = [n \in 0 .. MaxDepth |-> Body(f)[n]]
    OBVIOUS
  <2> HIDE DEF Body
  <2> QED
    BY <1>6, <2>2, <2>3
<1>9. lists = Body(lists)
  <2> HIDE DEF Body
  <2> QED
    BY <1>8
<1>10. Flattening(d, h, p) = lists[MaxDepth]
  BY DEF Flattening
<1> HIDE DEF lists, Body
<1>11. \A n \in 0 .. MaxDepth : f[n] = lists[n]
  <2>1. f[0] = lists[0]
    BY <1>6, <1>7, <1>9
  <2>2. \A n \in 1 .. MaxDepth : f[n - 1] = lists[n - 1] => f[n] = lists[n]
    BY <1>6, <1>7, <1>9
  <2> QED
    BY <1>0, <2>1, <2>2, Alike
<1>12. Levels(d, h, p, f)
  BY <1>6 DEF Levels, S, none
<1> QED
  BY <1>0, <1>10, <1>11, <1>12

-----------------------------------------------------------------------------
(* The stack of a walk.                                                      *)

(* A route whose chain has an entry, up, that nests another.                 *)
Edge(d, h, a, b) ==
  /\ a \in DOMAIN d.routes /\ b # None
  /\ \E chain \in RouteEntries(d, a) : \E i \in DOMAIN chain :
       IsUp(h, chain[i]) /\ d.entries[chain[i]].target = b

RowPieces(d, h, p, nested, rows) == [i \in DOMAIN rows |-> Piece(d, h, p, nested, rows[i].entry)]

FromChain(d, h, rows, r) ==
  \E chain \in RouteEntries(d, r) : \A i \in DOMAIN rows : \E k \in DOMAIN chain :
    IsUp(h, chain[k]) /\ rows[i] = RowRead(d, h, chain[k])

(* The rows a frame has left, of the chain of r, before what follows them.   *)
FrameStands(d, h, p, rows, r, nested, last, all) ==
  /\ IsList(rows) /\ FromChain(d, h, rows, r)
  /\ \E f : /\ Follows(f, RowsOf(d, h), Len(rows), RowPieces(d, h, p, nested, rows), last)
            /\ f[1] = all

LEMMA PiecesAreLists ==
  ASSUME NEW d, Sound(d), NEW h, NEW p, NEW nested \in [DOMAIN d.routes -> ListsOf(RowsOf(d, h))],
         NEW r, NEW rows, FromChain(d, h, rows, r), NEW i \in DOMAIN rows
  PROVE  /\ rows[i].entry \in DOMAIN d.entries /\ IsUp(h, rows[i].entry)
         /\ rows[i] = RowRead(d, h, rows[i].entry) /\ rows[i] \in RowsOf(d, h)
         /\ Piece(d, h, p, nested, rows[i].entry) \in ListsOf(RowsOf(d, h))
<1>1. PICK chain \in RouteEntries(d, r) : \A j \in DOMAIN rows : \E k \in DOMAIN chain :
        IsUp(h, chain[k]) /\ rows[j] = RowRead(d, h, chain[k])
  BY DEF FromChain
<1>2. PICK k \in DOMAIN chain : IsUp(h, chain[k]) /\ rows[i] = RowRead(d, h, chain[k])
  BY <1>1
<1>3. chain[k] \in DOMAIN d.entries
  BY ChainIsWords
<1>4. rows[i].entry = chain[k]
  BY <1>2 DEF RowRead
<1>5. rows[i] \in RowsOf(d, h)
  BY <1>2, <1>3 DEF RowsOf
<1> QED
  BY <1>2, <1>3, <1>4, <1>5, PieceIsLists

LEMMA FramePush ==
  ASSUME NEW d, Sound(d), NEW h, NEW p, NEW nested \in [DOMAIN d.routes -> ListsOf(RowsOf(d, h))],
         NEW r \in DOMAIN d.routes, NEW chain \in RouteEntries(d, r), NEW last \in ListsOf(RowsOf(d, h))
  PROVE  \E all : /\ FrameStands(d, h, p, RowsRead(d, h, chain), r, nested, last, all)
                  /\ all \in ListsOf(RowsOf(d, h))
                  /\ all \subseteq Joined(Stands(d, h, p, nested)[r], last)
<1> DEFINE R == RowsOf(d, h)
           C == {chain[i] : i \in DOMAIN chain}
           P == [e \in C |-> Piece(d, h, p, nested, e)]
           live == Live(h, chain)
           rows == RowsRead(d, h, chain)
           sets == Pieces(d, h, p, nested, chain)
<1>1. NoList \notin Words(R) /\ Len(chain) \in Nat /\ DOMAIN chain = 1 .. Len(chain)
  BY NoListIsNoList, ChainIsWords
<1>2. PICK f : Follows(f, R, Len(chain), sets, {<< >>}) /\ Concatenated(sets) = f[1]
  <2>1. \A q, c : c \in RouteEntries(d, q) =>
          \E f : /\ Follows(f, R, Len(c), Pieces(d, h, p, nested, c), {<< >>})
                /\ Concatenated(Pieces(d, h, p, nested, c)) = f[1]
    BY StandsForLists
  <2> QED
    BY <2>1
<1>3. PICK g : Follows(g, R, Len(chain), sets, last) /\ g[1] = Joined(f[1], last)
  <2> HIDE DEF R, sets
  <2>1. last \in ListsOf(R)
    BY DEF R
  <2> QED
    BY <1>1, <1>2, <2>1, FollowsBefore
<1>4. chain \in Seq(C)
  <2>1. chain \in Seq(DOMAIN d.entries)
    BY ChainIsWords
  <2>2. chain \in [1 .. Len(chain) -> C]
    BY <1>1, <2>1
  <2> QED
    BY <1>1, <2>2
<1>5. sets = [i \in DOMAIN chain |-> P[chain[i]]]
  BY DEF Pieces
<1>6. \A e \in C : ~IsUp(h, e) => P[e] = {<< >>}
  BY DEF Piece
<1>7. /\ live \in Seq(UpIn(h, C))
      /\ \E q : Follows(q, R, Len(live), [i \in DOMAIN live |-> P[live[i]]], last) /\ q[1] = g[1]
  <2>1. Follows(g, R, Len(chain), [i \in DOMAIN chain |-> P[chain[i]]], last)
    BY <1>3, <1>5
  <2> HIDE DEF C, P, R, sets
  <2> QED
    BY <1>1, <1>4, <1>6, <2>1, LiveFollows
<1>8. PICK q : Follows(q, R, Len(live), [i \in DOMAIN live |-> P[live[i]]], last) /\ q[1] = g[1]
  BY <1>7
<1>9. /\ Len(live) \in Nat /\ DOMAIN live = 1 .. Len(live)
      /\ \A i \in 1 .. Len(live) : live[i] \in C /\ IsUp(h, live[i])
  <2>1. \A e \in UpIn(h, C) : e \in C /\ IsUp(h, e)
    BY DEF UpIn
  <2> HIDE DEF C, live
  <2>2. Len(live) \in Nat /\ DOMAIN live = 1 .. Len(live) /\ \A i \in 1 .. Len(live) : live[i] \in UpIn(h, C)
    BY <1>7
  <2> QED
    BY <2>1, <2>2
<1>10. /\ DOMAIN rows = 1 .. Len(live) /\ IsList(rows) /\ Len(rows) = Len(live)
       /\ \A i \in 1 .. Len(live) : rows[i] = RowRead(d, h, live[i])
  <2>1. rows = [i \in 1 .. Len(live) |-> RowRead(d, h, live[i])]
    BY <1>9 DEF RowsRead
  <2> HIDE DEF rows, live
  <2>2. rows = [i \in 1 .. Len(live) |-> rows[i]]
    BY <2>1
  <2> QED
    BY <1>9, <2>1, <2>2, FunctionIsList
<1>11. FromChain(d, h, rows, r)
  <2>1. \A e \in C : \E k \in DOMAIN chain : e = chain[k]
    OBVIOUS
  <2> HIDE DEF C, rows, live
  <2>2. \A i \in DOMAIN rows : \E k \in DOMAIN chain : IsUp(h, chain[k]) /\ rows[i] = RowRead(d, h, chain[k])
    BY <1>9, <1>10, <2>1
  <2> QED
    BY <2>2 DEF FromChain
<1>12. RowPieces(d, h, p, nested, rows) = [i \in DOMAIN live |-> P[live[i]]]
  <2>1. \A i \in 1 .. Len(live) : rows[i].entry = live[i] /\ live[i] \in C
    BY <1>9, <1>10 DEF RowRead
  <2>2. \A e \in C : P[e] = Piece(d, h, p, nested, e)
    OBVIOUS
  <2> HIDE DEF C, P, rows, live
  <2> QED
    BY <1>9, <1>10, <2>1, <2>2 DEF RowPieces
<1>13. FrameStands(d, h, p, rows, r, nested, last, g[1])
  <2>1. Follows(q, R, Len(rows), RowPieces(d, h, p, nested, rows), last)
    BY <1>8, <1>10, <1>12
  <2> HIDE DEF rows
  <2> QED
    BY <1>8, <1>10, <1>11, <2>1 DEF FrameStands
<1>14. g[1] \in ListsOf(R)
  BY <1>1, <1>3 DEF Follows
<1>15. g[1] \subseteq Joined(Stands(d, h, p, nested)[r], last)
  <2>1. f[1] \subseteq Stands(d, h, p, nested)[r]
    BY <1>2 DEF Stands
  <2> QED
    BY <1>3, <2>1, JoinedGrows
<1> QED
  BY <1>13, <1>14, <1>15

LEMMA FrameRest ==
  ASSUME NEW d, Sound(d), NEW h, NEW p, NEW nested \in [DOMAIN d.routes -> ListsOf(RowsOf(d, h))],
         NEW r, NEW rows, NEW last, NEW all,
         FrameStands(d, h, p, rows, r, nested, last, all), rows # << >>
  PROVE  /\ Head(rows) = rows[1] /\ 1 \in DOMAIN rows
         /\ \E rest : /\ FrameStands(d, h, p, Tail(rows), r, nested, last, rest)
                      /\ rest \in ListsOf(RowsOf(d, h))
                      /\ all = Joined(Piece(d, h, p, nested, Head(rows).entry), rest)
<1> DEFINE R == RowsOf(d, h)
           n == Len(rows)
           t == Tail(rows)
<1>1. PICK f : Follows(f, R, n, RowPieces(d, h, p, nested, rows), last) /\ f[1] = all
  BY DEF FrameStands
<1>2. /\ n \in Nat /\ n >= 1 /\ DOMAIN rows = 1 .. n /\ Head(rows) = rows[1]
      /\ IsList(t) /\ Len(t) = n - 1 /\ DOMAIN t = 1 .. n - 1
      /\ \A i \in 1 .. n - 1 : t[i] = rows[i + 1]
  <2>1. IsList(rows)
    BY DEF FrameStands
  <2>2. /\ IsList(t) /\ n >= 1 /\ Len(t) = n - 1 /\ Head(rows) = rows[1]
        /\ \A i \in 1 .. n - 1 : t[i] = rows[i + 1]
    BY <2>1, TailIsList
  <2> HIDE DEF t, n
  <2>3. DOMAIN t = 1 .. Len(t)
    BY <2>2 DEF IsList
  <2>4. DOMAIN rows = 1 .. n /\ n \in Nat
    BY <2>1 DEF IsList, n
  <2> QED
    BY <2>2, <2>3, <2>4
<1> HIDE DEF t, n
<1> DEFINE g == [i \in 1 .. n |-> f[i + 1]]
           sets == RowPieces(d, h, p, nested, rows)
           more == RowPieces(d, h, p, nested, t)
<1>3. /\ f \in [1 .. n + 1 -> ListsOf(R)] /\ f[n + 1] = last
      /\ \A i \in 1 .. n : sets[i] \in ListsOf(R) /\ f[i] = Joined(sets[i], f[i + 1])
  BY <1>1 DEF Follows
<1>4. \A i \in 1 .. n - 1 : i + 1 \in 1 .. n /\ more[i] = sets[i + 1]
  BY <1>2 DEF RowPieces
<1>5. sets[1] = Piece(d, h, p, nested, Head(rows).entry)
  BY <1>2 DEF RowPieces
<1> HIDE DEF sets, more
<1>6. g \in [1 .. n - 1 + 1 -> ListsOf(R)] /\ g[n - 1 + 1] = last /\ g[1] = f[2] /\ f[2] \in ListsOf(R)
  BY <1>2, <1>3
<1>7. \A i \in 1 .. n - 1 : more[i] \in ListsOf(R) /\ g[i] = Joined(more[i], g[i + 1])
  <2> TAKE i \in 1 .. n - 1
  <2>1. i + 1 \in 1 .. n /\ i \in 1 .. n
    BY <1>2
  <2>2. g[i] = f[i + 1] /\ g[i + 1] = f[i + 1 + 1]
    BY <2>1
  <2> QED
    BY <1>3, <1>4, <2>1, <2>2
<1> HIDE DEF g
<1>8. Follows(g, R, n - 1, more, last)
  BY <1>6, <1>7 DEF Follows
<1>9. FromChain(d, h, t, r)
  <2>1. PICK chain \in RouteEntries(d, r) : \A i \in DOMAIN rows : \E k \in DOMAIN chain :
          IsUp(h, chain[k]) /\ rows[i] = RowRead(d, h, chain[k])
    BY DEF FrameStands, FromChain
  <2>2. \A i \in DOMAIN t : i + 1 \in DOMAIN rows /\ t[i] = rows[i + 1]
    BY <1>2
  <2>3. \A i \in DOMAIN t : \E k \in DOMAIN chain : IsUp(h, chain[k]) /\ t[i] = RowRead(d, h, chain[k])
    BY <2>1, <2>2
  <2> QED
    BY <2>3 DEF FromChain
<1>10. FrameStands(d, h, p, t, r, nested, last, f[2])
  BY <1>2, <1>6, <1>8, <1>9 DEF FrameStands, more
<1>11. all = Joined(sets[1], f[2])
  BY <1>1, <1>2, <1>3
<1> QED
  BY <1>2, <1>5, <1>6, <1>10, <1>11 DEF t

LEMMA FrameDone ==
  ASSUME NEW d, NEW h, NEW p, NEW rows, NEW r, NEW nested, NEW last, NEW all,
         FrameStands(d, h, p, rows, r, nested, last, all), rows = << >>
  PROVE  all = last
<1>1. Len(rows) = 0
  OBVIOUS
<1> QED
  BY <1>1 DEF FrameStands, Follows

-----------------------------------------------------------------------------
(* Routes that nest each other stand for no list, however deep one may nest. *)
LEMMA CyclesHaveNone ==
  ASSUME NEW d, Sound(d), NEW h, NEW p, NEW lists, Levels(d, h, p, lists),
         NEW V, \A v \in V : \E w \in V : Edge(d, h, v, w)
  PROVE  \A n \in 0 .. MaxDepth : \A v \in V : NoList \in lists[n][v]
<1> DEFINE R == RowsOf(d, h)
           S == {n \in Nat : n <= MaxDepth => \A v \in V : NoList \in lists[n][v]}
<1>0. MaxDepth \in Nat
  BY GraphAssumption
<1>1. \A v \in V : v \in DOMAIN d.routes
  BY DEF Edge
<1>2. 0 \in S
  BY <1>1 DEF Levels
<1>3. ASSUME NEW n \in Nat, n \in S
      PROVE  n + 1 \in S
  <2> SUFFICES ASSUME n + 1 <= MaxDepth, NEW v \in V
               PROVE  NoList \in lists[n + 1][v]
    OBVIOUS
  <2> DEFINE nested == lists[n]
  <2>1. n + 1 \in 1 .. MaxDepth /\ n \in 0 .. MaxDepth /\ n + 1 - 1 = n
    BY <1>0
  <2>2. lists[n + 1] = Stands(d, h, p, nested) /\ nested \in [DOMAIN d.routes -> ListsOf(R)]
    BY <2>1 DEF Levels
  <2>3. \A w \in V : NoList \in nested[w]
    BY <1>0, <1>3
  <2> HIDE DEF nested
  <2>4. PICK w \in V : Edge(d, h, v, w)
    OBVIOUS
  <2>5. PICK chain \in RouteEntries(d, v) : \E i \in DOMAIN chain :
          IsUp(h, chain[i]) /\ d.entries[chain[i]].target = w
    BY <2>4 DEF Edge
  <2>6. PICK i \in DOMAIN chain : IsUp(h, chain[i]) /\ d.entries[chain[i]].target = w
    BY <2>5
  <2> DEFINE sets == Pieces(d, h, p, nested, chain)
  <2>7. NoList \in sets[i]
    <3>1. sets[i] = Piece(d, h, p, nested, chain[i])
      BY DEF Pieces
    <3>2. w # None
      BY <2>4 DEF Edge
    <3>3. NoList \in nested[w]
      BY <2>3
    <3> HIDE DEF sets
    <3> QED
      BY <2>6, <3>1, <3>2, <3>3 DEF Piece
  <2>8. Len(chain) \in Nat /\ DOMAIN chain = 1 .. Len(chain) /\ NoList \notin Words(R)
    BY ChainIsWords, NoListIsNoList
  <2>9. PICK f : Follows(f, R, Len(chain), sets, {<< >>}) /\ Concatenated(sets) = f[1]
    BY <2>2, StandsForLists
  <2>10. NoList \in Concatenated(sets)
    <3> HIDE DEF sets, R
    <3> QED
      BY <2>7, <2>8, <2>9, NoneFromTheStart
  <2>11. v \in DOMAIN d.routes
    BY <1>1
  <2> QED
    BY <2>2, <2>10, <2>11 DEF Stands
<1> HIDE DEF S
<1>4. \A n \in Nat : n \in S
  BY <1>2, <1>3, Induction
<1> QED
  BY <1>0, <1>4 DEF S

-----------------------------------------------------------------------------
(* What the walk has found, with each list that may follow, is a list the    *)
(* route stands for; and it stands for none if none can follow.              *)
Leads(found, due, goal) ==
  /\ \A t \in due : t # NoList => Glue(found, t) \in goal
  /\ NoList \in due => NoList \in goal

IsStack(d, h, p, frames, path, lists, G) ==
  /\ G \in [0 .. Len(frames) -> ListsOf(RowsOf(d, h))]
  /\ G[0] = {<< >>}
  /\ \A j \in 1 .. Len(frames) :
       FrameStands(d, h, p, frames[j], path[j], lists[MaxDepth - j], G[j - 1], G[j])

(* What is still to come: first the route about to be entered.               *)
Due(w, lists, G) ==
  IF w.phase = "enter" THEN Joined(lists[MaxDepth - Len(w.frames)][w.next], G[Len(w.frames)])
                       ELSE G[Len(w.frames)]

IsPath(d, h, path) ==
  /\ \A j \in 1 .. Len(path) : path[j] \in DOMAIN d.routes
  /\ \A j \in 1 .. Len(path) : j < Len(path) => Edge(d, h, path[j], path[j + 1])

OnCourse(w, d, h, lists, G) ==
  /\ Levels(d, h, w.profile, lists) /\ Flattening(d, h, w.profile) = lists[MaxDepth]
  /\ IsStack(d, h, w.profile, w.frames, w.visited, lists, G)
  /\ Leads(w.found, Due(w, lists, G), lists[MaxDepth][w.route])

HeadOf(w) == Head(w.frames[Len(w.frames)])

FlatSound(w, d, h) ==
  /\ w.phase = "proxy" => w.found = << >> /\ w.route = None
  /\ w.phase = "failed" /\ w.route # None => NoList \in Flattening(d, h, w.profile)[w.route]
  /\ w.phase \in {"enter", "chain", "shared"} =>
       /\ w.route \in DOMAIN d.routes /\ w.found \in Words(RowsOf(d, h))
       /\ IsPath(d, h, w.visited)
       /\ \E lists, G : OnCourse(w, d, h, lists, G)
  /\ w.phase = "enter" =>
       /\ w.next \in DOMAIN d.routes
       /\ Len(w.visited) > 0 => Edge(d, h, w.visited[Len(w.visited)], w.next)
  /\ w.phase = "shared" =>
       /\ w.frames[Len(w.frames)] # << >>
       /\ HeadOf(w).target # None /\ HeadOf(w).target \in DOMAIN d.routes
       /\ w.next = <<HeadOf(w).target, RouteOwnerProfile(d, HeadOf(w).target)>>

FlatInv == walk # Resting /\ walk.alone => FlatSound(walk, db, health)

LEMMA FlatKeeps ==
  ASSUME NEW w, Walk(w), w # Resting /\ w.alone => FlatSound(w, db, health)
  PROVE  FlatInv'
<1>1. walk' = w /\ db' = db /\ health' = health
  BY DEF Walk, consoleVars
<1> QED
  BY <1>1 DEF FlatInv

(* A failure, when the route stands for no list.                             *)
LEMMA FailFlat ==
  ASSUME WalkInv, walk.phase # "idle", Fail,
         walk.alone /\ walk.route # None =>
           NoList \in Flattening(db, health, walk.profile)[walk.route]
  PROVE  FlatInv'
<1> DEFINE w == [walk EXCEPT !.phase = "failed"]
<1>1. Shape(walk)
  BY UnderWay DEF WalkSound
<1>2. w.phase = "failed" /\ w.route = walk.route /\ w.profile = walk.profile /\ w.alone = walk.alone
  BY <1>1 DEF Shape
<1>3. Walk(w)
  BY DEF Fail
<1> HIDE DEF w
<1>4. w.alone => FlatSound(w, db, health)
  BY <1>2 DEF FlatSound
<1> QED
  BY <1>3, <1>4, FlatKeeps

LEMMA FindProxyFlat ==
  ASSUME NEW p, FindProxy(p)
  PROVE  FlatInv'
<1>1. PICK x \in ListProxies(db, p) :
        walk' = [phase |-> "proxy", profile |-> p, proxy |-> x, frames |-> <<>>, visited |-> <<>>,
                 next |-> None, route |-> None, found |-> <<>>, alone |-> TRUE,
                 offered |-> Offered(db, p)]
  BY DEF FindProxy
<1> DEFINE w == walk'
<1>2. w.phase = "proxy" /\ w.found = << >> /\ w.route = None
  BY <1>1
<1> HIDE DEF w
<1>3. FlatSound(w, db', health')
  BY <1>2 DEF FlatSound
<1> QED
  BY <1>3 DEF FlatInv, w

LEMMA FindRouteFlat ==
  ASSUME WalkInv, FlatInv, Sound(db), FindRoute
  PROVE  FlatInv'
<1>1. walk.phase = "proxy" /\ WalkSound(walk, db) /\ walk # Resting
  <2>1. walk.phase = "proxy"
    BY DEF FindRoute
  <2> QED
    BY <2>1, UnderWay DEF Resting
<1>2. walk.alone => walk.found = << >> /\ walk.route = None
  BY <1>1 DEF FlatInv, FlatSound
<1>3. CASE Fail
  BY <1>1, <1>2, <1>3, FailFlat
<1>4. ASSUME NEW r \in ListRoutes(db, walk.proxy),
             Walk([walk EXCEPT !.phase = "enter", !.next = r, !.route = r])
      PROVE  FlatInv'
  <2> DEFINE w == [walk EXCEPT !.phase = "enter", !.next = r, !.route = r]
             p == walk.profile
             R == RowsOf(db, health)
  <2>1. /\ w.phase = "enter" /\ w.frames = walk.frames /\ w.visited = walk.visited
        /\ w.found = walk.found /\ w.profile = p /\ w.next = r /\ w.route = r /\ w.alone = walk.alone
    BY <1>1 DEF WalkSound, Shape
  <2> HIDE DEF w
  <2>2. walk.frames = << >> /\ Len(walk.frames) = 0 /\ Len(walk.visited) = 0
    BY <1>1 DEF WalkSound, PhaseSound
  <2>3. r \in DOMAIN db.routes
    BY DEF ListRoutes, Pointing
  <2>4. PICK lists : Levels(db, health, p, lists) /\ Flattening(db, health, p) = lists[MaxDepth]
    BY FlatteningIs
  <2> DEFINE G == [j \in 0 .. 0 |-> {<< >>}]
             goal == lists[MaxDepth][r]
  <2>5. goal \in ListsOf(R) /\ NoList \notin Words(R) /\ {<< >>} \in ListsOf(R) /\ << >> \in Words(R)
    <3>1. MaxDepth \in 0 .. MaxDepth
      BY GraphAssumption
    <3>2. lists[MaxDepth] \in [DOMAIN db.routes -> ListsOf(R)]
      BY <2>4, <3>1 DEF Levels
    <3>3. NoList \notin Words(R) /\ << >> \in Words(R)
      BY NoListIsNoList, WordsJoin
    <3> QED
      BY <2>3, <3>2, <3>3 DEF ListsOf
  <2>6. IsStack(db, health, p, << >>, w.visited, lists, G)
    BY <2>5 DEF IsStack
  <2> DEFINE due == Joined(goal, {<< >>})
  <2>7. Leads(<< >>, due, goal)
    <3> HIDE DEF due, goal, R
    <3>1. ASSUME NEW t \in due, t # NoList
          PROVE  Glue(<< >>, t) \in goal
      <4>1. PICK u, v \in Words(R) : u \in goal /\ v \in {<< >>} /\ t = Glue(u, v)
        BY <2>5, <3>1, JoinedIs DEF due
      <4>2. t = u
        BY <4>1, WordsJoin
      <4> QED
        BY <4>1, <4>2, WordsJoin
    <3>2. NoList \in due => NoList \in goal
      BY <2>5, JoinedIs DEF due
    <3> QED
      BY <3>1, <3>2 DEF Leads
  <2>8. Due(w, lists, G) = due
    <3>1. MaxDepth - 0 = MaxDepth
      BY GraphAssumption
    <3> QED
      BY <2>1, <2>2, <3>1 DEF Due
  <2> HIDE DEF due, goal, G, R
  <2>9. ASSUME walk.alone PROVE OnCourse(w, db, health, lists, G)
    <3>1. Leads(w.found, Due(w, lists, G), lists[MaxDepth][w.route])
      BY <1>2, <2>1, <2>7, <2>8, <2>9 DEF goal
    <3> QED
      BY <2>1, <2>2, <2>4, <2>6, <3>1 DEF OnCourse
  <2>10. IsPath(db, health, w.visited)
    BY <2>1, <2>2 DEF IsPath
  <2>11. ASSUME w.alone
        PROVE  FlatSound(w, db, health)
    <3>1. w.found \in Words(R)
      BY <1>2, <2>1, <2>5, <2>11
    <3>2. \E lists2, G2 : OnCourse(w, db, health, lists2, G2)
      BY <2>1, <2>9, <2>11
    <3> QED
      BY <2>1, <2>2, <2>3, <2>10, <3>1, <3>2 DEF FlatSound, R
  <2> QED
    BY <1>4, <2>11, FlatKeeps DEF w
<1> QED
  BY <1>3, <1>4 DEF FindRoute

(* Where the walk stands on a stack and what is due.                         *)
LEMMA CourseOf ==
  ASSUME WalkInv, FlatInv, Sound(db), walk.phase \in {"enter", "chain", "shared"}, walk.alone
  PROVE  /\ WalkSound(walk, db) /\ FlatSound(walk, db, health)
         /\ Len(walk.frames) \in Nat /\ Len(walk.visited) = Len(walk.frames)
         /\ Len(walk.frames) <= MaxDepth /\ MaxDepth \in Nat
         /\ walk.phase # "enter" => Len(walk.frames) > 0
         /\ \E lists, G : OnCourse(walk, db, health, lists, G)
<1>1. walk # Resting /\ walk.phase # "idle"
  BY DEF Resting
<1>2. WalkSound(walk, db)
  BY <1>1, UnderWay
<1>3. FlatSound(walk, db, health)
  BY <1>1 DEF FlatInv
<1>4. Len(walk.frames) \in Nat /\ Len(walk.visited) = Len(walk.frames) /\ Len(walk.frames) <= MaxDepth
  BY <1>2 DEF WalkSound, PhaseSound, PathSound, IsList
<1>5. walk.phase # "enter" => Len(walk.frames) > 0
  <2>1. walk.phase # "enter" => walk.frames # << >>
    BY <1>2 DEF WalkSound, PhaseSound
  <2>2. walk.frames # << >> => Len(walk.frames) # 0
    BY <1>2, NotEmpty DEF WalkSound
  <2> QED
    BY <1>4, <2>1, <2>2
<1> QED
  BY <1>2, <1>3, <1>4, <1>5, GraphAssumption DEF FlatSound

(* The levels and the stack at a depth.                                      *)
LEMMA AtDepth ==
  ASSUME NEW w, NEW d, NEW h, NEW lists, NEW G, OnCourse(w, d, h, lists, G), Len(w.frames) \in Nat,
         Len(w.frames) <= MaxDepth, MaxDepth \in Nat
  PROVE  /\ \A j \in 0 .. Len(w.frames) :
              /\ G[j] \in ListsOf(RowsOf(d, h))
              /\ lists[MaxDepth - j] \in [DOMAIN d.routes -> ListsOf(RowsOf(d, h))]
         /\ G[0] = {<< >>}
         /\ \A j \in 1 .. Len(w.frames) :
              FrameStands(d, h, w.profile, w.frames[j], w.visited[j], lists[MaxDepth - j], G[j - 1], G[j])
<1>1. \A j \in 0 .. Len(w.frames) : MaxDepth - j \in 0 .. MaxDepth
  OBVIOUS
<1>2. \A j \in 0 .. MaxDepth : lists[j] \in [DOMAIN d.routes -> ListsOf(RowsOf(d, h))]
  BY DEF OnCourse, Levels
<1>3. IsStack(d, h, w.profile, w.frames, w.visited, lists, G)
  BY DEF OnCourse
<1> QED
  BY <1>1, <1>2, <1>3 DEF IsStack

LEMMA EnterFailFlat ==
  ASSUME WalkInv, FlatInv, Sound(db), walk.phase = "enter", TooDeepOrCircular(walk), walk.alone
  PROVE  NoList \in Flattening(db, health, walk.profile)[walk.route]
<1> DEFINE k == Len(walk.frames)
           R == RowsOf(db, health)
           path == walk.visited
<1>1. /\ WalkSound(walk, db) /\ FlatSound(walk, db, health) /\ k \in Nat /\ Len(path) = k
      /\ k <= MaxDepth /\ MaxDepth \in Nat
  BY CourseOf
<1>2. PICK lists, G : OnCourse(walk, db, health, lists, G)
  BY CourseOf
<1>3. Levels(db, health, walk.profile, lists) /\ Flattening(db, health, walk.profile) = lists[MaxDepth]
  BY <1>2 DEF OnCourse
<1>4. /\ walk.next \in DOMAIN db.routes /\ (Len(path) > 0 => Edge(db, health, path[Len(path)], walk.next))
      /\ IsPath(db, health, path)
  BY <1>1 DEF FlatSound
<1> HIDE DEF path, k
<1>5. NoList \in lists[MaxDepth - k][walk.next]
  <2>1. CASE k >= MaxDepth
    <3>1. MaxDepth - k = 0
      BY <1>1, <2>1
    <3> QED
      BY <1>3, <1>4, <3>1 DEF Levels
  <2>2. CASE k < MaxDepth
    <3>1. Contains(path, walk.next)
      BY <1>1, <2>2 DEF TooDeepOrCircular, path
    <3>2. PICK i \in 1 .. Len(path) : path[i] = walk.next
      BY <3>1 DEF Contains
    <3> DEFINE V == {path[j] : j \in i .. Len(path)}
    <3>3. ASSUME NEW j \in i .. Len(path)
          PROVE  \E w \in V : Edge(db, health, path[j], w)
      <4>1. CASE j = Len(path)
        <5>1. i \in i .. Len(path) /\ Len(path) > 0
          BY <1>1, <3>2
        <5> QED
          BY <1>4, <3>2, <4>1, <5>1
      <4>2. CASE j < Len(path)
        <5>1. j + 1 \in i .. Len(path) /\ j \in 1 .. Len(path)
          BY <1>1, <3>2, <4>2
        <5> QED
          BY <1>4, <4>2, <5>1 DEF IsPath
      <4> QED
        BY <1>1, <3>3, <4>1, <4>2
    <3>4. \A v \in V : \E w \in V : Edge(db, health, v, w)
      BY <3>3
    <3>5. walk.next \in V
      <4>1. i \in i .. Len(path)
        BY <1>1, <3>2
      <4> QED
        BY <3>2, <4>1
    <3> HIDE DEF V
    <3>6. \A n \in 0 .. MaxDepth : \A v \in V : NoList \in lists[n][v]
      BY <1>3, <3>4, CyclesHaveNone
    <3>7. MaxDepth - k \in 0 .. MaxDepth
      BY <1>1
    <3> QED
      BY <3>5, <3>6, <3>7
  <2> QED
    BY <1>1, <2>1, <2>2
<1>6. lists[MaxDepth - k][walk.next] \in ListsOf(R) /\ G[k] \in ListsOf(R)
  <2>1. k \in 0 .. Len(walk.frames)
    BY <1>1 DEF k
  <2>2. lists[MaxDepth - k] \in [DOMAIN db.routes -> ListsOf(R)] /\ G[k] \in ListsOf(R)
    BY <1>1, <1>2, <2>1, AtDepth DEF k
  <2> QED
    BY <1>4, <2>2
<1>7. NoList \in Due(walk, lists, G)
  <2>1. Due(walk, lists, G) = Joined(lists[MaxDepth - k][walk.next], G[k])
    BY DEF Due, k
  <2>2. NoList \notin Words(R)
    BY NoListIsNoList
  <2> HIDE DEF R
  <2> QED
    BY <1>5, <1>6, <2>1, <2>2, JoinedIs
<1> QED
  BY <1>2, <1>3, <1>7 DEF OnCourse, Leads

LEMMA LeadsLess ==
  ASSUME NEW found, NEW due, NEW less, NEW goal, Leads(found, due, goal), less \subseteq due
  PROVE  Leads(found, less, goal)
BY DEF Leads

(* A frame more on the stack.                                                *)
LEMMA StackGrows ==
  ASSUME NEW d, NEW h, NEW p, NEW frames, NEW path, NEW lists, NEW G,
         IsList(frames), IsList(path), Len(path) = Len(frames),
         IsStack(d, h, p, frames, path, lists, G),
         NEW rows, NEW r, NEW all \in ListsOf(RowsOf(d, h)),
         FrameStands(d, h, p, rows, r, lists[MaxDepth - (Len(frames) + 1)], G[Len(frames)], all)
  PROVE  \E H : /\ IsStack(d, h, p, Append(frames, rows), Append(path, r), lists, H)
                /\ H[Len(frames) + 1] = all
<1> DEFINE k == Len(frames)
           H == [j \in 0 .. k + 1 |-> IF j = k + 1 THEN all ELSE G[j]]
           f == Append(frames, rows)
           q == Append(path, r)
<1>1. /\ k \in Nat /\ Len(f) = k + 1 /\ f[k + 1] = rows /\ \A j \in 1 .. k : f[j] = frames[j]
      /\ q[k + 1] = r /\ \A j \in 1 .. k : q[j] = path[j]
  <2>1. k \in Nat
    BY DEF IsList
  <2>2. Len(f) = k + 1 /\ f[k + 1] = rows /\ \A j \in 1 .. k : f[j] = frames[j]
    BY AppendIsList
  <2>3. q[Len(path) + 1] = r /\ \A j \in 1 .. Len(path) : q[j] = path[j]
    BY AppendIsList
  <2> QED
    BY <2>1, <2>2, <2>3
<1> HIDE DEF f, q, k
<1>2. /\ G \in [0 .. k -> ListsOf(RowsOf(d, h))] /\ G[0] = {<< >>}
      /\ \A j \in 1 .. k : FrameStands(d, h, p, frames[j], path[j], lists[MaxDepth - j], G[j - 1], G[j])
  BY DEF IsStack, k
<1>3. H \in [0 .. k + 1 -> ListsOf(RowsOf(d, h))] /\ H[k + 1] = all /\ \A j \in 0 .. k : H[j] = G[j]
  <2>1. \A j \in 0 .. k + 1 : j = k + 1 \/ j \in 0 .. k
    BY <1>1
  <2>2. k + 1 \in 0 .. k + 1 /\ \A j \in 0 .. k : j \in 0 .. k + 1 /\ j # k + 1
    BY <1>1
  <2> QED
    BY <1>2, <2>1, <2>2
<1> HIDE DEF H
<1>4. ASSUME NEW j \in 1 .. k + 1
      PROVE  FrameStands(d, h, p, f[j], q[j], lists[MaxDepth - j], H[j - 1], H[j])
  <2>1. CASE j = k + 1
    <3>1. j - 1 = k /\ H[k] = G[k]
      BY <1>1, <1>3, <2>1
    <3> QED
      BY <1>1, <1>3, <2>1, <3>1 DEF k
  <2>2. CASE j \in 1 .. k
    <3>1. H[j - 1] = G[j - 1] /\ H[j] = G[j]
      BY <1>1, <1>3, <2>2
    <3> QED
      BY <1>1, <1>2, <2>2, <3>1
  <2> QED
    BY <1>1, <2>1, <2>2
<1>5. H[0] = {<< >>}
  BY <1>1, <1>2, <1>3
<1>6. IsStack(d, h, p, f, q, lists, H)
  BY <1>1, <1>3, <1>4, <1>5 DEF IsStack
<1> QED
  BY <1>3, <1>6 DEF f, q, k

LEMMA PathGrows ==
  ASSUME NEW d, NEW h, NEW path, IsList(path), IsPath(d, h, path), NEW r \in DOMAIN d.routes,
         Len(path) > 0 => Edge(d, h, path[Len(path)], r)
  PROVE  IsPath(d, h, Append(path, r))
<1> DEFINE q == Append(path, r)
           k == Len(path)
<1>1. k \in Nat /\ Len(q) = k + 1 /\ q[k + 1] = r /\ \A j \in 1 .. k : q[j] = path[j]
  BY AppendIsList DEF IsList
<1> HIDE DEF q
<1>2. \A j \in 1 .. k + 1 : j \in 1 .. k \/ j = k + 1
  BY <1>1
<1>3. \A j \in 1 .. k : (j < k /\ j + 1 \in 1 .. k) \/ (j = k /\ k > 0)
  BY <1>1
<1>4. \A j \in 1 .. k : Edge(d, h, q[j], q[j + 1])
  BY <1>1, <1>3 DEF IsPath
<1> QED
  BY <1>1, <1>2, <1>4 DEF IsPath, q

LEMMA EnterFlat ==
  ASSUME WalkInv, FlatInv, Sound(db), Enter
  PROVE  FlatInv'
<1>1. walk.phase = "enter"
  BY DEF Enter
<1>2. CASE TooDeepOrCircular(walk) /\ Fail
  BY <1>1, <1>2, EnterFailFlat, FailFlat
<1>3. ASSUME ~TooDeepOrCircular(walk), NEW chain \in RouteEntries(db, walk.next),
             Walk([walk EXCEPT !.phase = "chain", !.visited = Append(@, walk.next),
                               !.frames = Append(@, RowsRead(db, health, chain))])
      PROVE  FlatInv'
  <2> DEFINE rows == RowsRead(db, health, chain)
             w == [walk EXCEPT !.phase = "chain", !.visited = Append(@, walk.next),
                               !.frames = Append(@, rows)]
             p == walk.profile
             k == Len(walk.frames)
             R == RowsOf(db, health)
  <2>1. Shape(walk)
    BY <1>1, UnderWay DEF WalkSound
  <2>2. /\ w.phase = "chain" /\ w.frames = Append(walk.frames, rows)
        /\ w.visited = Append(walk.visited, walk.next)
        /\ w.found = walk.found /\ w.profile = p /\ w.alone = walk.alone /\ w.route = walk.route
    BY <2>1 DEF Shape
  <2> HIDE DEF w
  <2> SUFFICES ASSUME walk.alone
               PROVE  FlatSound(w, db, health)
    BY <1>3, <2>2, FlatKeeps DEF w
  <2>3. /\ WalkSound(walk, db) /\ FlatSound(walk, db, health) /\ k \in Nat /\ Len(walk.visited) = k
        /\ k <= MaxDepth /\ MaxDepth \in Nat
    BY <1>1, CourseOf
  <2>4. PICK lists, G : OnCourse(walk, db, health, lists, G)
    BY <1>1, CourseOf
  <2>5. Levels(db, health, p, lists) /\ IsStack(db, health, p, walk.frames, walk.visited, lists, G)
    BY <2>4 DEF OnCourse
  <2>6. /\ walk.next \in DOMAIN db.routes /\ IsPath(db, health, walk.visited)
        /\ Len(walk.visited) > 0 => Edge(db, health, walk.visited[Len(walk.visited)], walk.next)
    BY <1>1, <2>3 DEF FlatSound
  <2> DEFINE n == MaxDepth - k
             nested == lists[MaxDepth - (k + 1)]
  <2> HIDE DEF k, rows
  <2>7. n \in 1 .. MaxDepth /\ n - 1 = MaxDepth - (k + 1) /\ n - 1 \in 0 .. MaxDepth
    BY <1>3, <2>3 DEF TooDeepOrCircular
  <2>8. lists[n] = Stands(db, health, p, nested) /\ nested \in [DOMAIN db.routes -> ListsOf(R)]
    BY <2>5, <2>7 DEF Levels
  <2>9. G[k] \in ListsOf(R)
    <3>1. k \in 0 .. Len(walk.frames)
      BY <2>3 DEF k
    <3> QED
      BY <2>3, <2>4, <3>1, AtDepth DEF k
  <2> HIDE DEF nested, n
  <2>10. PICK all : /\ FrameStands(db, health, p, rows, walk.next, nested, G[k], all)
                    /\ all \in ListsOf(R)
                    /\ all \subseteq Joined(Stands(db, health, p, nested)[walk.next], G[k])
    BY <2>6, <2>8, <2>9, FramePush DEF rows
  <2>11. PICK H : /\ IsStack(db, health, p, w.frames, w.visited, lists, H)
                  /\ H[k + 1] = all
    <3>1. FrameStands(db, health, p, rows, walk.next, lists[MaxDepth - (Len(walk.frames) + 1)],
                      G[Len(walk.frames)], all)
      BY <2>10 DEF nested, k
    <3>2. IsList(walk.frames) /\ IsList(walk.visited) /\ Len(walk.visited) = Len(walk.frames)
      BY <2>3 DEF WalkSound, k
    <3> HIDE DEF R
    <3>3. PICK H : /\ IsStack(db, health, p, Append(walk.frames, rows), Append(walk.visited, walk.next), lists, H)
                   /\ H[Len(walk.frames) + 1] = all
      BY <2>5, <2>10, <3>1, <3>2, StackGrows DEF R
    <3> QED
      BY <2>2, <3>3 DEF k
  <2>12. Len(w.frames) = k + 1
    <3>1. IsList(walk.frames)
      BY <2>3 DEF WalkSound
    <3> QED
      BY <2>2, <3>1, AppendIsList DEF k
  <2>13. Leads(w.found, Due(w, lists, H), lists[MaxDepth][w.route])
    <3>1. Due(w, lists, H) = all
      BY <2>2, <2>11, <2>12 DEF Due
    <3>2. Due(walk, lists, G) = Joined(lists[n][walk.next], G[k])
      BY <1>1 DEF Due, n, k
    <3>3. Leads(walk.found, Due(walk, lists, G), lists[MaxDepth][walk.route])
      BY <2>4 DEF OnCourse
    <3> QED
      BY <2>2, <2>8, <2>10, <3>1, <3>2, <3>3, LeadsLess
  <2>14. OnCourse(w, db, health, lists, H)
    BY <2>2, <2>4, <2>11, <2>13 DEF OnCourse
  <2>15. IsPath(db, health, w.visited)
    BY <2>2, <2>3, <2>6, PathGrows DEF WalkSound
  <2>16. walk.route \in DOMAIN db.routes /\ walk.found \in Words(R)
    BY <1>1, <2>3 DEF FlatSound
  <2> QED
    BY <2>2, <2>14, <2>15, <2>16 DEF FlatSound
<1> QED
  BY <1>2, <1>3 DEF Enter

(* The stack with another frame on its top.                                  *)
OnTop(frames, rows) == [frames EXCEPT ![Len(frames)] = rows]

(* The stack without the row read.                                           *)
LEMMA StackRests ==
  ASSUME NEW d, NEW h, NEW p, NEW frames, NEW path, NEW lists, NEW G,
         IsList(frames), Len(frames) > 0,
         IsStack(d, h, p, frames, path, lists, G),
         NEW rows, NEW rest \in ListsOf(RowsOf(d, h)),
         FrameStands(d, h, p, rows, path[Len(frames)], lists[MaxDepth - Len(frames)],
                     G[Len(frames) - 1], rest)
  PROVE  \E H : IsStack(d, h, p, OnTop(frames, rows), path, lists, H) /\ H[Len(frames)] = rest
<1> DEFINE k == Len(frames)
           f == [frames EXCEPT ![k] = rows]
           H == [j \in 0 .. k |-> IF j = k THEN rest ELSE G[j]]
<1>1. /\ k \in Nat /\ k > 0 /\ Len(f) = k /\ f[k] = rows /\ \A j \in 1 .. k : j # k => f[j] = frames[j]
  <2>1. k \in Nat /\ DOMAIN frames = 1 .. k
    BY DEF IsList
  <2>2. Len(f) = k
    BY ReplaceIsList
  <2> QED
    BY <2>1, <2>2
<1> HIDE DEF f, k
<1>2. /\ G \in [0 .. k -> ListsOf(RowsOf(d, h))] /\ G[0] = {<< >>}
      /\ \A j \in 1 .. k : FrameStands(d, h, p, frames[j], path[j], lists[MaxDepth - j], G[j - 1], G[j])
  BY DEF IsStack, k
<1>3. H \in [0 .. k -> ListsOf(RowsOf(d, h))] /\ H[k] = rest /\ \A j \in 0 .. k - 1 : H[j] = G[j]
  BY <1>1, <1>2
<1> HIDE DEF H
<1>4. ASSUME NEW j \in 1 .. k
      PROVE  FrameStands(d, h, p, f[j], path[j], lists[MaxDepth - j], H[j - 1], H[j])
  <2>1. H[j - 1] = G[j - 1]
    BY <1>1, <1>3
  <2>2. CASE j = k
    BY <1>1, <1>3, <2>1, <2>2 DEF k
  <2>3. CASE j # k
    <3>1. H[j] = G[j]
      BY <1>1, <1>3, <2>3
    <3> QED
      BY <1>1, <1>2, <2>1, <2>3, <3>1
  <2> QED
    BY <2>2, <2>3
<1>5. H[0] = {<< >>}
  BY <1>1, <1>2, <1>3
<1>6. IsStack(d, h, p, f, path, lists, H)
  BY <1>1, <1>3, <1>4, <1>5 DEF IsStack
<1> QED
  BY <1>3, <1>6 DEF f, k, OnTop

(* What is due begins with what the next row stands for.                     *)
LEMMA TopRead ==
  ASSUME NEW w, NEW d, NEW h, NEW lists, NEW G, Sound(d), OnCourse(w, d, h, lists, G),
         IsList(w.frames), Len(w.frames) > 0, Len(w.frames) <= MaxDepth, w.phase # "enter",
         w.frames[Len(w.frames)] # << >>
  PROVE  /\ HeadOf(w).entry \in DOMAIN d.entries /\ IsUp(h, HeadOf(w).entry)
         /\ HeadOf(w) = RowRead(d, h, HeadOf(w).entry) /\ HeadOf(w) \in RowsOf(d, h)
         /\ \E chain \in RouteEntries(d, w.visited[Len(w.frames)]) : \E i \in DOMAIN chain :
              HeadOf(w).entry = chain[i]
         /\ \E H, rest : /\ rest \in ListsOf(RowsOf(d, h)) /\ H[Len(w.frames)] = rest
                         /\ IsStack(d, h, w.profile, [w.frames EXCEPT ![Len(w.frames)] = Tail(@)],
                                    w.visited, lists, H)
                         /\ Due(w, lists, G) =
                              Joined(Piece(d, h, w.profile, lists[MaxDepth - Len(w.frames)], HeadOf(w).entry), rest)
                         /\ Piece(d, h, w.profile, lists[MaxDepth - Len(w.frames)], HeadOf(w).entry)
                              \in ListsOf(RowsOf(d, h))
<1> DEFINE k == Len(w.frames)
           rows == w.frames[k]
           nested == lists[MaxDepth - k]
           r == w.visited[k]
           p == w.profile
<1>1. k \in Nat /\ k > 0 /\ k <= MaxDepth /\ MaxDepth \in Nat /\ k \in 0 .. k /\ k \in 1 .. k
  BY GraphAssumption DEF IsList
<1>2. /\ nested \in [DOMAIN d.routes -> ListsOf(RowsOf(d, h))]
      /\ FrameStands(d, h, p, rows, r, nested, G[k - 1], G[k])
  BY <1>1, AtDepth
<1>3. /\ Head(rows) = rows[1] /\ 1 \in DOMAIN rows
      /\ \E rest : /\ FrameStands(d, h, p, Tail(rows), r, nested, G[k - 1], rest)
                   /\ rest \in ListsOf(RowsOf(d, h))
                   /\ G[k] = Joined(Piece(d, h, p, nested, Head(rows).entry), rest)
  <2> HIDE DEF nested, r, k, p
  <2> QED
    BY <1>2, FrameRest DEF k
<1>4. PICK rest : /\ FrameStands(d, h, p, Tail(rows), r, nested, G[k - 1], rest)
                  /\ rest \in ListsOf(RowsOf(d, h))
                  /\ G[k] = Joined(Piece(d, h, p, nested, Head(rows).entry), rest)
  BY <1>3
<1>5. FromChain(d, h, rows, r)
  BY <1>2 DEF FrameStands
<1>6. /\ Head(rows).entry \in DOMAIN d.entries /\ IsUp(h, Head(rows).entry)
      /\ Head(rows) = RowRead(d, h, Head(rows).entry) /\ Head(rows) \in RowsOf(d, h)
      /\ Piece(d, h, p, nested, Head(rows).entry) \in ListsOf(RowsOf(d, h))
  <2> HIDE DEF nested, r, rows, p
  <2>1. /\ rows[1].entry \in DOMAIN d.entries /\ IsUp(h, rows[1].entry)
        /\ rows[1] = RowRead(d, h, rows[1].entry) /\ rows[1] \in RowsOf(d, h)
        /\ Piece(d, h, p, nested, rows[1].entry) \in ListsOf(RowsOf(d, h))
    BY <1>2, <1>3, <1>5, PiecesAreLists
  <2> QED
    BY <1>3, <2>1
<1>7. \E chain \in RouteEntries(d, r) : \E i \in DOMAIN chain : Head(rows).entry = chain[i]
  <2> HIDE DEF rows, r
  <2> QED
    BY <1>3, <1>5 DEF FromChain, RowRead
<1>8. \E H : /\ IsStack(d, h, p, [w.frames EXCEPT ![k] = Tail(rows)], w.visited, lists, H)
             /\ H[k] = rest
  <2> DEFINE frames == w.frames
             path == w.visited
             t == Tail(rows)
  <2>1. IsStack(d, h, p, frames, path, lists, G) /\ IsList(frames) /\ Len(frames) > 0
    BY DEF OnCourse
  <2>2. FrameStands(d, h, p, t, path[Len(frames)], lists[MaxDepth - Len(frames)], G[Len(frames) - 1], rest)
    BY <1>4
  <2>3. rest \in ListsOf(RowsOf(d, h))
    BY <1>4
  <2>4. k = Len(frames)
    OBVIOUS
  <2> HIDE DEF frames, path, t, p, k, rows, nested, r
  <2>5. \E H : IsStack(d, h, p, OnTop(frames, t), path, lists, H) /\ H[Len(frames)] = rest
    BY <2>1, <2>2, <2>3, StackRests
  <2> QED
    BY <2>4, <2>5 DEF frames, path, t, OnTop
<1>9. Due(w, lists, G) = G[k]
  BY DEF Due
<1>10. [w.frames EXCEPT ![k] = Tail(rows)] = [w.frames EXCEPT ![k] = Tail(@)]
  OBVIOUS
<1> QED
  BY <1>4, <1>6, <1>7, <1>8, <1>9, <1>10 DEF HeadOf

(* A row that stands for no list, and one that stands for itself.            *)
LEMMA NoneDue ==
  ASSUME NEW d, NEW h, NEW found, NEW rest \in ListsOf(RowsOf(d, h)), NEW goal,
         Leads(found, Joined({NoList}, rest), goal)
  PROVE  NoList \in goal
<1>1. {NoList} \in ListsOf(RowsOf(d, h)) /\ NoList \notin Words(RowsOf(d, h))
  BY NoListIsNoList DEF ListsOf
<1>2. NoList \in Joined({NoList}, rest)
  BY <1>1, JoinedIs
<1> QED
  BY <1>2 DEF Leads

LEMMA RowDue ==
  ASSUME NEW d, NEW h, NEW found \in Words(RowsOf(d, h)), NEW rest \in ListsOf(RowsOf(d, h)),
         NEW goal, NEW row \in RowsOf(d, h),
         Leads(found, Joined({<<row>>}, rest), goal)
  PROVE  Append(found, row) \in Words(RowsOf(d, h)) /\ Leads(Append(found, row), rest, goal)
<1> DEFINE R == RowsOf(d, h)
<1>1. <<row>> \in Words(R) /\ Append(found, row) = Glue(found, <<row>>) /\ Append(found, row) \in Words(R)
  BY DEF Words, Glue
<1>2. {<<row>>} \in ListsOf(R) /\ NoList \notin Words(R)
  BY <1>1, NoListIsNoList DEF ListsOf
<1> HIDE DEF R
<1>3. ASSUME NEW t \in rest, t # NoList
      PROVE  Glue(Append(found, row), t) \in goal
  <2>1. t \in Words(R)
    BY <1>3 DEF ListsOf, R
  <2>2. rest \in ListsOf(R) /\ found \in Words(R)
    BY DEF R
  <2>3. Glue(<<row>>, t) \in Joined({<<row>>}, rest) /\ Glue(<<row>>, t) \in Words(R)
    BY <1>1, <1>2, <1>3, <2>1, <2>2, JoinedIs
  <2>4. Glue(<<row>>, t) # NoList
    BY <1>2, <2>3
  <2>5. Glue(found, Glue(<<row>>, t)) \in goal
    BY <2>3, <2>4 DEF Leads
  <2> QED
    BY <1>1, <2>1, <2>2, <2>5, WordsJoin
<1>4. NoList \in rest => NoList \in goal
  <2>1. rest \in ListsOf(R)
    BY DEF R
  <2> QED
    BY <1>2, <2>1, JoinedIs DEF Leads
<1> QED
  BY <1>1, <1>3, <1>4 DEF Leads, R

LEMMA LeafFlat ==
  ASSUME WalkInv, FlatInv, Sound(db), Leaf
  PROVE  FlatInv'
<1> DEFINE p == walk.profile
           k == Len(walk.frames)
           R == RowsOf(db, health)
           row == HeadOf(walk)
<1>1. walk.phase = "chain" /\ walk.phase # "idle" /\ Top # << >> /\ row.provider # None
      /\ Top = walk.frames[k] /\ Head(Top) = row
  BY DEF Leaf, Top, Last, HeadOf
<1>2. WalkSound(walk, db) /\ IsList(walk.frames)
  BY <1>1, UnderWay DEF WalkSound
<1>3. ASSUME walk.alone
      PROVE  /\ row \in RowsOf(db, health) /\ k \in Nat /\ k > 0
             /\ walk.route \in DOMAIN db.routes /\ walk.found \in Words(R) /\ IsPath(db, health, walk.visited)
             /\ \E lists, G, H, rest :
                  /\ OnCourse(walk, db, health, lists, G)
                  /\ rest \in ListsOf(RowsOf(db, health)) /\ H[k] = rest
                  /\ IsStack(db, health, p, [walk.frames EXCEPT ![k] = Tail(@)], walk.visited, lists, H)
                  /\ Due(walk, lists, G) =
                       Joined(IF Usable(db, p, row.provider) THEN {<<row>>} ELSE {NoList}, rest)
  <2>1. /\ FlatSound(walk, db, health) /\ k \in Nat /\ k <= MaxDepth /\ MaxDepth \in Nat /\ k > 0
    BY <1>1, <1>3, CourseOf
  <2>2. PICK lists, G : OnCourse(walk, db, health, lists, G)
    BY <1>1, <1>3, CourseOf
  <2> DEFINE piece == Piece(db, health, p, lists[MaxDepth - k], row.entry)
  <2>3. /\ row.entry \in DOMAIN db.entries /\ IsUp(health, row.entry)
        /\ row = RowRead(db, health, row.entry) /\ row \in RowsOf(db, health)
        /\ \E H, rest : /\ rest \in ListsOf(RowsOf(db, health)) /\ H[k] = rest
                        /\ IsStack(db, health, p, [walk.frames EXCEPT ![k] = Tail(@)], walk.visited, lists, H)
                        /\ Due(walk, lists, G) = Joined(piece, rest)
    <3> HIDE DEF R, row
    <3> QED
      BY <1>1, <1>2, <2>1, <2>2, TopRead DEF row
  <2>4. piece = IF Usable(db, p, row.provider) THEN {<<row>>} ELSE {NoList}
    <3> DEFINE e == db.entries[row.entry]
    <3>1. e.provider = row.provider
      <4> HIDE DEF row
      <4> QED
        BY <2>3 DEF RowRead
    <3>2. e.target = None
      <4> HIDE DEF row
      <4>1. Legal(db, "entries", row.entry, e)
        BY <2>3 DEF Sound, Consistent, Tables
      <4> QED
        BY <1>1, <3>1, <4>1 DEF Legal
    <3> HIDE DEF row
    <3> QED
      BY <2>3, <3>1, <3>2 DEF Piece
  <2>5. walk.route \in DOMAIN db.routes /\ walk.found \in Words(R) /\ IsPath(db, health, walk.visited)
    BY <1>1, <2>1 DEF FlatSound
  <2> HIDE DEF piece, row, R
  <2> QED
    BY <2>1, <2>2, <2>3, <2>4, <2>5
<1>4. CASE ~Usable(db, p, row.provider) /\ Fail
  <2>1. ASSUME walk.alone
        PROVE  NoList \in Flattening(db, health, p)[walk.route]
    <3> HIDE DEF row
    <3>1. PICK lists, G, H, rest :
            /\ OnCourse(walk, db, health, lists, G)
            /\ rest \in ListsOf(RowsOf(db, health))
            /\ Due(walk, lists, G) = Joined({NoList}, rest)
      BY <1>3, <1>4, <2>1
    <3>2. NoList \in lists[MaxDepth][walk.route]
      BY <3>1, NoneDue DEF OnCourse
    <3> QED
      BY <3>1, <3>2 DEF OnCourse
  <2> QED
    BY <1>1, <1>4, <2>1, FailFlat
<1>5. CASE /\ Usable(db, p, row.provider)
           /\ Walk([Rest(walk) EXCEPT !.found = Append(@, Head(Top))])
  <2> DEFINE u == Rest(walk)
             w == [u EXCEPT !.found = Append(@, Head(Top))]
  <2>1. Shape(walk) /\ walk.frames # << >>
    BY <1>1, <1>2 DEF WalkSound, PhaseSound
  <2>2. /\ Shape(u) /\ Len(u.frames) = k /\ u.phase = walk.phase /\ u.profile = walk.profile
        /\ u.visited = walk.visited /\ u.found = walk.found
    BY <1>2, <2>1, RestKeepsShape
  <2>3. u.frames = [walk.frames EXCEPT ![k] = Tail(@)] /\ u.alone = walk.alone /\ u.route = walk.route
    BY <2>1 DEF Rest, Shape
  <2> HIDE DEF u
  <2>4. /\ w.phase = "chain" /\ w.profile = p /\ w.visited = walk.visited /\ w.alone = walk.alone
        /\ w.route = walk.route /\ w.frames = u.frames /\ w.found = Append(walk.found, Head(Top))
    BY <1>1, <2>2, <2>3 DEF Shape
  <2> HIDE DEF w
  <2> SUFFICES ASSUME walk.alone PROVE FlatSound(w, db, health)
    BY <1>5, <2>4, FlatKeeps DEF w, u
  <2> HIDE DEF row
  <2>5. PICK lists, G, H, rest :
          /\ OnCourse(walk, db, health, lists, G)
          /\ rest \in ListsOf(RowsOf(db, health)) /\ H[k] = rest
          /\ IsStack(db, health, p, [walk.frames EXCEPT ![k] = Tail(@)], walk.visited, lists, H)
          /\ Due(walk, lists, G) = Joined({<<row>>}, rest)
    BY <1>3, <1>5
  <2>6. w.found \in Words(R) /\ Leads(w.found, rest, lists[MaxDepth][walk.route])
    <3>1. Leads(walk.found, Joined({<<row>>}, rest), lists[MaxDepth][walk.route])
      BY <2>5 DEF OnCourse
    <3>2. w.found = Append(walk.found, row)
      BY <1>1, <2>4
    <3>3. row \in RowsOf(db, health) /\ walk.found \in Words(RowsOf(db, health))
      BY <1>3
    <3> QED
      BY <2>5, <3>1, <3>2, <3>3, RowDue
  <2>7. Due(w, lists, H) = rest
    BY <2>2, <2>4, <2>5 DEF Due
  <2>8. IsStack(db, health, p, w.frames, w.visited, lists, H)
    BY <2>3, <2>4, <2>5
  <2>9. OnCourse(w, db, health, lists, H)
    BY <2>4, <2>5, <2>6, <2>7, <2>8 DEF OnCourse
  <2>10. walk.route \in DOMAIN db.routes /\ IsPath(db, health, walk.visited)
    BY <1>3
  <2> QED
    BY <2>4, <2>6, <2>9, <2>10 DEF FlatSound
<1> QED
  BY <1>1, <1>4, <1>5 DEF Leaf

(* A row that nests a route, and what it stands for.                         *)
LEMMA TargetDue ==
  ASSUME WalkInv, FlatInv, Sound(db), walk.alone, walk.phase \in {"chain", "shared"},
         walk.frames[Len(walk.frames)] # << >>, HeadOf(walk).target # None
  PROVE  /\ Edge(db, health, walk.visited[Len(walk.frames)], HeadOf(walk).target)
         /\ \E lists, G, H, rest :
              /\ OnCourse(walk, db, health, lists, G)
              /\ rest \in ListsOf(RowsOf(db, health)) /\ H[Len(walk.frames)] = rest
              /\ IsStack(db, health, walk.profile, [walk.frames EXCEPT ![Len(walk.frames)] = Tail(@)],
                         walk.visited, lists, H)
              /\ Due(walk, lists, G) =
                   Joined(IF Enterable(db, walk.profile, HeadOf(walk).target)
                          THEN lists[MaxDepth - Len(walk.frames)][HeadOf(walk).target] ELSE {NoList}, rest)
<1> DEFINE p == walk.profile
           k == Len(walk.frames)
           row == HeadOf(walk)
<1>1. /\ WalkSound(walk, db) /\ FlatSound(walk, db, health) /\ k \in Nat /\ k <= MaxDepth
      /\ MaxDepth \in Nat /\ k > 0 /\ Len(walk.visited) = k /\ IsList(walk.frames)
  BY CourseOf DEF WalkSound
<1>2. PICK lists, G : OnCourse(walk, db, health, lists, G)
  BY CourseOf
<1> DEFINE piece == Piece(db, health, p, lists[MaxDepth - k], row.entry)
<1>3. /\ row.entry \in DOMAIN db.entries /\ IsUp(health, row.entry)
      /\ row = RowRead(db, health, row.entry)
      /\ \E chain \in RouteEntries(db, walk.visited[k]) : \E i \in DOMAIN chain : row.entry = chain[i]
      /\ \E H, rest : /\ rest \in ListsOf(RowsOf(db, health)) /\ H[k] = rest
                      /\ IsStack(db, health, p, [walk.frames EXCEPT ![k] = Tail(@)], walk.visited, lists, H)
                      /\ Due(walk, lists, G) = Joined(piece, rest)
  <2> HIDE DEF row
  <2> QED
    BY <1>1, <1>2, TopRead DEF row
<1>4. db.entries[row.entry].target = row.target /\ row.target # None
  <2> HIDE DEF row
  <2> QED
    BY <1>3 DEF RowRead, row
<1>5. piece = IF Enterable(db, p, row.target) THEN lists[MaxDepth - k][row.target] ELSE {NoList}
  <2> HIDE DEF row
  <2> QED
    BY <1>3, <1>4 DEF Piece
<1>6. walk.visited[k] \in DOMAIN db.routes
  <2>1. IsPath(db, health, walk.visited) /\ k \in 1 .. Len(walk.visited)
    BY <1>1 DEF FlatSound
  <2> QED
    BY <2>1 DEF IsPath
<1>7. Edge(db, health, walk.visited[k], row.target)
  <2> HIDE DEF row, k
  <2> QED
    BY <1>3, <1>4, <1>6 DEF Edge
<1> HIDE DEF piece
<1> QED
  BY <1>2, <1>3, <1>5, <1>7

(* A nested route that may not be entered: no list.                          *)
LEMMA TargetRefused ==
  ASSUME WalkInv, FlatInv, Sound(db), walk.alone, walk.phase \in {"chain", "shared"},
         walk.frames[Len(walk.frames)] # << >>, HeadOf(walk).target # None,
         ~Enterable(db, walk.profile, HeadOf(walk).target)
  PROVE  NoList \in Flattening(db, health, walk.profile)[walk.route]
<1>1. PICK lists, G, H, rest :
        /\ OnCourse(walk, db, health, lists, G)
        /\ rest \in ListsOf(RowsOf(db, health))
        /\ Due(walk, lists, G) = Joined({NoList}, rest)
  BY TargetDue
<1>2. NoList \in lists[MaxDepth][walk.route]
  BY <1>1, NoneDue DEF OnCourse
<1> QED
  BY <1>1, <1>2 DEF OnCourse

LEMMA NestedOwnerFlat ==
  ASSUME WalkInv, FlatInv, Sound(db), NestedOwner
  PROVE  FlatInv'
<1> DEFINE k == Len(walk.frames)
           t == HeadOf(walk).target
<1>1. /\ walk.phase = "chain" /\ walk.phase # "idle" /\ walk.frames[k] # << >> /\ t # None
      /\ Head(Top) = HeadOf(walk)
  BY DEF NestedOwner, Top, Last, HeadOf
<1>2. CASE t \notin DOMAIN db.routes /\ Fail
  <2>1. ~Enterable(db, walk.profile, t)
    BY <1>2 DEF Enterable
  <2> QED
    BY <1>1, <1>2, <2>1, TargetRefused, FailFlat
<1>3. CASE /\ t \in DOMAIN db.routes
           /\ Walk([walk EXCEPT !.phase = "shared", !.next = <<t, RouteOwnerProfile(db, t)>>])
  <2> DEFINE w == [walk EXCEPT !.phase = "shared", !.next = <<t, RouteOwnerProfile(db, t)>>]
  <2> HIDE DEF t
  <2>1. Shape(walk)
    BY <1>1, UnderWay DEF WalkSound
  <2>2. /\ w.phase = "shared" /\ w.frames = walk.frames /\ w.visited = walk.visited
        /\ w.found = walk.found /\ w.profile = walk.profile /\ w.alone = walk.alone
        /\ w.route = walk.route /\ w.next = <<t, RouteOwnerProfile(db, t)>>
    BY <2>1 DEF Shape
  <2> HIDE DEF w
  <2> SUFFICES ASSUME walk.alone PROVE FlatSound(w, db, health)
    BY <1>3, <2>2, FlatKeeps DEF w
  <2>3. FlatSound(walk, db, health)
    BY <1>1, CourseOf
  <2>4. PICK lists, G : OnCourse(walk, db, health, lists, G)
    BY <1>1, CourseOf
  <2>5. Due(w, lists, G) = Due(walk, lists, G)
    BY <1>1, <2>2 DEF Due
  <2>6. OnCourse(w, db, health, lists, G)
    BY <2>2, <2>4, <2>5 DEF OnCourse
  <2>7. HeadOf(w) = HeadOf(walk)
    BY <2>2 DEF HeadOf
  <2>8. w.next = <<HeadOf(w).target, RouteOwnerProfile(db, HeadOf(w).target)>>
    BY <2>2, <2>7 DEF t
  <2>9. /\ w.frames[Len(w.frames)] # << >> /\ HeadOf(w).target # None
        /\ HeadOf(w).target \in DOMAIN db.routes
    BY <1>1, <1>3, <2>2, <2>7 DEF t
  <2>10. /\ walk.route \in DOMAIN db.routes /\ walk.found \in Words(RowsOf(db, health))
         /\ IsPath(db, health, walk.visited)
    BY <1>1, <2>3 DEF FlatSound
  <2> QED
    BY <2>2, <2>6, <2>8, <2>9, <2>10 DEF FlatSound
<1> QED
  BY <1>1, <1>2, <1>3 DEF NestedOwner

LEMMA NestedSharedFlat ==
  ASSUME WalkInv, FlatInv, Sound(db), NestedShared
  PROVE  FlatInv'
<1> DEFINE p == walk.profile
           k == Len(walk.frames)
           t == walk.next[1]
           R == RowsOf(db, health)
<1>1. walk.phase = "shared" /\ walk.phase # "idle" /\ walk # Resting
  BY DEF NestedShared, Resting
<1>2. WalkSound(walk, db) /\ IsList(walk.frames) /\ Shape(walk)
  BY <1>1, UnderWay DEF WalkSound
<1>3. ASSUME walk.alone
      PROVE  /\ walk.frames[k] # << >> /\ HeadOf(walk).target # None /\ HeadOf(walk).target = t
             /\ t \in DOMAIN db.routes /\ walk.next[2] = RouteOwnerProfile(db, t)
             /\ FlatSound(walk, db, health)
  <2>1. FlatSound(walk, db, health)
    BY <1>1, <1>3 DEF FlatInv
  <2> QED
    BY <1>1, <2>1 DEF FlatSound
<1> DEFINE shared == t \in DOMAIN db.routes /\ db.routes[t].shared
<1>4. CASE ~(shared \/ walk.next[2] = p) /\ Fail
  <2>1. walk.alone => ~Enterable(db, p, HeadOf(walk).target)
    <3> HIDE DEF t
    <3> QED
      BY <1>3, <1>4 DEF Enterable
  <2>2. walk.alone => NoList \in Flattening(db, health, p)[walk.route]
    BY <1>1, <1>3, <2>1, TargetRefused
  <2> QED
    BY <1>1, <1>4, <2>2, FailFlat
<1>5. CASE /\ shared \/ walk.next[2] = p
           /\ Walk([Rest(walk) EXCEPT !.phase = "enter", !.next = t])
  <2> DEFINE u == Rest(walk)
             w == [u EXCEPT !.phase = "enter", !.next = t]
  <2> HIDE DEF t
  <2>1. walk.frames # << >>
    BY <1>1, <1>2 DEF WalkSound, PhaseSound
  <2>2. /\ Shape(u) /\ Len(u.frames) = k /\ u.profile = walk.profile
        /\ u.visited = walk.visited /\ u.found = walk.found
    BY <1>2, <2>1, RestKeepsShape
  <2>3. u.frames = [walk.frames EXCEPT ![k] = Tail(@)] /\ u.alone = walk.alone /\ u.route = walk.route
    BY <1>2 DEF Rest, Shape
  <2> HIDE DEF u
  <2>4. /\ w.phase = "enter" /\ w.profile = p /\ w.visited = walk.visited /\ w.alone = walk.alone
        /\ w.route = walk.route /\ w.frames = u.frames /\ w.found = walk.found /\ w.next = t
    BY <2>2, <2>3 DEF Shape
  <2> HIDE DEF w
  <2> SUFFICES ASSUME walk.alone PROVE FlatSound(w, db, health)
    BY <1>5, <2>4, FlatKeeps DEF w, u, t
  <2>5. Enterable(db, p, t)
    BY <1>3, <1>5 DEF Enterable, t
  <2>6. /\ Edge(db, health, walk.visited[k], t)
        /\ \E lists, G, H, rest :
             /\ OnCourse(walk, db, health, lists, G)
             /\ rest \in ListsOf(R) /\ H[k] = rest
             /\ IsStack(db, health, p, [walk.frames EXCEPT ![k] = Tail(@)], walk.visited, lists, H)
             /\ Due(walk, lists, G) =
                  Joined(IF Enterable(db, p, t) THEN lists[MaxDepth - k][t] ELSE {NoList}, rest)
    <3>1. HeadOf(walk).target = t /\ walk.frames[k] # << >> /\ t # None
      BY <1>3 DEF t
    <3> QED
      BY <1>1, <3>1, TargetDue
  <2>7. PICK lists, G, H, rest :
          /\ OnCourse(walk, db, health, lists, G)
          /\ rest \in ListsOf(R) /\ H[k] = rest
          /\ IsStack(db, health, p, [walk.frames EXCEPT ![k] = Tail(@)], walk.visited, lists, H)
          /\ Due(walk, lists, G) = Joined(lists[MaxDepth - k][t], rest)
    BY <2>5, <2>6
  <2>8. Due(w, lists, H) = Due(walk, lists, G)
    BY <2>2, <2>4, <2>7 DEF Due
  <2>9. IsStack(db, health, p, w.frames, w.visited, lists, H)
    BY <2>3, <2>4, <2>7
  <2>10. OnCourse(w, db, health, lists, H)
    BY <2>4, <2>7, <2>8, <2>9 DEF OnCourse
  <2>11. /\ walk.route \in DOMAIN db.routes /\ walk.found \in Words(R) /\ IsPath(db, health, walk.visited)
    BY <1>1, <1>3 DEF FlatSound
  <2>12. Len(walk.visited) = k
    BY <1>1, CourseOf
  <2>13. t \in DOMAIN db.routes
    BY <1>3 DEF t
  <2>14. Edge(db, health, w.visited[Len(w.visited)], w.next)
    BY <2>4, <2>6, <2>12
  <2> QED
    BY <2>4, <2>10, <2>11, <2>13, <2>14 DEF FlatSound
<1> QED
  BY <1>4, <1>5 DEF NestedShared

(* A frame less on the stack: it stands for what the one below does.         *)
LEMMA LeaveFlat ==
  ASSUME WalkInv, FlatInv, Sound(db), Leave
  PROVE  FlatInv'
<1> DEFINE w == [walk EXCEPT !.frames = Front(@), !.visited = Front(@)]
           k == Len(walk.frames)
           p == walk.profile
           R == RowsOf(db, health)
<1>1. walk.phase = "chain" /\ k > 1 /\ walk.frames[k] = << >> /\ Walk(w) /\ walk.phase # "idle"
  BY DEF Leave, Top, Last
<1>2. WalkSound(walk, db) /\ Shape(walk)
  BY <1>1, UnderWay DEF WalkSound
<1>3. /\ w.phase = "chain" /\ w.frames = Front(walk.frames) /\ w.visited = Front(walk.visited)
      /\ w.profile = walk.profile /\ w.found = walk.found /\ w.alone = walk.alone /\ w.route = walk.route
  BY <1>1, <1>2 DEF Shape
<1> HIDE DEF w
<1> SUFFICES ASSUME walk.alone PROVE FlatSound(w, db, health)
  BY <1>1, <1>3, FlatKeeps
<1>4. /\ FlatSound(walk, db, health) /\ k \in Nat /\ Len(walk.visited) = k /\ k <= MaxDepth /\ MaxDepth \in Nat
  BY <1>1, CourseOf
<1>5. PICK lists, G : OnCourse(walk, db, health, lists, G)
  BY <1>1, CourseOf
<1>6. /\ IsList(w.frames) /\ Len(w.frames) = k - 1 /\ \A j \in 1 .. k - 1 : w.frames[j] = walk.frames[j]
      /\ IsList(w.visited) /\ Len(w.visited) = k - 1 /\ \A j \in 1 .. k - 1 : w.visited[j] = walk.visited[j]
  <2>1. IsList(walk.frames) /\ IsList(walk.visited) /\ walk.frames # << >> /\ walk.visited # << >>
    BY <1>1, <1>2, <1>4, NotEmpty DEF WalkSound
  <2> HIDE DEF k
  <2>2. /\ IsList(w.frames) /\ Len(w.frames) = Len(walk.frames) - 1
        /\ \A j \in 1 .. Len(walk.frames) - 1 : w.frames[j] = walk.frames[j]
    BY <1>3, <2>1, FrontIsList
  <2>3. /\ IsList(w.visited) /\ Len(w.visited) = Len(walk.visited) - 1
        /\ \A j \in 1 .. Len(walk.visited) - 1 : w.visited[j] = walk.visited[j]
    BY <1>3, <2>1, FrontIsList
  <2> QED
    BY <1>4, <2>2, <2>3 DEF k
<1> HIDE DEF k
<1> DEFINE H == [j \in 0 .. k - 1 |-> G[j]]
<1>7. /\ Len(walk.frames) \in Nat /\ Len(walk.frames) <= MaxDepth /\ walk.frames[k] = << >>
  BY <1>1, <1>4 DEF k
<1>8. /\ \A j \in 0 .. k : G[j] \in ListsOf(R)
      /\ G[0] = {<< >>}
      /\ \A j \in 1 .. k :
           FrameStands(db, health, p, walk.frames[j], walk.visited[j], lists[MaxDepth - j], G[j - 1], G[j])
  BY <1>4, <1>5, <1>7, AtDepth DEF k
<1>9. G[k] = G[k - 1]
  <2>1. k \in 1 .. k
    BY <1>1, <1>4
  <2>2. FrameStands(db, health, p, walk.frames[k], walk.visited[k], lists[MaxDepth - k], G[k - 1], G[k])
    BY <1>8, <2>1
  <2> QED
    BY <1>7, <2>2, FrameDone
<1>10. H \in [0 .. k - 1 -> ListsOf(R)] /\ H[0] = {<< >>}
  BY <1>1, <1>4, <1>8
<1>11. \A j \in 1 .. k - 1 : H[j] = G[j] /\ H[j - 1] = G[j - 1] /\ j \in 1 .. k
  BY <1>1, <1>4
<1>12. H[k - 1] = G[k - 1]
  BY <1>1, <1>4
<1> HIDE DEF H
<1>13. IsStack(db, health, p, w.frames, w.visited, lists, H)
  <2>1. \A j \in 1 .. k - 1 :
          FrameStands(db, health, p, w.frames[j], w.visited[j], lists[MaxDepth - j], H[j - 1], H[j])
    BY <1>6, <1>8, <1>11
  <2> QED
    BY <1>6, <1>10, <2>1 DEF IsStack
<1>14. Due(w, lists, H) = Due(walk, lists, G)
  BY <1>1, <1>3, <1>6, <1>9, <1>12 DEF Due, k
<1>15. OnCourse(w, db, health, lists, H)
  BY <1>3, <1>5, <1>13, <1>14 DEF OnCourse
<1>16. walk.route \in DOMAIN db.routes /\ walk.found \in Words(R) /\ IsPath(db, health, walk.visited)
  BY <1>1, <1>4 DEF FlatSound
<1>17. IsPath(db, health, w.visited)
  <2>1. \A j \in 1 .. k - 1 : j \in 1 .. k /\ j < k
    BY <1>1, <1>4
  <2>2. \A j \in 1 .. k - 1 : w.visited[j] \in DOMAIN db.routes
    BY <1>4, <1>6, <1>16, <2>1 DEF IsPath
  <2>3. \A j \in 1 .. k - 1 : j < k - 1 => Edge(db, health, w.visited[j], w.visited[j + 1])
    <3>1. \A j \in 1 .. k - 1 : j < k - 1 => j + 1 \in 1 .. k - 1
      BY <1>1, <1>4
    <3> QED
      BY <1>4, <1>6, <1>16, <2>1, <3>1 DEF IsPath
  <2> QED
    BY <1>6, <2>2, <2>3 DEF IsPath
<1> QED
  BY <1>3, <1>15, <1>16, <1>17 DEF FlatSound

LEMMA ResolveFlat ==
  ASSUME WalkInv, Resolve
  PROVE  FlatInv'
<1>1. walk.phase = "chain" /\ walk.phase # "idle"
  BY DEF Resolve
<1>2. PICK answer : walk' = [walk EXCEPT !.phase = "done", !.visited = Front(@), !.found = answer]
  BY DEF Resolve
<1>3. Shape(walk)
  BY <1>1, UnderWay DEF WalkSound
<1> DEFINE w == walk'
<1>4. w.phase = "done"
  BY <1>2, <1>3 DEF Shape
<1> HIDE DEF w
<1>5. FlatSound(w, db', health')
  BY <1>4 DEF FlatSound
<1> QED
  BY <1>5 DEF FlatInv, w

LEMMA AnswerFlat ==
  ASSUME Answer
  PROVE  FlatInv'
BY DEF Answer, Walk, FlatInv

(* An edit ends the promise: the walk is no longer alone.                    *)
LEMMA DisturbedFlat ==
  ASSUME WalkInv, NEW d, walk' = Disturbed(walk, d)
  PROVE  FlatInv'
<1>1. CASE walk = Resting
  BY <1>1 DEF Disturbed, FlatInv
<1>2. CASE walk # Resting
  <2>1. Shape(walk)
    BY <1>2 DEF WalkInv, WalkSound
  <2>2. walk'.alone = FALSE
    BY <1>2, <2>1 DEF Disturbed, Shape
  <2> QED
    BY <2>2 DEF FlatInv
<1> QED
  BY <1>1, <1>2

LEMMA InitFlatInv == Init => FlatInv
BY DEF Init, FlatInv

LEMMA StepFlatInv == Sound(db) /\ GraphInv /\ FlatInv /\ [Next]_vars => FlatInv'
<1> SUFFICES ASSUME Sound(db), WalkInv, FlatInv, [Next]_vars
             PROVE  FlatInv'
  BY DEF GraphInv
<1>1. CASE UNCHANGED vars
  BY <1>1 DEF vars, graphVars, consoleVars, FlatInv
<1>2. ASSUME NEW p \in Profiles, FindProxy(p)
      PROVE  FlatInv'
  BY <1>2, FindProxyFlat
<1>3. CASE FindRoute \/ Enter \/ Leaf
  BY <1>3, FindRouteFlat, EnterFlat, LeafFlat
<1>4. CASE NestedOwner \/ NestedShared \/ Leave
  BY <1>4, NestedOwnerFlat, NestedSharedFlat, LeaveFlat
<1>5. CASE Resolve \/ Answer
  BY <1>5, ResolveFlat, AnswerFlat
<1>6. CASE Edit
  BY <1>6, DisturbedFlat DEF Edit
<1>7. CASE Health
  BY <1>7, DisturbedFlat DEF Health
<1> QED
  BY <1>1, <1>2, <1>3, <1>4, <1>5, <1>6, <1>7 DEF Next, WalkStep

LEMMA FlatInvIsFlattening ==
  ASSUME Sound(db), WalkInv, FlatInv
  PROVE  WalkIsFlattening
<1>1. ASSUME walk.phase = "chain", walk.alone, Top = << >>, Len(walk.frames) = 1
      PROVE  walk.found \in Flattening(db, health, walk.profile)[walk.route]
  <2>1. PICK lists, G : OnCourse(walk, db, health, lists, G)
    BY <1>1, CourseOf
  <2>2. /\ FlatSound(walk, db, health) /\ Len(walk.frames) \in Nat /\ Len(walk.frames) <= MaxDepth
        /\ MaxDepth \in Nat
    BY <1>1, CourseOf
  <2>3. /\ G[0] = {<< >>}
        /\ FrameStands(db, health, walk.profile, walk.frames[1], walk.visited[1],
                       lists[MaxDepth - 1], G[1 - 1], G[1])
    <3>1. 1 \in 1 .. Len(walk.frames)
      BY <1>1
    <3> QED
      BY <2>1, <2>2, <3>1, AtDepth
  <2>4. walk.frames[1] = << >>
    BY <1>1 DEF Top, Last
  <2>5. G[1] = {<< >>}
    <3>1. G[1] = G[1 - 1]
      BY <2>3, <2>4, FrameDone
    <3> QED
      BY <2>3, <3>1
  <2>6. Due(walk, lists, G) = {<< >>}
    BY <1>1, <2>5 DEF Due
  <2>7. << >> # NoList
    BY DEF NoList
  <2>8. Glue(walk.found, << >>) \in lists[MaxDepth][walk.route]
    <3>1. Leads(walk.found, {<< >>}, lists[MaxDepth][walk.route])
      BY <2>1, <2>6 DEF OnCourse
    <3> QED
      BY <2>7, <3>1 DEF Leads
  <2>9. Glue(walk.found, << >>) = walk.found
    BY <1>1, <2>2, WordsJoin DEF FlatSound
  <2> QED
    BY <2>1, <2>8, <2>9 DEF OnCourse
<1>2. ASSUME walk.phase = "failed", walk.alone, walk.route # None
      PROVE  NoList \in Flattening(db, health, walk.profile)[walk.route]
  <2>1. walk # Resting
    BY <1>2 DEF Resting
  <2> QED
    BY <1>2, <2>1 DEF FlatInv, FlatSound
<1> QED
  BY <1>1, <1>2 DEF WalkIsFlattening

(* A request no edit disturbs resolves to exactly the list its chain stands  *)
(* for, for every store, every health of the entries and every limit of the  *)
(* depth, and fails only if there is none: the recursion of expand_inner and *)
(* its path that stops at a cycle agree with a definition that knows only    *)
(* levels (expand_inner, resolve).                                           *)
THEOREM WalksAreFlattenings == Spec => []WalkIsFlattening
<1>1. Init => Sound(db)
  BY ConsoleAssumption DEF Init, ConsoleInit, Sound
<1>2. Sound(db) /\ [Next]_vars => Sound(db)'
  BY StepKeepsStore DEF Sound, IsStore, Consistent, IsRow, Legal
<1>3. Sound(db) /\ GraphInv /\ FlatInv => WalkIsFlattening
  BY FlatInvIsFlattening DEF GraphInv
<1> QED
  BY <1>1, <1>2, <1>3, InitFlatInv, StepFlatInv, WalkBookkeeping, PTL DEF Spec
=============================================================================
