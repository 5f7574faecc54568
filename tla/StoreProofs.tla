---------------------------- MODULE StoreProofs ----------------------------
(***************************************************************************)
(* What the methods of the store and the commands of the console guarantee *)
(* for any store and any arguments: whatever is written, the store stays   *)
(* one whose every row SQLite accepts.                                     *)
(***************************************************************************)
EXTENDS Console, FiniteSetTheorems, SequenceTheorems, TLAPS

Sound(d) == IsStore(d) /\ Consistent(d)

(* The column that says whose a row is, in the tables that have one.         *)
OwnerColumn(t) ==
  CASE t \in {"masks", "providers", "proxies"} -> "profile"
    [] t = "routes" -> "proxy"
    [] t = "entries" -> "route"

(* How one statement leaves the store: new rows have new ids, and no row     *)
(* changes hands.                                                            *)
Evolves(d, e) ==
  /\ Sound(e)
  /\ d.next <= e.next
  /\ \A t \in Tables : \A i \in DOMAIN e[t] \ DOMAIN d[t] : i >= d.next
  /\ \A t \in Tables \ {"profiles"} : \A i \in DOMAIN e[t] \cap DOMAIN d[t] :
       e[t][i][OwnerColumn(t)] = d[t][i][OwnerColumn(t)]

(* A list, whatever it lists.                                               *)
IsList(s) == Len(s) \in Nat /\ s = [i \in 1 .. Len(s) |-> s[i]]

-----------------------------------------------------------------------------
(* Lists.                                                                    *)

LEMMA EmptyIsList == IsList(<< >>)
BY DEF IsList

LEMMA ListIsSeq ==
  ASSUME NEW s, IsList(s), NEW x
  PROVE  \E S : s \in Seq(S) /\ x \in S
<1> DEFINE S == {s[i] : i \in 1 .. Len(s)} \cup {x}
<1>1. \A i \in 1 .. Len(s) : s[i] \in S
  OBVIOUS
<1>2. s \in [1 .. Len(s) -> S]
  BY <1>1 DEF IsList
<1>3. s \in Seq(S)
  BY <1>2 DEF IsList
<1> QED
  BY <1>3

LEMMA NotEmpty ==
  ASSUME NEW s, Len(s) # 0
  PROVE  s # << >>
<1> SUFFICES ASSUME s = << >>
             PROVE  Len(s) = 0
  OBVIOUS
<1> QED
  OBVIOUS

LEMMA SeqIsFunction ==
  ASSUME NEW S, NEW s \in Seq(S)
  PROVE  Len(s) \in Nat /\ s \in [1 .. Len(s) -> S]
OBVIOUS

LEMMA SeqIsList ==
  ASSUME NEW S, NEW s \in Seq(S)
  PROVE  IsList(s)
BY SeqIsFunction DEF IsList

LEMMA AppendIsList ==
  ASSUME NEW s, IsList(s), NEW x
  PROVE  /\ IsList(Append(s, x)) /\ Len(Append(s, x)) = Len(s) + 1
         /\ \A i \in 1 .. Len(s) : Append(s, x)[i] = s[i]
         /\ Append(s, x)[Len(s) + 1] = x
<1>1. PICK S : s \in Seq(S) /\ x \in S
  BY ListIsSeq
<1>2. Append(s, x) \in Seq(S) /\ Len(s) \in Nat
  BY <1>1
<1>3. Len(Append(s, x)) = Len(s) + 1
  BY <1>1
<1>5. IsList(Append(s, x))
  BY <1>2, SeqIsList
<1> QED
  BY <1>1, <1>3, <1>5

LEMMA FrontIsList ==
  ASSUME NEW s, IsList(s), s # << >>
  PROVE  /\ IsList(Front(s)) /\ Len(Front(s)) = Len(s) - 1
         /\ \A i \in 1 .. Len(s) - 1 : Front(s)[i] = s[i]
<1>1. PICK S : s \in Seq(S)
  BY ListIsSeq
<1>2. Len(s) \in Nat /\ Len(s) # 0
  BY <1>1
<1>3. Front(s) = [i \in 1 .. Len(s) - 1 |-> s[i]]
  BY <1>1, <1>2 DEF Front
<1>4. Front(s) \in Seq(S) /\ Len(Front(s)) = Len(s) - 1
  BY <1>1, <1>2, <1>3
<1> QED
  BY <1>2, <1>3, <1>4 DEF IsList

LEMMA TailIsList ==
  ASSUME NEW s, IsList(s), s # << >>
  PROVE  /\ IsList(Tail(s)) /\ Len(s) >= 1 /\ Len(Tail(s)) = Len(s) - 1 /\ Head(s) = s[1]
         /\ \A i \in 1 .. Len(s) - 1 : Tail(s)[i] = s[i + 1]
<1>1. PICK S : s \in Seq(S)
  BY ListIsSeq
<1>2. Len(s) \in Nat /\ Len(s) # 0 /\ Head(s) = s[1]
  BY <1>1
<1>3. /\ Tail(s) \in Seq(S) /\ Len(Tail(s)) = Len(s) - 1
      /\ \A i \in 1 .. Len(Tail(s)) : Tail(s)[i] = s[i + 1]
  BY <1>1, HeadTailProperties
<1>4. IsList(Tail(s))
  BY <1>3, SeqIsList
<1> QED
  BY <1>2, <1>3, <1>4

LEMMA ReplaceIsList ==
  ASSUME NEW s, IsList(s), NEW k, NEW x
  PROVE  IsList([s EXCEPT ![k] = x]) /\ Len([s EXCEPT ![k] = x]) = Len(s)
<1>1. PICK S : s \in Seq(S) /\ x \in S
  BY ListIsSeq
<1> DEFINE t == [s EXCEPT ![k] = x]
<1>2. Len(s) \in Nat /\ s \in [1 .. Len(s) -> S]
  BY <1>1
<1>3. t \in [1 .. Len(s) -> S]
  BY <1>1, <1>2
<1>4. t \in Seq(S) /\ Len(t) = Len(s)
  BY <1>2, <1>3
<1> HIDE DEF t
<1>5. t = [i \in 1 .. Len(t) |-> t[i]]
  BY <1>4
<1>6. IsList(t) /\ Len(t) = Len(s)
  BY <1>4, <1>5, <1>2 DEF IsList
<1> QED
  BY <1>6 DEF t

LEMMA FunctionIsList ==
  ASSUME NEW n \in Nat, NEW f, f = [i \in 1 .. n |-> f[i]]
  PROVE  IsList(f) /\ Len(f) = n
<1> DEFINE S == {f[i] : i \in 1 .. n}
<1>1. \A i \in 1 .. n : f[i] \in S
  OBVIOUS
<1>2. f \in [1 .. n -> S]
  BY <1>1
<1>3. f \in Seq(S) /\ Len(f) = n
  BY <1>2
<1> QED
  BY <1>3 DEF IsList

(* List u is s from x to y, l items; list u is s, of k items, then t, of l.  *)
Cuts(u, s, x, y, l) ==
  /\ IsList(s) /\ x \in Nat \ {0} /\ y \in Nat /\ x <= y + 1 /\ y <= Len(s)
  /\ u = SubSeq(s, x, y) /\ l = y + 1 - x

Joins(u, s, k, t, l) == IsList(s) /\ k = Len(s) /\ IsList(t) /\ l = Len(t) /\ u = s \o t

(* List u is of the l items of s from x on; of the k of s and the l of t.    *)
CutOf(u, s, x, l) == IsList(u) /\ Len(u) = l /\ \A m \in 1 .. l : u[m] = s[x + m - 1]

JoinOf(u, s, k, t, l) ==
  /\ IsList(u) /\ Len(u) = k + l
  /\ \A m \in 1 .. k + l : u[m] = IF m <= k THEN s[m] ELSE t[m - k]

LEMMA CutItems ==
  ASSUME NEW u, NEW s, NEW x, NEW y, NEW l, Cuts(u, s, x, y, l)
  PROVE  CutOf(u, s, x, l)
<1>1. /\ IsList(s) /\ x \in Int /\ 1 <= x /\ y \in Int /\ x <= y + 1 /\ y <= Len(s) /\ Len(s) \in Nat
      /\ l = y - x + 1 /\ l = IF x <= y THEN y - x + 1 ELSE 0
  BY DEF Cuts, IsList
<1>2. u = SubSeq(s, x, y)
  BY DEF Cuts
<1>3. PICK S : s \in Seq(S)
  BY <1>1, ListIsSeq
<1>4. \A j \in x .. y : s[j] \in S
  BY <1>1, <1>3
<1>5. /\ u \in Seq(S)
      /\ Len(u) = IF x <= y THEN y - x + 1 ELSE 0
      /\ \A m \in 1 .. y - x + 1 : u[m] = s[x + m - 1]
  BY <1>1, <1>2, <1>4, SubSeqProperties
<1>6. IsList(u)
  BY <1>5, SeqIsList
<1> QED
  BY <1>1, <1>5, <1>6 DEF CutOf

LEMMA ListOf ==
  ASSUME NEW s, IsList(s), NEW S, \A m \in 1 .. Len(s) : s[m] \in S
  PROVE  s \in Seq(S)
<1>1. s \in [1 .. Len(s) -> S]
  BY DEF IsList
<1> QED
  BY <1>1 DEF IsList

LEMMA JoinItems ==
  ASSUME NEW u, NEW s, NEW k, NEW t, NEW l, Joins(u, s, k, t, l)
  PROVE  JoinOf(u, s, k, t, l)
<1> DEFINE S == {s[m] : m \in 1 .. Len(s)} \cup {t[m] : m \in 1 .. Len(t)}
<1>1. IsList(s) /\ k = Len(s) /\ IsList(t) /\ l = Len(t) /\ u = s \o t
  BY DEF Joins
<1>2. (\A m \in 1 .. Len(s) : s[m] \in S) /\ (\A m \in 1 .. Len(t) : t[m] \in S)
  OBVIOUS
<1> HIDE DEF S
<1>3. s \in Seq(S) /\ t \in Seq(S)
  BY <1>1, <1>2, ListOf
<1>4. /\ u \in Seq(S) /\ Len(u) = Len(s) + Len(t)
      /\ \A m \in 1 .. Len(s) + Len(t) : u[m] = IF m <= Len(s) THEN s[m] ELSE t[m - Len(s)]
  BY <1>1, <1>3, ConcatProperties
<1>5. IsList(u)
  BY <1>4, SeqIsList
<1> QED
  BY <1>1, <1>4, <1>5 DEF JoinOf

LEMMA ListsEqual ==
  ASSUME NEW s, NEW t, IsList(s), IsList(t), Len(s) = Len(t), \A m \in 1 .. Len(s) : s[m] = t[m]
  PROVE  s = t
BY DEF IsList

(* A list of the elements of C, each once.                                   *)
Lists(s, n, C) ==
  /\ s \in [1 .. n -> C]
  /\ \A x, y \in 1 .. n : s[x] = s[y] => x = y
  /\ \A e \in C : \E x \in 1 .. n : s[x] = e

(* It is in the order of f, and its first m elements strictly so.            *)
InOrder(f, s, n) == \A x, y \in 1 .. n : x < y => f[s[x]] <= f[s[y]]

LeadStrictly(f, t, m, n) == \A x \in 1 .. m : \A y \in 1 .. n : x < y => f[t[x]] < f[t[y]]

LEMMA SmallIntervals ==
  ASSUME NEW k \in Nat \ {0}
  PROVE  IsFiniteSet(1 .. k - 1) /\ Cardinality(1 .. k - 1) = k - 1
<1>1. k - 1 \in Int /\ 1 \in Int /\ (1 > k - 1 => k - 1 = 0)
  OBVIOUS
<1> QED
  BY <1>1, FS_Interval

(* All that s lists before y, t lists before k: then y is no further than k. *)
Before(s, y, t, k) == \A z \in 1 .. y - 1 : \E x \in 1 .. k - 1 : t[x] = s[z]

LEMMA NoFurther ==
  ASSUME NEW n \in Nat, NEW C, NEW s, Lists(s, n, C), NEW t, NEW y \in 1 .. n, NEW k \in 1 .. n,
         Before(s, y, t, k)
  PROVE  y <= k
<1> DEFINE g == [z \in 1 .. y - 1 |-> CHOOSE x \in 1 .. k - 1 : t[x] = s[z]]
<1>1. \A z \in 1 .. y - 1 : g[z] \in 1 .. k - 1 /\ t[g[z]] = s[z]
  BY DEF Before
<1>2. g \in [1 .. y - 1 -> 1 .. k - 1]
  BY <1>1
<1> HIDE DEF g
<1>3. ASSUME NEW u \in 1 .. y - 1, NEW v \in 1 .. y - 1, g[u] = g[v]
      PROVE  u = v
  <2>1. s[u] = s[v]
    BY <1>1, <1>3
  <2>2. u \in 1 .. n /\ v \in 1 .. n
    OBVIOUS
  <2> QED
    BY <2>1, <2>2 DEF Lists
<1>4. g \in Injection(1 .. y - 1, 1 .. k - 1)
  BY <1>2, <1>3 DEF Injection, IsInjective
<1>5. /\ IsFiniteSet(1 .. k - 1) /\ Cardinality(1 .. k - 1) = k - 1
      /\ Cardinality(1 .. y - 1) = y - 1
  <2>1. k \in Nat \ {0} /\ y \in Nat \ {0}
    OBVIOUS
  <2> QED
    BY <2>1, SmallIntervals
<1>6. Cardinality(1 .. y - 1) <= Cardinality(1 .. k - 1)
  BY <1>4, <1>5, FS_Injection
<1> QED
  BY <1>5, <1>6

(* Of the lists of the same elements, one that is in order begins like any   *)
(* other whose beginning is strictly in order.                               *)
LEMMA OrderIsForced ==
  ASSUME NEW n \in Nat, NEW C, NEW f \in [C -> Int], NEW s, NEW t,
         Lists(s, n, C), Lists(t, n, C), NEW m \in 0 .. n,
         InOrder(f, s, n), LeadStrictly(f, t, m, n), NEW k \in 1 .. m
  PROVE  s[k] = t[k]
<1>1. /\ k \in 1 .. n /\ m \in Nat /\ m <= n
      /\ \A x \in 1 .. n : s[x] \in C /\ t[x] \in C
  BY DEF Lists
<1>2. PICK y \in 1 .. n : s[y] = t[k]
  BY <1>1 DEF Lists
<1>3. ASSUME NEW z \in 1 .. y - 1
      PROVE  \E x \in 1 .. k - 1 : t[x] = s[z]
  <2>1. z \in 1 .. n /\ z < y
    OBVIOUS
  <2>2. PICK x \in 1 .. n : t[x] = s[z]
    BY <1>1, <2>1 DEF Lists
  <2>3. x # k
    BY <1>2, <2>1, <2>2 DEF Lists
  <2>4. f[s[z]] <= f[s[y]]
    BY <2>1 DEF InOrder
  <2>5. k < x => f[t[k]] < f[t[x]]
    BY DEF LeadStrictly
  <2>6. f[s[z]] \in Int /\ f[t[k]] \in Int
    BY <1>1, <2>1
  <2>7. ~ k < x
    BY <1>2, <2>2, <2>4, <2>5, <2>6
  <2> QED
    BY <1>1, <2>2, <2>3, <2>7
<1>4. ASSUME NEW x \in 1 .. k - 1
      PROVE  \E z \in 1 .. y - 1 : s[z] = t[x]
  <2>1. x \in 1 .. m /\ x \in 1 .. n /\ x < k
    BY <1>1
  <2>2. PICK z \in 1 .. n : s[z] = t[x]
    BY <1>1, <2>1 DEF Lists
  <2>3. f[t[x]] < f[t[k]]
    BY <1>1, <2>1 DEF LeadStrictly
  <2>4. y < z => f[s[y]] <= f[s[z]]
    BY DEF InOrder
  <2>5. f[t[x]] \in Int /\ f[t[k]] \in Int
    BY <1>1, <2>1
  <2>6. ~ y < z /\ y # z
    BY <1>2, <2>2, <2>3, <2>4, <2>5
  <2> QED
    BY <2>2, <2>6
<1>5. y <= k
  <2>1. Before(s, y, t, k)
    BY <1>3 DEF Before
  <2> QED
    BY <1>1, <2>1, NoFurther
<1>6. k <= y
  <2>1. Before(t, k, s, y)
    BY <1>4 DEF Before
  <2> QED
    BY <1>1, <2>1, NoFurther
<1> QED
  BY <1>1, <1>2, <1>5, <1>6

-----------------------------------------------------------------------------
(* Tables and references. *)

LEMMA ReferencesOf ==
  /\ References("profiles") = {<<"default", "masks">>}
  /\ References("masks") = {<<"profile", "profiles">>}
  /\ References("proxies") = {<<"profile", "profiles">>}
  /\ References("providers") = {<<"profile", "profiles">>, <<"mask", "masks">>}
  /\ References("routes") = {<<"proxy", "proxies">>}
  /\ References("entries") = {<<"route", "routes">>, <<"provider", "providers">>,
                              <<"target", "routes">>}
BY DEF References

LEMMA ReferencesAreToTables ==
  ASSUME NEW t \in Tables, NEW r \in References(t)
  PROVE  r[2] \in Tables
BY ReferencesOf DEF Tables

LEMMA RowFields ==
  ASSUME NEW t \in Tables, NEW row, IsRow(t, row), NEW c, NEW v
  PROVE  /\ IsRow(t, [row EXCEPT ![c] = v])
         /\ \A k \in Columns(t) : [row EXCEPT ![c] = v][k] = IF k = c THEN v ELSE row[k]
BY DEF IsRow

LEMMA InsertedStore ==
  ASSUME NEW d, IsStore(d), NEW t \in Tables, NEW row, IsRow(t, row),
         NEW e, e \in Insert(d, t, row)
  PROVE  /\ IsStore(e) /\ Legal(d, t, d.next, row)
         /\ e.next = d.next + 1 /\ e.usage = d.usage
         /\ DOMAIN e[t] = DOMAIN d[t] \cup {d.next} /\ e[t][d.next] = row
         /\ \A u \in Tables \ {t} : e[u] = d[u]
         /\ \A i \in DOMAIN d[t] \ {d.next} : e[t][i] = d[t][i]
<1>1. Legal(d, t, d.next, row) /\ e = [d EXCEPT ![t] = With(d[t], d.next, row), !.next = d.next + 1]
  BY DEF Insert
<1>2. t # "next" /\ t # "usage" /\ "next" \notin Tables /\ "usage" \notin Tables
  BY DEF Tables
<1>3. DOMAIN e = DOMAIN d /\ e = [x \in DOMAIN e |-> e[x]]
  BY <1>1, <1>2 DEF IsStore
<1>4. /\ e.next = d.next + 1 /\ e.usage = d.usage /\ e[t] = With(d[t], d.next, row)
      /\ \A u \in Tables \ {t} : e[u] = d[u]
  BY <1>1, <1>2 DEF IsStore
<1>5. /\ DOMAIN e[t] = DOMAIN d[t] \cup {d.next} /\ e[t][d.next] = row
      /\ \A i \in DOMAIN d[t] \ {d.next} : e[t][i] = d[t][i]
      /\ e[t] = [i \in DOMAIN e[t] |-> e[t][i]]
  BY <1>4 DEF With
<1>6. IsStore(e)
  BY <1>3, <1>4, <1>5 DEF IsStore
<1> QED
  BY <1>1, <1>4, <1>5, <1>6

(* The three things Legal asks for.                                          *)
Refers(d, t, row) ==
  \A r \in References(t) : row[r[1]] \in DOMAIN d[r[2]] \/ (r[1] \in Nullable /\ row[r[1]] = None)
Distinct(d, t, id, row) ==
  Key(t) # {} => \A i \in DOMAIN d[t] \ {id} : \E c \in Key(t) : d[t][i][c] # row[c]
OneTarget(t, row) == t = "entries" => ((row.provider = None) # (row.target = None))

LEMMA LegalIs ==
  ASSUME NEW d, NEW t, NEW id, NEW row
  PROVE  Legal(d, t, id, row) <=> Refers(d, t, row) /\ Distinct(d, t, id, row) /\ OneTarget(t, row)
BY DEF Legal, Refers, Distinct, OneTarget

LEMMA RefersStays ==
  ASSUME NEW d, NEW e, NEW t \in Tables, NEW row, Refers(d, t, row),
         \A u \in Tables : DOMAIN d[u] \subseteq DOMAIN e[u]
  PROVE  Refers(e, t, row)
BY ReferencesAreToTables DEF Refers

LEMMA InsertIsSound ==
  ASSUME NEW d, Sound(d), NEW t \in Tables, NEW row, IsRow(t, row), NEW e \in Insert(d, t, row)
  PROVE  Evolves(d, e)
<1> USE DEF Sound
<1>1. /\ IsStore(e) /\ Legal(d, t, d.next, row)
      /\ e.next = d.next + 1 /\ e.usage = d.usage
      /\ DOMAIN e[t] = DOMAIN d[t] \cup {d.next} /\ e[t][d.next] = row
      /\ \A u \in Tables \ {t} : e[u] = d[u]
      /\ \A i \in DOMAIN d[t] \ {d.next} : e[t][i] = d[t][i]
  BY InsertedStore
<1>2. d.next \in Nat \ {0} /\ \A u \in Tables : \A i \in DOMAIN d[u] : i \in 1 .. d.next - 1
  BY DEF IsStore, Consistent
<1>3. \A u \in Tables : /\ DOMAIN d[u] \subseteq DOMAIN e[u]
                        /\ \A i \in DOMAIN d[u] : i # d.next /\ e[u][i] = d[u][i]
                        /\ \A i \in DOMAIN e[u] \ DOMAIN d[u] : i = d.next /\ u = t
  BY <1>1, <1>2
<1>4. ASSUME NEW u \in Tables, NEW i \in DOMAIN e[u]
      PROVE  i \in 1 .. e.next - 1 /\ Legal(e, u, i, e[u][i])
  <2>1. CASE i \in DOMAIN d[u]
    <3>1. Refers(d, u, d[u][i]) /\ Distinct(d, u, i, d[u][i]) /\ OneTarget(u, d[u][i])
      BY <2>1, LegalIs DEF Consistent
    <3>2. Refers(e, u, d[u][i])
      BY <3>1, <1>3, RefersStays
    <3>3. ASSUME Key(u) # {}, NEW j \in DOMAIN e[u] \ {i}
          PROVE  \E c \in Key(u) : e[u][j][c] # d[u][i][c]
      <4>1. CASE j \in DOMAIN d[u]
        BY <4>1, <3>1, <3>3, <1>3 DEF Distinct
      <4>2. CASE j \notin DOMAIN d[u]
        <5>1. j = d.next /\ u = t /\ e[u][j] = row
          BY <4>2, <1>1, <1>3
        <5>2. \E c \in Key(t) : d[t][i][c] # row[c]
          BY <5>1, <3>3, <2>1, <1>1, <1>3, LegalIs DEF Distinct
        <5> QED
          BY <5>1, <5>2
      <4> QED
        BY <4>1, <4>2
    <3>4. Distinct(e, u, i, d[u][i])
      BY <3>3 DEF Distinct
    <3> QED
      BY <2>1, <3>1, <3>2, <3>4, <1>1, <1>2, <1>3, LegalIs
  <2>2. CASE i \notin DOMAIN d[u]
    <3>1. i = d.next /\ u = t /\ e[u][i] = row
      BY <2>2, <1>1, <1>3
    <3>2. Refers(d, u, row) /\ Distinct(d, u, i, row) /\ OneTarget(u, row)
      BY <3>1, <1>1, LegalIs
    <3>3. Refers(e, u, row)
      BY <3>2, <1>3, RefersStays
    <3>4. Distinct(e, u, i, row)
      BY <3>2, <3>1, <1>3 DEF Distinct
    <3> QED
      BY <3>1, <3>2, <3>3, <3>4, <1>1, <1>2, LegalIs
  <2> QED
    BY <2>1, <2>2
<1>5. \A x \in e.usage : x.entry \in DOMAIN e.entries
  BY <1>1, <1>3 DEF Consistent, Tables
<1>6. Consistent(e)
  BY <1>4, <1>5 DEF Consistent
<1> QED
  BY <1>1, <1>2, <1>3, <1>6 DEF Evolves

LEMMA UpdatedStore ==
  ASSUME NEW d, IsStore(d), NEW t \in Tables, NEW id, NEW row, IsRow(t, row),
         NEW e \in Update(d, t, id, row)
  PROVE  /\ IsStore(e) /\ Legal(d, t, id, row) /\ id \in DOMAIN d[t]
         /\ e.next = d.next /\ e.usage = d.usage
         /\ \A u \in Tables : DOMAIN e[u] = DOMAIN d[u]
         /\ \A u \in Tables \ {t} : e[u] = d[u]
         /\ e[t][id] = row /\ \A i \in DOMAIN d[t] \ {id} : e[t][i] = d[t][i]
<1>1. /\ Legal(d, t, id, row) /\ id \in DOMAIN d[t]
      /\ e = [d EXCEPT ![t] = [d[t] EXCEPT ![id] = row]]
  BY DEF Update
<1>2. t # "next" /\ t # "usage" /\ "next" \notin Tables /\ "usage" \notin Tables
  BY DEF Tables
<1>3. DOMAIN e = DOMAIN d /\ e = [x \in DOMAIN e |-> e[x]]
  BY <1>1 DEF IsStore
<1>4. /\ e.next = d.next /\ e.usage = d.usage /\ e[t] = [d[t] EXCEPT ![id] = row]
      /\ \A u \in Tables \ {t} : e[u] = d[u]
  BY <1>1, <1>2 DEF IsStore
<1>5. /\ DOMAIN e[t] = DOMAIN d[t] /\ e[t][id] = row
      /\ \A i \in DOMAIN d[t] \ {id} : e[t][i] = d[t][i]
      /\ e[t] = [i \in DOMAIN e[t] |-> e[t][i]]
  BY <1>1, <1>4
<1>6. IsStore(e)
  BY <1>3, <1>4, <1>5 DEF IsStore
<1> QED
  BY <1>1, <1>4, <1>5, <1>6

(* An update keeps the store sound whoever the row belongs to afterwards.    *)
LEMMA UpdateIsSound ==
  ASSUME NEW d, Sound(d), NEW t \in Tables, NEW id, NEW row, IsRow(t, row),
         NEW e \in Update(d, t, id, row)
  PROVE  Sound(e)
<1> USE DEF Sound
<1>1. /\ IsStore(e) /\ Legal(d, t, id, row) /\ id \in DOMAIN d[t]
      /\ e.next = d.next /\ e.usage = d.usage
      /\ \A u \in Tables : DOMAIN e[u] = DOMAIN d[u]
      /\ \A u \in Tables \ {t} : e[u] = d[u]
      /\ e[t][id] = row /\ \A i \in DOMAIN d[t] \ {id} : e[t][i] = d[t][i]
  BY UpdatedStore
<1>2. ASSUME NEW u \in Tables, NEW i \in DOMAIN e[u]
      PROVE  i \in 1 .. e.next - 1 /\ Legal(e, u, i, e[u][i])
  <2>1. i \in DOMAIN d[u] /\ i \in 1 .. d.next - 1 /\ Legal(d, u, i, d[u][i])
    BY <1>1 DEF Consistent
  <2>2. Refers(d, u, e[u][i]) /\ OneTarget(u, e[u][i])
    BY <2>1, <1>1, LegalIs
  <2>3. Refers(e, u, e[u][i])
    BY <2>2, <1>1, RefersStays
  <2>4. ASSUME Key(u) # {}, NEW j \in DOMAIN e[u] \ {i}
        PROVE  \E c \in Key(u) : e[u][j][c] # e[u][i][c]
    <3>1. CASE u = t /\ j = id
      <4>1. \E c \in Key(t) : d[t][i][c] # row[c]
        BY <3>1, <2>1, <2>4, <1>1, LegalIs DEF Distinct
      <4> QED
        BY <3>1, <4>1, <2>1, <2>4, <1>1
    <3>2. CASE u = t /\ i = id
      <4>1. \E c \in Key(t) : d[t][j][c] # row[c]
        BY <3>2, <2>1, <2>4, <1>1, LegalIs DEF Distinct
      <4> QED
        BY <3>2, <4>1, <2>1, <2>4, <1>1
    <3>3. CASE u # t \/ (i # id /\ j # id)
      BY <3>3, <2>1, <2>4, <1>1, LegalIs DEF Distinct
    <3> QED
      BY <3>1, <3>2, <3>3
  <2>5. Distinct(e, u, i, e[u][i])
    BY <2>4 DEF Distinct
  <2> QED
    BY <2>1, <2>2, <2>3, <2>5, <1>1, LegalIs
<1>3. \A x \in e.usage : x.entry \in DOMAIN e.entries
  BY <1>1 DEF Consistent, Tables
<1> QED
  BY <1>1, <1>2, <1>3 DEF Consistent

LEMMA UpdateEvolves ==
  ASSUME NEW d, Sound(d), NEW t \in Tables, NEW id, NEW row, IsRow(t, row),
         t # "profiles" /\ id \in DOMAIN d[t] => row[OwnerColumn(t)] = d[t][id][OwnerColumn(t)],
         NEW e \in Update(d, t, id, row)
  PROVE  Evolves(d, e)
<1>1. d.next \in Nat /\ IsStore(d)
  BY DEF Sound, IsStore
<1>2. /\ id \in DOMAIN d[t] /\ e.next = d.next
      /\ \A u \in Tables : DOMAIN e[u] = DOMAIN d[u]
      /\ \A u \in Tables \ {t} : e[u] = d[u]
      /\ e[t][id] = row /\ \A i \in DOMAIN d[t] \ {id} : e[t][i] = d[t][i]
  BY <1>1, UpdatedStore
<1>3. ASSUME NEW u \in Tables \ {"profiles"}, NEW i \in DOMAIN e[u] \cap DOMAIN d[u]
      PROVE  e[u][i][OwnerColumn(u)] = d[u][i][OwnerColumn(u)]
  <2>1. CASE u = t /\ i = id
    BY <2>1, <1>2
  <2>2. CASE ~(u = t /\ i = id)
    BY <2>2, <1>2
  <2> QED
    BY <2>1, <2>2
<1> QED
  BY <1>1, <1>2, <1>3, UpdateIsSound DEF Evolves

(* One column changes, and it is not the one that says whose the row is.     *)
LEMMA SetColumnEvolves ==
  ASSUME NEW d, Sound(d), NEW t \in Tables, NEW id, NEW column, NEW value,
         t # "profiles" => column # OwnerColumn(t) /\ OwnerColumn(t) \in Columns(t),
         NEW e \in SetColumn(d, t, id, column, value)
  PROVE  Evolves(d, e)
<1>1. id \in DOMAIN d[t] /\ e \in Update(d, t, id, [d[t][id] EXCEPT ![column] = value])
  BY DEF SetColumn
<1>2. IsRow(t, d[t][id])
  BY <1>1 DEF Sound, IsStore
<1> DEFINE row == [d[t][id] EXCEPT ![column] = value]
<1>3. IsRow(t, row)
  BY <1>2, RowFields
<1>4. t # "profiles" => row[OwnerColumn(t)] = d[t][id][OwnerColumn(t)]
  BY <1>2, RowFields
<1> HIDE DEF row
<1>5. e \in Update(d, t, id, row)
  BY <1>1 DEF row
<1> QED
  BY <1>3, <1>4, <1>5, UpdateEvolves

LEMMA OwnerColumns ==
  /\ OwnerColumn("masks") = "profile" /\ OwnerColumn("providers") = "profile"
  /\ OwnerColumn("proxies") = "profile" /\ OwnerColumn("routes") = "proxy"
  /\ OwnerColumn("entries") = "route"
BY DEF OwnerColumn

-----------------------------------------------------------------------------
(* The methods that insert and update. *)

LEMMA CreatesEvolve ==
  ASSUME NEW d, Sound(d), NEW e, NEW name, NEW p, NEW m, NEW x, NEW y, NEW shared,
         \/ e \in CreateProfile(d, name)
         \/ e \in CreateMaskingServer(d, p, name, shared)
         \/ e \in CreateProvider(d, p, name, m, shared)
         \/ e \in CreateProxy(d, p, name)
         \/ e \in CreateRoute(d, x, name)
         \/ e \in AddRouteEntry(d, x, m, y)
         \/ e \in AddRouteEntryRef(d, x, m, y)
  PROVE  Evolves(d, e)
<1>1. CASE e \in CreateProfile(d, name)
  BY <1>1, InsertIsSound DEF CreateProfile, IsRow, Columns, Tables
<1>2. CASE e \in CreateMaskingServer(d, p, name, shared)
  BY <1>2, InsertIsSound DEF CreateMaskingServer, IsRow, Columns, Tables
<1>3. CASE e \in CreateProvider(d, p, name, m, shared)
  BY <1>3, InsertIsSound DEF CreateProvider, IsRow, Columns, Tables
<1>4. CASE e \in CreateProxy(d, p, name)
  BY <1>4, InsertIsSound DEF CreateProxy, IsRow, Columns, Tables
<1>5. CASE e \in CreateRoute(d, x, name)
  BY <1>5, InsertIsSound DEF CreateRoute, IsRow, Columns, Tables
<1>6. CASE e \in AddRouteEntry(d, x, m, y)
  BY <1>6, InsertIsSound DEF AddRouteEntry, IsRow, Columns, Tables
<1>7. CASE e \in AddRouteEntryRef(d, x, m, y)
  BY <1>7, InsertIsSound DEF AddRouteEntryRef, IsRow, Columns, Tables
<1> QED
  BY <1>1, <1>2, <1>3, <1>4, <1>5, <1>6, <1>7

LEMMA SettersEvolve ==
  ASSUME NEW d, Sound(d), NEW e, NEW id, NEW value,
         \/ e \in RenameProfile(d, id, value)
         \/ e \in SetProfileDefaultMasking(d, id, value)
         \/ e \in SetProviderShared(d, id, value)
         \/ e \in UpdateProxy(d, id, value)
         \/ e \in UpdateRoute(d, id, value)
         \/ e \in SetRouteShared(d, id, value)
         \/ e \in UpdateRouteEntry(d, id, value)
  PROVE  Evolves(d, e)
<1>1. CASE e \in RenameProfile(d, id, value)
  BY <1>1, SetColumnEvolves DEF RenameProfile, Tables
<1>2. CASE e \in SetProfileDefaultMasking(d, id, value)
  BY <1>2, SetColumnEvolves DEF SetProfileDefaultMasking, Tables
<1>3. CASE e \in SetProviderShared(d, id, value)
  BY <1>3, SetColumnEvolves, OwnerColumns DEF SetProviderShared, Tables, Columns
<1>4. CASE e \in UpdateProxy(d, id, value)
  BY <1>4, SetColumnEvolves, OwnerColumns DEF UpdateProxy, Tables, Columns
<1>5. CASE e \in UpdateRoute(d, id, value)
  BY <1>5, SetColumnEvolves, OwnerColumns DEF UpdateRoute, Tables, Columns
<1>6. CASE e \in SetRouteShared(d, id, value)
  BY <1>6, SetColumnEvolves, OwnerColumns DEF SetRouteShared, Tables, Columns
<1>7. CASE e \in UpdateRouteEntry(d, id, value)
  BY <1>7, SetColumnEvolves, OwnerColumns DEF UpdateRouteEntry, Tables, Columns
<1> QED
  BY <1>1, <1>2, <1>3, <1>4, <1>5, <1>6, <1>7

LEMMA SoundStays ==
  ASSUME NEW d, Sound(d)
  PROVE  Evolves(d, d)
<1>1. d.next \in Nat
  BY DEF Sound, IsStore
<1> QED
  BY <1>1 DEF Evolves

LEMMA PriorityEvolves ==
  ASSUME NEW d, Sound(d), NEW id, NEW priority, NEW e \in SetRouteEntryPriority(d, id, priority)
  PROVE  Evolves(d, e)
<1>1. CASE id \in DOMAIN d.entries
  BY <1>1, SetColumnEvolves, OwnerColumns DEF SetRouteEntryPriority, Tables, Columns
<1>2. CASE id \notin DOMAIN d.entries
  BY <1>2, SoundStays DEF SetRouteEntryPriority
<1> QED
  BY <1>1, <1>2

LEMMA UpdateMaskEvolves ==
  ASSUME NEW d, Sound(d), NEW m, NEW name, NEW shared, NEW e \in UpdateMaskingServer(d, m, name, shared)
  PROVE  Evolves(d, e)
<1> DEFINE row == [d.masks[m] EXCEPT !.name = name, !.shared = shared]
<1>1. m \in DOMAIN d.masks /\ e \in Update(d, "masks", m, row)
  BY DEF UpdateMaskingServer
<1>2. IsRow("masks", d.masks[m])
  BY <1>1 DEF Sound, IsStore, Tables
<1>3. IsRow("masks", row) /\ row["profile"] = d.masks[m]["profile"]
  BY <1>2 DEF IsRow, Columns
<1> QED
  BY <1>1, <1>3, UpdateEvolves, OwnerColumns DEF Tables

LEMMA UpdateProviderEvolves ==
  ASSUME NEW d, Sound(d), NEW v, NEW name, NEW mask, NEW shared,
         NEW e \in UpdateProvider(d, v, name, mask, shared)
  PROVE  Evolves(d, e)
<1> DEFINE row == [d.providers[v] EXCEPT !.name = name, !.mask = mask, !.shared = shared]
<1>1. v \in DOMAIN d.providers /\ e \in Update(d, "providers", v, row)
  BY DEF UpdateProvider
<1>2. IsRow("providers", d.providers[v])
  BY <1>1 DEF Sound, IsStore, Tables
<1>3. IsRow("providers", row) /\ row["profile"] = d.providers[v]["profile"]
  BY <1>2 DEF IsRow, Columns
<1> QED
  BY <1>1, <1>3, UpdateEvolves, OwnerColumns DEF Tables

LEMMA UsageEvolves ==
  ASSUME NEW d, Sound(d), NEW p, NEW x, NEW e \in RecordUsage(d, p, x)
  PROVE  Evolves(d, e) /\ \A t \in Tables : e[t] = d[t]
<1>1. x \in DOMAIN d.entries /\ e = [d EXCEPT !.usage = d.usage \cup {[profile |-> p, entry |-> x]}]
  BY DEF RecordUsage
<1>2. IsStore(d) /\ Consistent(d)
  BY DEF Sound
<1>3. /\ e.next = d.next /\ e.usage = d.usage \cup {[profile |-> p, entry |-> x]}
      /\ \A t \in Tables : e[t] = d[t]
      /\ DOMAIN e = DOMAIN d /\ e = [y \in DOMAIN e |-> e[y]]
  BY <1>1, <1>2 DEF IsStore, Tables
<1>4. IsStore(e)
  BY <1>2, <1>3 DEF IsStore
<1>5. \A t \in Tables : \A i \in DOMAIN e[t] : i \in 1 .. e.next - 1 /\ Legal(e, t, i, e[t][i])
  <2> SUFFICES ASSUME NEW t \in Tables, NEW i \in DOMAIN e[t]
               PROVE  i \in 1 .. e.next - 1 /\ Legal(e, t, i, e[t][i])
    OBVIOUS
  <2>1. i \in 1 .. d.next - 1 /\ Legal(d, t, i, d[t][i])
    BY <1>2, <1>3 DEF Consistent
  <2>2. Refers(e, t, d[t][i]) /\ Distinct(e, t, i, d[t][i]) /\ OneTarget(t, d[t][i])
    BY <2>1, <1>3, LegalIs, RefersStays DEF Distinct
  <2> QED
    BY <2>1, <2>2, <1>3, LegalIs
<1>6. \A u \in e.usage : u.entry \in DOMAIN e.entries
  BY <1>1, <1>2, <1>3 DEF Consistent, Tables
<1>7. Consistent(e)
  BY <1>5, <1>6 DEF Consistent
<1>8. d.next \in Nat
  BY <1>2 DEF IsStore
<1> QED
  BY <1>3, <1>4, <1>7, <1>8 DEF Evolves, Sound

-----------------------------------------------------------------------------
(* Deletion: what the cascade reaches is closed, so nothing that stays names *)
(* anything that goes. *)

LEMMA SetNullRows ==
  ASSUME NEW t \in Tables, NEW f, \A i \in DOMAIN f : IsRow(t, f[i]),
         NEW column, NEW ids
  PROVE  /\ DOMAIN SetNull(f, column, ids) = DOMAIN f
         /\ \A i \in DOMAIN f :
              /\ IsRow(t, SetNull(f, column, ids)[i])
              /\ \A c \in Columns(t) :
                   SetNull(f, column, ids)[i][c] =
                     IF c = column /\ f[i][c] \in ids THEN None ELSE f[i][c]
<1> DEFINE g == SetNull(f, column, ids)
<1>1. DOMAIN g = DOMAIN f
  BY DEF SetNull
<1>2. ASSUME NEW i \in DOMAIN f
      PROVE  /\ IsRow(t, g[i])
             /\ \A c \in Columns(t) :
                  g[i][c] = IF c = column /\ f[i][c] \in ids THEN None ELSE f[i][c]
  <2> DEFINE row == f[i]
             v == IF row[column] \in ids THEN None ELSE row[column]
  <2>1. g[i] = [row EXCEPT ![column] = v]
    BY DEF SetNull
  <2>2. IsRow(t, row)
    OBVIOUS
  <2>3. row = f[i]
    OBVIOUS
  <2> HIDE DEF g, v, row
  <2>4. /\ IsRow(t, [row EXCEPT ![column] = v])
        /\ \A c \in Columns(t) : [row EXCEPT ![column] = v][c] = IF c = column THEN v ELSE row[c]
    BY <2>2 DEF IsRow
  <2> QED
    BY <2>1, <2>3, <2>4 DEF v
<1> QED
  BY <1>1, <1>2

(* The columns a deletion may set to NULL.                                   *)
MaskColumn(t) == IF t = "profiles" THEN "default" ELSE IF t = "providers" THEN "mask" ELSE "none"

LEMMA DeletedStore ==
  ASSUME NEW d, IsStore(d), NEW t, NEW id, NEW e \in Delete(d, t, id),
         NEW dead, dead = Doomed(d, t, {id})
  PROVE  /\ IsStore(e) /\ e.next = d.next
         /\ e.usage = {u \in d.usage : u.entry \notin dead.entries}
         /\ \A u \in Tables :
              /\ DOMAIN e[u] = DOMAIN d[u] \ dead[u]
              /\ \A i \in DOMAIN e[u] : \A c \in Columns(u) :
                   e[u][i][c] = IF c = MaskColumn(u) /\ d[u][i][c] \in dead.masks
                                THEN None ELSE d[u][i][c]
<1> DEFINE usage == {u \in d.usage : u.entry \notin dead.entries}
<1> HIDE DEF usage
<1>1. e = [d EXCEPT !.profiles = SetNull(Without(d.profiles, dead.profiles), "default", dead.masks),
                    !.masks = Without(d.masks, dead.masks),
                    !.providers = SetNull(Without(d.providers, dead.providers), "mask", dead.masks),
                    !.proxies = Without(d.proxies, dead.proxies),
                    !.routes = Without(d.routes, dead.routes),
                    !.entries = Without(d.entries, dead.entries), !.usage = usage]
  BY DEF Delete, usage
<1>2. DOMAIN d = Tables \cup {"usage", "next"} /\ d = [x \in DOMAIN d |-> d[x]]
  BY DEF IsStore
<1>3. /\ DOMAIN e = DOMAIN d /\ e = [x \in DOMAIN e |-> e[x]]
      /\ e.next = d.next /\ e.usage = usage
      /\ e.profiles = SetNull(Without(d.profiles, dead.profiles), "default", dead.masks)
      /\ e.providers = SetNull(Without(d.providers, dead.providers), "mask", dead.masks)
      /\ e.masks = Without(d.masks, dead.masks) /\ e.proxies = Without(d.proxies, dead.proxies)
      /\ e.routes = Without(d.routes, dead.routes) /\ e.entries = Without(d.entries, dead.entries)
  BY <1>1, <1>2 DEF Tables
<1>4. ASSUME NEW u \in Tables
      PROVE  /\ DOMAIN e[u] = DOMAIN d[u] \ dead[u] /\ e[u] = [i \in DOMAIN e[u] |-> e[u][i]]
             /\ \A i \in DOMAIN e[u] :
                  /\ IsRow(u, e[u][i])
                  /\ \A c \in Columns(u) :
                       e[u][i][c] = IF c = MaskColumn(u) /\ d[u][i][c] \in dead.masks
                                    THEN None ELSE d[u][i][c]
  <2> DEFINE rest == Without(d[u], dead[u])
  <2>0. rest = [i \in DOMAIN rest |-> rest[i]]
    BY DEF Without
  <2>1. /\ DOMAIN rest = DOMAIN d[u] \ dead[u]
        /\ \A i \in DOMAIN rest : rest[i] = d[u][i] /\ IsRow(u, rest[i])
    BY DEF Without, IsStore
  <2>2. CASE u = "profiles"
    <3> DEFINE g == SetNull(rest, "default", dead.masks)
    <3>1. e[u] = g
      BY <2>2, <1>3
    <3>2. \A i \in DOMAIN rest : IsRow(u, rest[i])
      BY <2>1
    <3> HIDE DEF rest
    <3>3. g = [i \in DOMAIN g |-> g[i]]
      BY DEF SetNull
    <3>4. /\ DOMAIN g = DOMAIN rest
          /\ \A i \in DOMAIN rest :
               /\ IsRow(u, g[i])
               /\ \A c \in Columns(u) :
                    g[i][c] = IF c = "default" /\ rest[i][c] \in dead.masks THEN None ELSE rest[i][c]
      BY <3>2, SetNullRows
    <3> HIDE DEF g
    <3>8. \A i \in DOMAIN g : rest[i] = d[u][i]
      BY <3>4, <2>1
    <3>9. MaskColumn(u) = "default"
      BY <2>2 DEF MaskColumn
    <3>5. \A i \in DOMAIN g : \A c \in Columns(u) :
             g[i][c] = IF c = MaskColumn(u) /\ d[u][i][c] \in dead.masks THEN None ELSE d[u][i][c]
      BY <3>4, <3>8, <3>9
    <3>6. e[u] = [i \in DOMAIN e[u] |-> e[u][i]]
      BY <3>1, <3>3
    <3>7. \A i \in DOMAIN e[u] : IsRow(u, e[u][i])
      BY <3>1, <3>4
    <3> QED
      BY <3>1, <3>4, <3>5, <3>6, <3>7, <2>1
  <2>3. CASE u = "providers"
    <3> DEFINE g == SetNull(rest, "mask", dead.masks)
    <3>1. e[u] = g
      BY <2>3, <1>3
    <3>2. \A i \in DOMAIN rest : IsRow(u, rest[i])
      BY <2>1
    <3> HIDE DEF rest
    <3>3. g = [i \in DOMAIN g |-> g[i]]
      BY DEF SetNull
    <3>4. /\ DOMAIN g = DOMAIN rest
          /\ \A i \in DOMAIN rest :
               /\ IsRow(u, g[i])
               /\ \A c \in Columns(u) :
                    g[i][c] = IF c = "mask" /\ rest[i][c] \in dead.masks THEN None ELSE rest[i][c]
      BY <3>2, SetNullRows
    <3> HIDE DEF g
    <3>8. \A i \in DOMAIN g : rest[i] = d[u][i]
      BY <3>4, <2>1
    <3>9. MaskColumn(u) = "mask"
      BY <2>3 DEF MaskColumn
    <3>5. \A i \in DOMAIN g : \A c \in Columns(u) :
             g[i][c] = IF c = MaskColumn(u) /\ d[u][i][c] \in dead.masks THEN None ELSE d[u][i][c]
      BY <3>4, <3>8, <3>9
    <3>6. e[u] = [i \in DOMAIN e[u] |-> e[u][i]]
      BY <3>1, <3>3
    <3>7. \A i \in DOMAIN e[u] : IsRow(u, e[u][i])
      BY <3>1, <3>4
    <3> QED
      BY <3>1, <3>4, <3>5, <3>6, <3>7, <2>1
  <2>4. CASE u \notin {"profiles", "providers"}
    <3>1. e[u] = rest
      BY <2>4, <1>3 DEF Tables
    <3>2. \A c \in Columns(u) : c # MaskColumn(u)
      BY <2>4 DEF Columns, MaskColumn, Tables
    <3> HIDE DEF rest
    <3> QED
      BY <3>1, <3>2, <2>0, <2>1
  <2> QED
    BY <2>2, <2>3, <2>4
<1>5. IsStore(e)
  BY <1>2, <1>3, <1>4 DEF IsStore
<1> QED
  BY <1>3, <1>4, <1>5 DEF usage

(* What goes takes along everything that must name it.                       *)
LEMMA DoomedIsClosed ==
  ASSUME NEW d, NEW t, NEW ids, NEW u \in Tables, NEW r \in References(u), r[1] # MaskColumn(u),
         NEW i \in DOMAIN d[u], d[u][i][r[1]] \in Doomed(d, t, ids)[r[2]]
  PROVE  i \in Doomed(d, t, ids)[u]
<1> DEFINE dead == Doomed(d, t, ids)
<1>1. /\ Pointing(d, "masks", "profile", dead.profiles) \subseteq dead.masks
      /\ Pointing(d, "providers", "profile", dead.profiles) \subseteq dead.providers
      /\ Pointing(d, "proxies", "profile", dead.profiles) \subseteq dead.proxies
      /\ Pointing(d, "routes", "proxy", dead.proxies) \subseteq dead.routes
      /\ Pointing(d, "entries", "route", dead.routes) \subseteq dead.entries
      /\ Pointing(d, "entries", "provider", dead.providers) \subseteq dead.entries
      /\ Pointing(d, "entries", "target", dead.routes) \subseteq dead.entries
  BY DEF Doomed, Referring
<1> HIDE DEF dead
<1>2. d[u][i][r[1]] \in dead[r[2]]
  BY DEF dead
<1>3. i \in Pointing(d, u, r[1], dead[r[2]])
  BY <1>2 DEF Pointing
<1>4. CASE u \in {"profiles", "masks", "proxies"}
  BY <1>1, <1>3, <1>4, ReferencesOf DEF MaskColumn, dead
<1>5. CASE u = "providers"
  BY <1>1, <1>3, <1>5, ReferencesOf DEF MaskColumn, dead
<1>6. CASE u = "routes"
  BY <1>1, <1>3, <1>6, ReferencesOf DEF MaskColumn, dead
<1>7. CASE u = "entries"
  BY <1>1, <1>3, <1>7, ReferencesOf DEF MaskColumn, dead
<1> QED
  BY <1>4, <1>5, <1>6, <1>7 DEF Tables

LEMMA MaskColumns ==
  ASSUME NEW u \in Tables
  PROVE  /\ Key(u) \subseteq Columns(u) \ {MaskColumn(u)}
         /\ \A r \in References(u) :
              /\ r[1] \in Columns(u)
              /\ r[1] = MaskColumn(u) => r[2] = "masks" /\ r[1] \in Nullable
<1>1. CASE u = "profiles"
  BY <1>1, ReferencesOf DEF Key, Columns, MaskColumn, Nullable
<1>2. CASE u = "masks"
  BY <1>2, ReferencesOf DEF Key, Columns, MaskColumn, Nullable
<1>3. CASE u = "providers"
  BY <1>3, ReferencesOf DEF Key, Columns, MaskColumn, Nullable
<1>4. CASE u = "proxies"
  BY <1>4, ReferencesOf DEF Key, Columns, MaskColumn, Nullable
<1>5. CASE u = "routes"
  BY <1>5, ReferencesOf DEF Key, Columns, MaskColumn, Nullable
<1>6. CASE u = "entries"
  BY <1>6, ReferencesOf DEF Key, Columns, MaskColumn, Nullable
<1> QED
  BY <1>1, <1>2, <1>3, <1>4, <1>5, <1>6 DEF Tables

LEMMA DeleteEvolves ==
  ASSUME NEW d, Sound(d), NEW t, NEW id, NEW e \in Delete(d, t, id)
  PROVE  Evolves(d, e)
<1> DEFINE dead == Doomed(d, t, {id})
<1> HIDE DEF dead
<1>1. IsStore(d) /\ Consistent(d) /\ d.next \in Nat
  BY DEF Sound, IsStore
<1>2. /\ IsStore(e) /\ e.next = d.next
      /\ e.usage = {u \in d.usage : u.entry \notin dead.entries}
      /\ \A u \in Tables :
           /\ DOMAIN e[u] = DOMAIN d[u] \ dead[u]
           /\ \A i \in DOMAIN e[u] : \A c \in Columns(u) :
                e[u][i][c] = IF c = MaskColumn(u) /\ d[u][i][c] \in dead.masks
                             THEN None ELSE d[u][i][c]
  <2>1. dead = Doomed(d, t, {id})
    BY DEF dead
  <2> QED
    BY <2>1, <1>1, DeletedStore
<1>3. ASSUME NEW u \in Tables, NEW i \in DOMAIN e[u]
      PROVE  i \in 1 .. e.next - 1 /\ Legal(e, u, i, e[u][i])
  <2>1. i \in DOMAIN d[u] /\ i \notin dead[u] /\ i \in 1 .. d.next - 1 /\ Legal(d, u, i, d[u][i])
    BY <1>1, <1>2 DEF Consistent
  <2>2. Refers(d, u, d[u][i]) /\ Distinct(d, u, i, d[u][i]) /\ OneTarget(u, d[u][i])
    BY <2>1, LegalIs
  <2>3. ASSUME NEW r \in References(u)
        PROVE  e[u][i][r[1]] \in DOMAIN e[r[2]] \/ (r[1] \in Nullable /\ e[u][i][r[1]] = None)
    <3>1. r[1] \in Columns(u) /\ r[2] \in Tables
      BY MaskColumns, ReferencesAreToTables
    <3>2. d[u][i][r[1]] \in DOMAIN d[r[2]] \/ (r[1] \in Nullable /\ d[u][i][r[1]] = None)
      BY <2>2 DEF Refers
    <3>3. CASE r[1] = MaskColumn(u)
      BY <3>1, <3>2, <3>3, <1>2, MaskColumns
    <3>4. CASE r[1] # MaskColumn(u)
      <4>1. d[u][i][r[1]] \notin dead[r[2]]
        BY <3>4, <2>1, DoomedIsClosed DEF dead
      <4>2. e[u][i][r[1]] = d[u][i][r[1]]
        BY <3>1, <3>4, <1>2
      <4>3. DOMAIN e[r[2]] = DOMAIN d[r[2]] \ dead[r[2]]
        BY <3>1, <1>2
      <4> QED
        BY <4>1, <4>2, <4>3, <3>2
    <3> QED
      BY <3>3, <3>4
  <2>4. ASSUME Key(u) # {}, NEW j \in DOMAIN e[u] \ {i}
        PROVE  \E c \in Key(u) : e[u][j][c] # e[u][i][c]
    <3>1. PICK c \in Key(u) : d[u][j][c] # d[u][i][c]
      BY <2>2, <2>4, <1>2 DEF Distinct
    <3>2. c \in Columns(u) /\ c # MaskColumn(u)
      BY <3>1, MaskColumns
    <3>3. e[u][j][c] = d[u][j][c] /\ e[u][i][c] = d[u][i][c]
      BY <3>2, <1>2, <2>4
    <3> QED
      BY <3>1, <3>3
  <2>5. OneTarget(u, e[u][i])
    <3> SUFFICES ASSUME u = "entries"
                 PROVE  (e[u][i].provider = None) # (e[u][i].target = None)
      BY DEF OneTarget
    <3>1. e[u][i].provider = d[u][i].provider /\ e[u][i].target = d[u][i].target
      BY <1>2 DEF Columns, MaskColumn
    <3> QED
      BY <3>1, <2>2 DEF OneTarget
  <2>6. Refers(e, u, e[u][i]) /\ Distinct(e, u, i, e[u][i])
    BY <2>3, <2>4 DEF Refers, Distinct
  <2> QED
    BY <2>1, <2>5, <2>6, <1>2, LegalIs
<1>4. \A x \in e.usage : x.entry \in DOMAIN e.entries
  BY <1>1, <1>2 DEF Consistent, Tables
<1>5. Sound(e)
  BY <1>2, <1>3, <1>4 DEF Sound, Consistent
<1>6. ASSUME NEW u \in Tables \ {"profiles"}, NEW i \in DOMAIN e[u]
      PROVE  e[u][i][OwnerColumn(u)] = d[u][i][OwnerColumn(u)]
  <2>1. OwnerColumn(u) \in Columns(u) /\ OwnerColumn(u) # MaskColumn(u)
    BY OwnerColumns DEF Columns, MaskColumn, Tables
  <2> QED
    BY <2>1, <1>2
<1> QED
  BY <1>1, <1>2, <1>5, <1>6 DEF Evolves

(* The token of a profile nothing refers to is replaced.                     *)
LEMMA RotateEvolves ==
  ASSUME NEW d, Sound(d), NEW p, NEW e \in RotateProfileToken(d, p)
  PROVE  /\ Evolves(d, e) /\ p \in DOMAIN d.profiles
         /\ \A t \in Tables \ {"profiles"} : e[t] = d[t]
         /\ \A i \in DOMAIN d.profiles \ {p} : i \in DOMAIN e.profiles /\ e.profiles[i] = d.profiles[i]
<1>1. /\ p \in DOMAIN d.profiles
      /\ \A t \in {"masks", "providers", "proxies"} : Pointing(d, t, "profile", {p}) = {}
      /\ e = [d EXCEPT !.profiles = With(Without(d.profiles, {p}), d.next, d.profiles[p]),
                       !.next = d.next + 1]
  BY DEF RotateProfileToken
<1>2. IsStore(d) /\ Consistent(d) /\ d.next \in Nat \ {0}
  BY DEF Sound, IsStore
<1>3. /\ DOMAIN e = DOMAIN d /\ e = [x \in DOMAIN e |-> e[x]]
      /\ e.next = d.next + 1 /\ e.usage = d.usage
      /\ e.profiles = With(Without(d.profiles, {p}), d.next, d.profiles[p])
      /\ \A t \in Tables \ {"profiles"} : e[t] = d[t]
  BY <1>1, <1>2 DEF IsStore, Tables
<1>4. \A t \in Tables : \A i \in DOMAIN d[t] : i \in 1 .. d.next - 1 /\ i # d.next /\ IsRow(t, d[t][i])
  BY <1>2 DEF Consistent, IsStore
<1>5. "profiles" \in Tables
  BY DEF Tables
<1>6. /\ DOMAIN e.profiles = (DOMAIN d.profiles \ {p}) \cup {d.next}
      /\ e.profiles = [i \in DOMAIN e.profiles |-> e.profiles[i]]
      /\ e.profiles[d.next] = d.profiles[p]
      /\ \A i \in DOMAIN d.profiles \ {p} : e.profiles[i] = d.profiles[i]
  <2> DEFINE rest == Without(d.profiles, {p})
  <2>1. DOMAIN rest = DOMAIN d.profiles \ {p} /\ \A i \in DOMAIN rest : rest[i] = d.profiles[i]
    BY DEF Without
  <2> DEFINE row == d.profiles[p]
             w == With(rest, d.next, row)
  <2>2. e.profiles = w
    BY <1>3
  <2> HIDE DEF rest, row
  <2>5. /\ DOMAIN w = DOMAIN rest \cup {d.next} /\ w = [x \in DOMAIN w |-> w[x]] /\ w[d.next] = row
        /\ \A x \in DOMAIN rest : x # d.next => w[x] = rest[x]
    BY DEF With
  <2> HIDE DEF w
  <2>3. d.next \notin DOMAIN d.profiles
    BY <1>4, <1>5
  <2>4. \A i \in DOMAIN rest : i # d.next
    BY <2>1, <2>3
  <2> QED
    BY <2>1, <2>2, <2>4, <2>5 DEF row
<1>7. IsStore(e)
  <2>1. ASSUME NEW t \in Tables
        PROVE  e[t] = [i \in DOMAIN e[t] |-> e[t][i]] /\ \A i \in DOMAIN e[t] : IsRow(t, e[t][i])
    <3>1. CASE t = "profiles"
      <4>1. p \in DOMAIN d.profiles /\ \A i \in DOMAIN d.profiles : IsRow("profiles", d.profiles[i])
        BY <1>1, <1>4, <1>5
      <4>2. \A i \in DOMAIN e.profiles : IsRow("profiles", e.profiles[i])
        BY <4>1, <1>6
      <4>3. e.profiles = [i \in DOMAIN e.profiles |-> e.profiles[i]]
        BY <1>6
      <4>4. e[t] = e.profiles
        BY <3>1
      <4> QED
        BY <3>1, <4>2, <4>3, <4>4
    <3>2. CASE t # "profiles"
      BY <3>2, <1>2, <1>3 DEF IsStore
    <3> QED
      BY <3>1, <3>2
  <2>2. e.next \in Nat \ {0}
    BY <1>2, <1>3
  <2>3. DOMAIN e = Tables \cup {"usage", "next"}
    BY <1>2, <1>3 DEF IsStore
  <2> QED
    BY <2>1, <2>2, <2>3, <1>3 DEF IsStore
(* The row a row of e was in d. *)
<1> DEFINE Was(t, i) == IF t = "profiles" /\ i = d.next THEN p ELSE i
<1>8. ASSUME NEW t \in Tables, NEW i \in DOMAIN e[t]
      PROVE  /\ Was(t, i) \in DOMAIN d[t] /\ e[t][i] = d[t][Was(t, i)] /\ i \in 1 .. e.next - 1
             /\ \A j \in DOMAIN e[t] \ {i} : Was(t, j) # Was(t, i)
  <2>1. CASE t = "profiles" /\ i = d.next
    <3>1. p \in DOMAIN d.profiles /\ e.profiles[i] = d.profiles[p] /\ Was(t, i) = p
      BY <2>1, <1>1, <1>6
    <3>2. i \in 1 .. e.next - 1
      BY <2>1, <1>2, <1>3
    <3>3. \A j \in DOMAIN e.profiles \ {i} : j # p /\ Was(t, j) = j
      BY <2>1, <1>6
    <3> QED
      BY <2>1, <3>1, <3>2, <3>3
  <2>2. CASE t = "profiles" /\ i # d.next
    <3>1. i \in DOMAIN d.profiles /\ i # p /\ i \in 1 .. d.next - 1 /\ e.profiles[i] = d.profiles[i]
      BY <2>2, <1>4, <1>5, <1>6
    <3>2. \A j \in DOMAIN e.profiles \ {i} : Was(t, j) # Was(t, i)
      BY <2>2, <3>1, <1>6
    <3> QED
      BY <2>2, <3>1, <3>2, <1>2, <1>3
  <2>3. CASE t # "profiles"
    BY <2>3, <1>2, <1>3, <1>4
  <2> QED
    BY <2>1, <2>2, <2>3
<1>9. ASSUME NEW t \in Tables, NEW i \in DOMAIN e[t]
      PROVE  Legal(e, t, i, e[t][i])
  <2>1. Was(t, i) \in DOMAIN d[t] /\ e[t][i] = d[t][Was(t, i)]
    BY <1>8
  <2>2. /\ Refers(d, t, e[t][i]) /\ Distinct(d, t, Was(t, i), e[t][i])
        /\ OneTarget(t, e[t][i])
    BY <2>1, <1>2, LegalIs DEF Consistent
  <2>3. Distinct(e, t, i, e[t][i])
    <3> SUFFICES ASSUME Key(t) # {}, NEW j \in DOMAIN e[t] \ {i}
                 PROVE  \E c \in Key(t) : e[t][j][c] # e[t][i][c]
      BY DEF Distinct
    <3>1. Was(t, j) \in DOMAIN d[t] \ {Was(t, i)} /\ e[t][j] = d[t][Was(t, j)]
      BY <1>8
    <3> HIDE DEF Was
    <3> QED
      BY <3>1, <2>2 DEF Distinct
  <2>4. ASSUME NEW r \in References(t)
        PROVE  e[t][i][r[1]] \in DOMAIN e[r[2]] \/ (r[1] \in Nullable /\ e[t][i][r[1]] = None)
    <3>1. e[t][i][r[1]] \in DOMAIN d[r[2]] \/ (r[1] \in Nullable /\ e[t][i][r[1]] = None)
      BY <2>2 DEF Refers
    <3>2. CASE r[2] = "profiles"
      <4>1. t \in {"masks", "providers", "proxies"} /\ r[1] = "profile"
        BY <3>2, ReferencesOf DEF Tables
      <4>2. e[t] = d[t] /\ i \in DOMAIN d[t]
        BY <4>1, <1>3
      <4>3. e[t][i]["profile"] # p
        BY <4>1, <4>2, <1>1 DEF Pointing
      <4>4. e[t][i]["profile"] \in DOMAIN d.profiles
        BY <3>1, <3>2, <4>1 DEF Nullable
      <4> QED
        BY <4>1, <4>3, <4>4, <3>2, <1>6
    <3>3. CASE r[2] # "profiles"
      BY <3>1, <3>3, <1>3, ReferencesAreToTables
    <3> QED
      BY <3>2, <3>3
  <2>5. Refers(e, t, e[t][i])
    BY <2>4 DEF Refers
  <2> QED
    BY <2>2, <2>3, <2>5, LegalIs
<1>10. \A x \in e.usage : x.entry \in DOMAIN e.entries
  BY <1>2, <1>3 DEF Consistent, Tables
<1>11. Sound(e)
  BY <1>7, <1>8, <1>9, <1>10 DEF Sound, Consistent
<1>12. \A t \in Tables : \A i \in DOMAIN e[t] \ DOMAIN d[t] : i >= d.next
  BY <1>2, <1>3, <1>6
<1> QED
  BY <1>1, <1>2, <1>3, <1>6, <1>11, <1>12 DEF Evolves

LEMMA DeletesEvolve ==
  ASSUME NEW d, Sound(d), NEW e, NEW id,
         \/ e \in DeleteProfile(d, id) \/ e \in DeleteMaskingServer(d, id)
         \/ e \in DeleteProvider(d, id) \/ e \in DeleteProxy(d, id)
         \/ e \in DeleteRoute(d, id) \/ e \in DeleteRouteEntry(d, id)
  PROVE  Evolves(d, e)
<1>1. \E t \in Tables : e \in Delete(d, t, id)
  BY DEF DeleteProfile, DeleteMaskingServer, DeleteProvider, DeleteProxy, DeleteRoute,
         DeleteRouteEntry, Tables
<1> QED
  BY <1>1, DeleteEvolves

-----------------------------------------------------------------------------
(* The console: every command and every step of a job leaves a sound store. *)

LEMMA FinishEvolves ==
  ASSUME Sound(db), NEW outcomes, \A e \in outcomes : Evolves(db, e), Finish(outcomes)
  PROVE  Evolves(db, db')
BY SoundStays DEF Finish, Go

LEMMA AdminCommandsEvolve ==
  ASSUME Sound(db), NEW p,
         \/ ProfileCreate \/ ProfileEdit(p) \/ ProfileDelete(p) \/ TokenRotate(p)
         \/ MaskAdd(p) \/ MaskSetDefault(p) \/ MaskDelete(p) \/ MaskSet(p)
         \/ ProviderAdd(p) \/ SetupProvider(p) \/ ProviderShare(p) \/ ProviderDelete(p)
         \/ ProviderEdit(p) \/ ProxyCreate(p) \/ ProxyEdit(p) \/ ProxyDelete(p)
  PROVE  Evolves(db, db')
<1>1. CASE ProfileCreate
  BY <1>1, CreatesEvolve DEF ProfileCreate, Run
<1>2. CASE ProfileEdit(p)
  BY <1>2, SettersEvolve DEF ProfileEdit, Run
<1>3. CASE ProfileDelete(p)
  BY <1>3, DeletesEvolve DEF ProfileDelete, Run
<1>4. CASE TokenRotate(p)
  BY <1>4, RotateEvolves DEF TokenRotate, Run
<1>5. CASE MaskAdd(p)
  BY <1>5, CreatesEvolve DEF MaskAdd, Run
<1>6. CASE MaskSetDefault(p)
  BY <1>6, SettersEvolve DEF MaskSetDefault, Run
<1>7. CASE MaskDelete(p)
  BY <1>7, DeletesEvolve DEF MaskDelete, Run
<1>8. CASE MaskSet(p)
  BY <1>8, SoundStays DEF MaskSet, Begin
<1>9. CASE ProviderAdd(p)
  BY <1>9, CreatesEvolve DEF ProviderAdd, Run
<1>10. CASE SetupProvider(p)
  BY <1>10, CreatesEvolve DEF SetupProvider, Run
<1>11. CASE ProviderShare(p)
  BY <1>11, SettersEvolve DEF ProviderShare, Run
<1>12. CASE ProviderDelete(p)
  BY <1>12, DeletesEvolve DEF ProviderDelete, Run
<1>13. CASE ProviderEdit(p)
  BY <1>13, SoundStays DEF ProviderEdit, Begin
<1>14. CASE ProxyCreate(p)
  BY <1>14, CreatesEvolve DEF ProxyCreate, Run
<1>15. CASE ProxyEdit(p)
  BY <1>15, SettersEvolve DEF ProxyEdit, Run
<1>16. CASE ProxyDelete(p)
  BY <1>16, DeletesEvolve DEF ProxyDelete, Run
<1> QED
  BY <1>1, <1>2, <1>3, <1>4, <1>5, <1>6, <1>7, <1>8, <1>9, <1>10, <1>11, <1>12, <1>13, <1>14,
     <1>15, <1>16

LEMMA RouteCommandsEvolve ==
  ASSUME Sound(db), NEW p,
         \/ RouteEdit(p) \/ RouteDelete(p) \/ RouteShare(p) \/ RouteCreate(p)
         \/ ModelAdd(p) \/ ModelRemove(p) \/ ModelMove(p) \/ LogUsage(p)
  PROVE  Evolves(db, db')
<1>1. CASE RouteEdit(p)
  BY <1>1, SettersEvolve DEF RouteEdit, Run
<1>2. CASE RouteDelete(p)
  BY <1>2, DeletesEvolve DEF RouteDelete, Run
<1>3. CASE RouteShare(p)
  BY <1>3, SettersEvolve DEF RouteShare, Run
<1>4. CASE RouteCreate(p)
  BY <1>4, CreatesEvolve DEF RouteCreate, Begin
<1>5. CASE ModelAdd(p)
  BY <1>5, SoundStays DEF ModelAdd, Begin
<1>6. CASE ModelRemove(p)
  BY <1>6, DeletesEvolve DEF ModelRemove, Run
<1>7. CASE ModelMove(p)
  BY <1>7, SoundStays DEF ModelMove, Begin
<1>8. CASE LogUsage(p)
  BY <1>8, UsageEvolves DEF LogUsage, Run
<1> QED
  BY <1>1, <1>2, <1>3, <1>4, <1>5, <1>6, <1>7, <1>8

LEMMA JobsEvolve ==
  ASSUME Sound(db),
         MaskSetWrites \/ ProviderEditWrites \/ RouteWizard \/ ModelAddWrites \/ ModelMoveWrites
           \/ Interrupt
  PROVE  Evolves(db, db')
<1>1. CASE MaskSetWrites
  BY <1>1, UpdateMaskEvolves, FinishEvolves DEF MaskSetWrites
<1>2. CASE ProviderEditWrites
  BY <1>2, UpdateProviderEvolves, FinishEvolves DEF ProviderEditWrites
<1>3. CASE RouteWizard
  BY <1>3, CreatesEvolve, SoundStays DEF RouteWizard, Go
<1>4. CASE ModelAddWrites
  <2>1. CASE job.target = None
    BY <1>4, <2>1, CreatesEvolve, FinishEvolves DEF ModelAddWrites
  <2>2. CASE job.target # None
    BY <1>4, <2>2, CreatesEvolve, FinishEvolves DEF ModelAddWrites
  <2> QED
    BY <2>1, <2>2
<1>5. CASE ModelMoveWrites
  BY <1>5, PriorityEvolves DEF ModelMoveWrites, Go
<1>6. CASE Interrupt
  BY <1>6, SoundStays DEF Interrupt, Go
<1> QED
  BY <1>1, <1>2, <1>3, <1>4, <1>5, <1>6

(* A chain as the store lists it: its entries, finitely many.                *)
LEMMA ChainsAreLists ==
  ASSUME NEW d, Sound(d), NEW r, NEW chain \in RouteEntries(d, r)
  PROVE  \E n \in Nat : chain \in [1 .. n -> Chain(d, r)]
<1>1. Chain(d, r) \subseteq 1 .. d.next - 1 /\ d.next \in Nat
  BY DEF Chain, Pointing, Sound, Consistent, IsStore, Tables
<1>2. IsFiniteSet(1 .. d.next - 1)
  BY <1>1, FS_Interval
<1>3. Cardinality(Chain(d, r)) \in Nat
  BY <1>1, <1>2, FS_Subset, FS_CardinalityType
<1> QED
  BY <1>3 DEF RouteEntries, SetToSeqs
=============================================================================
