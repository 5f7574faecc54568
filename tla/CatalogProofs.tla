--------------------------- MODULE CatalogProofs ---------------------------
(***************************************************************************)
(* What every command, finished, interrupted or failed, leaves behind, for *)
(* any store and any number of commands: rows SQLite accepts, other        *)
(* profiles as they were, an edited provider on the mask it had, a moved   *)
(* entry where it was wanted, and nothing of a bootstrap that failed.      *)
(***************************************************************************)
EXTENDS Catalog, StoreProofs

(* ------------------------- whose a row is ------------------------------ *)

LEMMA OwnerIs ==
  ASSUME NEW d, NEW i
  PROVE  /\ Owner(d, "profiles", i) = i
         /\ Owner(d, "masks", i) = d.masks[i].profile
         /\ Owner(d, "providers", i) = d.providers[i].profile
         /\ Owner(d, "proxies", i) = d.proxies[i].profile
         /\ Owner(d, "routes", i) = d.proxies[d.routes[i].proxy].profile
         /\ Owner(d, "entries", i) = d.proxies[d.routes[d.entries[i].route].proxy].profile
<1>1. Owner(d, "profiles", i) = i
  BY DEF Owner
<1>2. Owner(d, "masks", i) = d.masks[i].profile
  BY DEF Owner
<1>3. Owner(d, "providers", i) = d.providers[i].profile
  BY DEF Owner
<1>4. Owner(d, "proxies", i) = d.proxies[i].profile
  BY DEF Owner
<1>5. Owner(d, "routes", i) = d.proxies[d.routes[i].proxy].profile
  BY DEF Owner, RouteOwnerProfile
<1>6. Owner(d, "entries", i) = d.proxies[d.routes[d.entries[i].route].proxy].profile
  BY DEF Owner, RouteOwnerProfile
<1> QED
  BY <1>1, <1>2, <1>3, <1>4, <1>5, <1>6

(* The references a row must have are there.                                 *)
LEMMA RowsRefer ==
  ASSUME NEW d, Sound(d)
  PROVE  /\ \A i \in DOMAIN d.masks : d.masks[i].profile \in DOMAIN d.profiles
         /\ \A i \in DOMAIN d.providers :
              /\ d.providers[i].profile \in DOMAIN d.profiles
              /\ d.providers[i].mask \in DOMAIN d.masks \cup {None}
         /\ \A i \in DOMAIN d.proxies : d.proxies[i].profile \in DOMAIN d.profiles
         /\ \A i \in DOMAIN d.routes : d.routes[i].proxy \in DOMAIN d.proxies
         /\ \A i \in DOMAIN d.entries :
              /\ d.entries[i].route \in DOMAIN d.routes
              /\ d.entries[i].provider \in DOMAIN d.providers \cup {None}
              /\ d.entries[i].target \in DOMAIN d.routes \cup {None}
         /\ \A i \in DOMAIN d.profiles : d.profiles[i].default \in DOMAIN d.masks \cup {None}
<1>1. ASSUME NEW t \in Tables, NEW i \in DOMAIN d[t], NEW r \in References(t)
      PROVE  d[t][i][r[1]] \in DOMAIN d[r[2]] \/ (r[1] \in Nullable /\ d[t][i][r[1]] = None)
  BY LegalIs DEF Sound, Consistent, Refers
<1>2. \A i \in DOMAIN d.masks : d.masks[i].profile \in DOMAIN d.profiles
  <2>1. <<"profile", "profiles">> \in References("masks")
    BY ReferencesOf
  <2> QED
    BY <1>1, <2>1 DEF Tables, Nullable
<1>3. \A i \in DOMAIN d.proxies : d.proxies[i].profile \in DOMAIN d.profiles
  <2>1. <<"profile", "profiles">> \in References("proxies")
    BY ReferencesOf
  <2> QED
    BY <1>1, <2>1 DEF Tables, Nullable
<1>4. \A i \in DOMAIN d.routes : d.routes[i].proxy \in DOMAIN d.proxies
  <2>1. <<"proxy", "proxies">> \in References("routes")
    BY ReferencesOf
  <2> QED
    BY <1>1, <2>1 DEF Tables, Nullable
<1>5. \A i \in DOMAIN d.profiles : d.profiles[i].default \in DOMAIN d.masks \cup {None}
  <2>1. <<"default", "masks">> \in References("profiles")
    BY ReferencesOf
  <2> QED
    BY <1>1, <2>1 DEF Tables, Nullable
<1>6. ASSUME NEW i \in DOMAIN d.providers
      PROVE  /\ d.providers[i].profile \in DOMAIN d.profiles
             /\ d.providers[i].mask \in DOMAIN d.masks \cup {None}
  <2>1. <<"profile", "profiles">> \in References("providers") /\ <<"mask", "masks">> \in References("providers")
    BY ReferencesOf
  <2> QED
    BY <1>1, <2>1 DEF Tables, Nullable
<1>7. ASSUME NEW i \in DOMAIN d.entries
      PROVE  /\ d.entries[i].route \in DOMAIN d.routes
             /\ d.entries[i].provider \in DOMAIN d.providers \cup {None}
             /\ d.entries[i].target \in DOMAIN d.routes \cup {None}
  <2>1. /\ <<"route", "routes">> \in References("entries")
        /\ <<"provider", "providers">> \in References("entries")
        /\ <<"target", "routes">> \in References("entries")
    BY ReferencesOf
  <2> QED
    BY <1>1, <2>1 DEF Tables, Nullable
<1> QED
  BY <1>2, <1>3, <1>4, <1>5, <1>6, <1>7

LEMMA IdsArePositive ==
  ASSUME NEW d, Sound(d), NEW t \in Tables, NEW i \in DOMAIN d[t]
  PROVE  i \in Nat \ {0} /\ i < d.next
BY DEF Sound, IsStore, Consistent

(* As long as the owner columns stay, so does the owner.                     *)
LEMMA OwnersFollow ==
  ASSUME NEW d, Sound(d), NEW e, Sound(e),
         \A u \in Tables \ {"profiles"} : \A k \in DOMAIN e[u] \cap DOMAIN d[u] :
           e[u][k][OwnerColumn(u)] = d[u][k][OwnerColumn(u)],
         NEW t \in Tables, NEW i \in DOMAIN d[t], i \in DOMAIN e[t]
  PROVE  Owner(e, t, i) = Owner(d, t, i)
<1>1. /\ \A k \in DOMAIN d.masks : k \in DOMAIN e.masks => e.masks[k].profile = d.masks[k].profile
      /\ \A k \in DOMAIN d.providers :
           k \in DOMAIN e.providers => e.providers[k].profile = d.providers[k].profile
      /\ \A k \in DOMAIN d.proxies : k \in DOMAIN e.proxies => e.proxies[k].profile = d.proxies[k].profile
      /\ \A k \in DOMAIN d.routes : k \in DOMAIN e.routes => e.routes[k].proxy = d.routes[k].proxy
      /\ \A k \in DOMAIN d.entries : k \in DOMAIN e.entries => e.entries[k].route = d.entries[k].route
  BY OwnerColumns DEF Tables
<1>2. Sound(e)
  OBVIOUS
<1>3. \A k \in DOMAIN d.routes : k \in DOMAIN e.routes =>
        e.proxies[e.routes[k].proxy].profile = d.proxies[d.routes[k].proxy].profile
  BY <1>1, <1>2, RowsRefer
<1> DEFINE same(u, k) == Owner(e, u, k) = Owner(d, u, k)
<1>4. same("profiles", i)
  BY OwnerIs
<1>5. ASSUME i \in DOMAIN d.masks, i \in DOMAIN e.masks
      PROVE  same("masks", i)
  <2>1. Owner(e, "masks", i) = e.masks[i].profile /\ Owner(d, "masks", i) = d.masks[i].profile
    BY OwnerIs
  <2> QED
    BY <1>1, <1>5, <2>1
<1>6. ASSUME i \in DOMAIN d.providers, i \in DOMAIN e.providers
      PROVE  same("providers", i)
  <2>1. /\ Owner(e, "providers", i) = e.providers[i].profile
        /\ Owner(d, "providers", i) = d.providers[i].profile
    BY OwnerIs
  <2> QED
    BY <1>1, <1>6, <2>1
<1>7. ASSUME i \in DOMAIN d.proxies, i \in DOMAIN e.proxies
      PROVE  same("proxies", i)
  <2>1. /\ Owner(e, "proxies", i) = e.proxies[i].profile
        /\ Owner(d, "proxies", i) = d.proxies[i].profile
    BY OwnerIs
  <2> QED
    BY <1>1, <1>7, <2>1
<1>8. ASSUME i \in DOMAIN d.routes, i \in DOMAIN e.routes
      PROVE  same("routes", i)
  <2>1. /\ Owner(e, "routes", i) = e.proxies[e.routes[i].proxy].profile
        /\ Owner(d, "routes", i) = d.proxies[d.routes[i].proxy].profile
    BY OwnerIs
  <2> QED
    BY <1>3, <1>8, <2>1
<1>9. ASSUME i \in DOMAIN d.entries, i \in DOMAIN e.entries
      PROVE  same("entries", i)
  <2>1. /\ Owner(e, "entries", i) = e.proxies[e.routes[e.entries[i].route].proxy].profile
        /\ Owner(d, "entries", i) = d.proxies[d.routes[d.entries[i].route].proxy].profile
    BY OwnerIs
  <2>2. e.entries[i].route = d.entries[i].route
    <3>1. \A k \in DOMAIN d.entries : k \in DOMAIN e.entries => e.entries[k].route = d.entries[k].route
      BY <1>1
    <3> QED
      BY <1>9, <3>1
  <2>3. d.entries[i].route \in DOMAIN d.routes
    BY <1>9, RowsRefer
  <2>4. e.entries[i].route \in DOMAIN e.routes
    BY <1>2, <1>9, RowsRefer
  <2> QED
    BY <1>3, <2>1, <2>2, <2>3, <2>4
<1> HIDE DEF same
<1>10. same(t, i)
  BY <1>4, <1>5, <1>6, <1>7, <1>8, <1>9 DEF Tables
<1> QED
  BY <1>10 DEF same

LEMMA OwnersStay ==
  ASSUME NEW d, Sound(d), NEW e, Evolves(d, e),
         NEW t \in Tables, NEW i \in DOMAIN d[t], i \in DOMAIN e[t]
  PROVE  Owner(e, t, i) = Owner(d, t, i)
BY OwnersFollow DEF Evolves

(* ------------------ what a statement does to other rows ----------------- *)

LEMMA SameRowsKeepOthers ==
  ASSUME NEW d, NEW e, NEW p,
         \A t \in Tables : \A i \in DOMAIN d[t] : i \in DOMAIN e[t] /\ e[t][i] = d[t][i]
  PROVE  OthersKeep(d, e, p)
BY DEF OthersKeep

LEMMA InsertKeepsOthers ==
  ASSUME NEW d, Sound(d), NEW t \in Tables, NEW row, IsRow(t, row), NEW e \in Insert(d, t, row), NEW p
  PROVE  OthersKeep(d, e, p)
<1>1. /\ DOMAIN e[t] = DOMAIN d[t] \cup {d.next}
      /\ \A u \in Tables \ {t} : e[u] = d[u]
      /\ \A i \in DOMAIN d[t] \ {d.next} : e[t][i] = d[t][i]
  BY InsertedStore DEF Sound
<1>2. d.next \notin DOMAIN d[t]
  BY DEF Sound, Consistent, IsStore
<1> QED
  BY <1>1, <1>2, SameRowsKeepOthers

LEMMA UpdateKeepsOthers ==
  ASSUME NEW d, Sound(d), NEW t \in Tables, NEW id, NEW row, IsRow(t, row),
         NEW e \in Update(d, t, id, row), NEW p, id \in DOMAIN d[t] => Owner(d, t, id) = p
  PROVE  OthersKeep(d, e, p)
<1>1. /\ id \in DOMAIN d[t]
      /\ \A u \in Tables : DOMAIN e[u] = DOMAIN d[u]
      /\ \A u \in Tables \ {t} : e[u] = d[u]
      /\ \A i \in DOMAIN d[t] \ {id} : e[t][i] = d[t][i]
  BY UpdatedStore DEF Sound
<1> QED
  BY <1>1 DEF OthersKeep

LEMMA SetColumnKeepsOthers ==
  ASSUME NEW d, Sound(d), NEW t \in Tables, NEW id, NEW column, NEW value,
         NEW e \in SetColumn(d, t, id, column, value), NEW p, id \in DOMAIN d[t] => Owner(d, t, id) = p
  PROVE  OthersKeep(d, e, p)
<1> DEFINE row == [d[t][id] EXCEPT ![column] = value]
<1>1. id \in DOMAIN d[t] /\ e \in Update(d, t, id, row)
  BY DEF SetColumn
<1>2. IsRow(t, row)
  BY <1>1, RowFields DEF Sound, IsStore
<1> QED
  BY <1>1, <1>2, UpdateKeepsOthers

(* What a deletion reaches belongs to the one whose row is deleted, but for  *)
(* the chain entries that lead to a provider or a route of theirs.           *)
LEMMA DoomedAreOwned ==
  ASSUME NEW d, NEW t \in Tables, NEW id, NEW p,
         t = "profiles" \/ id \in DOMAIN d[t], Owner(d, t, id) = p,
         NEW dead, dead = Doomed(d, t, {id}),
         NEW u \in Tables, NEW i \in DOMAIN d[u], i \in dead[u]
  PROVE  \/ Owner(d, u, i) = p
         \/ /\ u = "entries"
            /\ d.entries[i].provider \in dead.providers \/ d.entries[i].target \in dead.routes
<1>1. /\ \A k \in dead.profiles : t = "profiles" /\ k = id
      /\ \A k \in dead.masks : (t = "masks" /\ k = id) \/ d.masks[k].profile \in dead.profiles
      /\ \A k \in dead.providers : (t = "providers" /\ k = id) \/ d.providers[k].profile \in dead.profiles
      /\ \A k \in dead.proxies : (t = "proxies" /\ k = id) \/ d.proxies[k].profile \in dead.profiles
      /\ \A k \in dead.routes : (t = "routes" /\ k = id) \/ d.routes[k].proxy \in dead.proxies
      /\ \A k \in dead.entries :
           \/ t = "entries" /\ k = id
           \/ d.entries[k].route \in dead.routes
           \/ d.entries[k].provider \in dead.providers
           \/ d.entries[k].target \in dead.routes
  BY DEF Doomed, Pointing, Referring
<1>2. /\ t = "profiles" => id = p
      /\ t = "masks" => d.masks[id].profile = p
      /\ t = "providers" => d.providers[id].profile = p
      /\ t = "proxies" => d.proxies[id].profile = p
      /\ t = "routes" => d.proxies[d.routes[id].proxy].profile = p
      /\ t = "entries" => d.proxies[d.routes[d.entries[id].route].proxy].profile = p
  <2>1. ASSUME NEW k, Owner(d, k, id) = p
        PROVE  /\ k = "profiles" => id = p
               /\ k = "masks" => d.masks[id].profile = p
               /\ k = "providers" => d.providers[id].profile = p
               /\ k = "proxies" => d.proxies[id].profile = p
               /\ k = "routes" => d.proxies[d.routes[id].proxy].profile = p
               /\ k = "entries" => d.proxies[d.routes[d.entries[id].route].proxy].profile = p
    <3>1. /\ Owner(d, "profiles", id) = id
          /\ Owner(d, "masks", id) = d.masks[id].profile
          /\ Owner(d, "providers", id) = d.providers[id].profile
          /\ Owner(d, "proxies", id) = d.proxies[id].profile
          /\ Owner(d, "routes", id) = d.proxies[d.routes[id].proxy].profile
          /\ Owner(d, "entries", id) = d.proxies[d.routes[d.entries[id].route].proxy].profile
      BY OwnerIs
    <3> QED
      BY <2>1, <3>1
  <2> QED
    BY <2>1
<1>3. \A k \in dead.profiles : k = p
  BY <1>1, <1>2
<1>4. /\ \A k \in dead.masks : d.masks[k].profile = p
      /\ \A k \in dead.providers : d.providers[k].profile = p
      /\ \A k \in dead.proxies : d.proxies[k].profile = p
  BY <1>1, <1>2, <1>3
<1>5. \A k \in dead.routes : d.proxies[d.routes[k].proxy].profile = p
  BY <1>1, <1>2, <1>4
<1>6. \A k \in dead.entries :
        \/ d.proxies[d.routes[d.entries[k].route].proxy].profile = p
        \/ d.entries[k].provider \in dead.providers \/ d.entries[k].target \in dead.routes
  BY <1>1, <1>2, <1>5
<1> DEFINE led(v) == /\ v = "entries"
                     /\ \/ d.entries[i].provider \in dead.providers
                        \/ d.entries[i].target \in dead.routes
           fits(v) == Owner(d, v, i) = p \/ led(v)
<1>7. /\ Owner(d, "profiles", i) = i
      /\ Owner(d, "masks", i) = d.masks[i].profile
      /\ Owner(d, "providers", i) = d.providers[i].profile
      /\ Owner(d, "proxies", i) = d.proxies[i].profile
      /\ Owner(d, "routes", i) = d.proxies[d.routes[i].proxy].profile
      /\ Owner(d, "entries", i) = d.proxies[d.routes[d.entries[i].route].proxy].profile
  BY OwnerIs
<1>8. /\ i \in dead.profiles => fits("profiles")
      /\ i \in dead.masks => fits("masks")
      /\ i \in dead.providers => fits("providers")
      /\ i \in dead.proxies => fits("proxies")
      /\ i \in dead.routes => fits("routes")
      /\ i \in dead.entries => fits("entries")
  BY <1>3, <1>4, <1>5, <1>6, <1>7
<1> HIDE DEF fits
<1>9. fits(u)
  BY <1>8 DEF Tables
<1> QED
  BY <1>9 DEF fits

LEMMA DoomedExist ==
  ASSUME NEW d, NEW t \in Tables, NEW id, t = "profiles" \/ id \in DOMAIN d[t],
         NEW dead, dead = Doomed(d, t, {id})
  PROVE  /\ dead.masks \subseteq DOMAIN d.masks /\ dead.providers \subseteq DOMAIN d.providers
         /\ dead.proxies \subseteq DOMAIN d.proxies /\ dead.routes \subseteq DOMAIN d.routes
         /\ dead.entries \subseteq DOMAIN d.entries
BY DEF Doomed, Pointing, Referring, Tables

LEMMA RowsEqual ==
  ASSUME NEW t, NEW a, NEW b, IsRow(t, a), IsRow(t, b), \A c \in Columns(t) : a[c] = b[c]
  PROVE  a = b
BY DEF IsRow

LEMMA MaskColumnIs ==
  ASSUME NEW u \in Tables, MaskColumn(u) \in Columns(u)
  PROVE  u = "profiles" \/ u = "providers"
<1>1. u # "masks"
  BY DEF MaskColumn, Columns
<1>2. u # "proxies"
  BY DEF MaskColumn, Columns
<1>3. u # "routes"
  BY DEF MaskColumn, Columns
<1>4. u # "entries"
  BY DEF MaskColumn, Columns
<1> QED
  BY <1>1, <1>2, <1>3, <1>4 DEF Tables

LEMMA DeleteKeepsOthers ==
  ASSUME NEW d, Sound(d), NEW t \in Tables, NEW id, NEW p,
         t = "profiles" \/ id \in DOMAIN d[t], Owner(d, t, id) = p, NEW e \in Delete(d, t, id)
  PROVE  OthersKeep(d, e, p)
<1> DEFINE dead == Doomed(d, t, {id})
<1>0. dead = Doomed(d, t, {id})
  OBVIOUS
<1> HIDE DEF dead
<1>1. /\ IsStore(e)
      /\ \A u \in Tables :
           /\ DOMAIN e[u] = DOMAIN d[u] \ dead[u]
           /\ \A i \in DOMAIN e[u] : \A c \in Columns(u) :
                e[u][i][c] = IF c = MaskColumn(u) /\ d[u][i][c] \in dead.masks
                             THEN None ELSE d[u][i][c]
  BY <1>0, DeletedStore DEF Sound
<1>2. /\ dead.masks \subseteq DOMAIN d.masks /\ dead.providers \subseteq DOMAIN d.providers
      /\ dead.routes \subseteq DOMAIN d.routes
  BY <1>0, DoomedExist
<1>3. ASSUME NEW u \in Tables, NEW i \in DOMAIN d[u], i \in dead[u]
      PROVE  \/ Owner(d, u, i) = p
             \/ /\ u = "entries"
                /\ d.entries[i].provider \in dead.providers \/ d.entries[i].target \in dead.routes
  BY <1>0, <1>3, DoomedAreOwned
<1>4. /\ \A i \in dead.masks : i \in GoneOf(d, e, "masks", p)
      /\ \A i \in dead.providers : i \in GoneOf(d, e, "providers", p)
      /\ \A i \in dead.routes : i \in GoneOf(d, e, "routes", p)
  <2>1. ASSUME NEW u \in Tables, u # "entries", dead[u] \subseteq DOMAIN d[u], NEW i \in dead[u]
        PROVE  i \in GoneOf(d, e, u, p)
    BY <1>1, <1>3, <2>1 DEF GoneOf
  <2>2. "masks" \in Tables /\ "providers" \in Tables /\ "routes" \in Tables
    BY DEF Tables
  <2> QED
    BY <1>2, <2>1, <2>2
<1>5. ASSUME NEW u \in Tables, NEW i \in DOMAIN d[u], i \in dead[u]
      PROVE  Owner(d, u, i) = p \/ Collateral(d, e, u, i, p)
  <2>1. CASE /\ u = "entries"
             /\ d.entries[i].provider \in dead.providers \/ d.entries[i].target \in dead.routes
    <3>1. i \notin DOMAIN e.entries
      BY <1>1, <1>5, <2>1
    <3> QED
      BY <1>4, <2>1, <3>1 DEF Collateral
  <2> QED
    BY <1>3, <1>5, <2>1
<1>6. ASSUME NEW u \in Tables, NEW i \in DOMAIN d[u], i \notin dead[u]
      PROVE  (i \in DOMAIN e[u] /\ e[u][i] = d[u][i]) \/ Collateral(d, e, u, i, p)
  <2>1. i \in DOMAIN e[u]
    BY <1>1, <1>6
  <2>2. /\ IsRow(u, d[u][i]) /\ IsRow(u, e[u][i])
        /\ \A c \in Columns(u) :
             e[u][i][c] = IF c = MaskColumn(u) /\ d[u][i][c] \in dead.masks
                          THEN None ELSE d[u][i][c]
    BY <1>1, <2>1 DEF Sound, IsStore
  <2>3. CASE \A c \in Columns(u) : ~(c = MaskColumn(u) /\ d[u][i][c] \in dead.masks)
    <3>1. e[u][i] = d[u][i]
      BY <2>2, <2>3, RowsEqual
    <3> QED
      BY <2>1, <3>1
  <2>4. CASE \E c \in Columns(u) : c = MaskColumn(u) /\ d[u][i][c] \in dead.masks
    <3> DEFINE c == MaskColumn(u)
               row == [d[u][i] EXCEPT ![c] = None]
    <3>1. c \in Columns(u) /\ d[u][i][c] \in dead.masks
      BY <2>4
    <3>2. IsRow(u, row) /\ \A k \in Columns(u) : row[k] = IF k = c THEN None ELSE d[u][i][k]
      <4> DEFINE old == d[u][i]
      <4>1. IsRow(u, old)
        BY <2>2
      <4> HIDE DEF c, old
      <4>2. /\ IsRow(u, [old EXCEPT ![c] = None])
            /\ \A k \in Columns(u) : [old EXCEPT ![c] = None][k] = IF k = c THEN None ELSE old[k]
        BY <4>1 DEF IsRow
      <4> QED
        BY <4>2 DEF old
    <3>3. \A k \in Columns(u) : e[u][i][k] = IF k = c THEN None ELSE d[u][i][k]
      BY <2>2, <3>1
    <3> HIDE DEF row, c
    <3>4. \A k \in Columns(u) : e[u][i][k] = row[k]
      BY <3>2, <3>3
    <3>5. e[u][i] = row
      BY <2>2, <3>2, <3>4, RowsEqual
    <3>6. u = "profiles" \/ u = "providers"
      <4>1. MaskColumn(u) \in Columns(u)
        BY <3>1 DEF c
      <4> QED
        BY <4>1, MaskColumnIs
    <3>7. CASE u = "profiles"
      <4>1. c = "default"
        BY <3>7 DEF MaskColumn, c
      <4>2. d.profiles[i].default \in dead.masks
        BY <3>1, <3>7, <4>1
      <4>3. e.profiles[i] = [d.profiles[i] EXCEPT !.default = None]
        BY <3>5, <3>7, <4>1 DEF row
      <4>4. i \in DOMAIN e.profiles
        BY <2>1, <3>7
      <4> QED
        BY <1>4, <3>7, <4>2, <4>3, <4>4 DEF Collateral
    <3>8. CASE u = "providers"
      <4>1. c = "mask"
        BY <3>8 DEF MaskColumn, c
      <4>2. d.providers[i].mask \in dead.masks
        BY <3>1, <3>8, <4>1
      <4>3. e.providers[i] = [d.providers[i] EXCEPT !.mask = None]
        BY <3>5, <3>8, <4>1 DEF row
      <4>4. i \in DOMAIN e.providers
        BY <2>1, <3>8
      <4> QED
        BY <1>4, <3>8, <4>2, <4>3, <4>4 DEF Collateral
    <3> QED
      BY <3>6, <3>7, <3>8
  <2> QED
    BY <2>3, <2>4
<1> QED
  BY <1>5, <1>6 DEF OthersKeep

(* ---------------- what the store's methods do to other rows -------------- *)

LEMMA CreatesKeepOthers ==
  ASSUME NEW d, Sound(d), NEW e, NEW p, NEW name, NEW q, NEW m, NEW x, NEW y, NEW shared,
         \/ e \in CreateProfile(d, name)
         \/ e \in CreateMaskingServer(d, q, name, shared)
         \/ e \in CreateProvider(d, q, name, m, shared)
         \/ e \in CreateProxy(d, q, name)
         \/ e \in CreateRoute(d, x, name)
         \/ e \in AddRouteEntry(d, x, m, y)
         \/ e \in AddRouteEntryRef(d, x, m, y)
  PROVE  OthersKeep(d, e, p)
<1>1. ASSUME NEW t \in Tables, NEW row, IsRow(t, row), e \in Insert(d, t, row)
      PROVE  OthersKeep(d, e, p)
  BY <1>1, InsertKeepsOthers
<1>2. CASE e \in CreateProfile(d, name)
  <2> DEFINE row == [name |-> name, default |-> None]
  <2>1. IsRow("profiles", row) /\ "profiles" \in Tables
    BY DEF IsRow, Columns, Tables
  <2>2. e \in Insert(d, "profiles", row)
    BY <1>2 DEF CreateProfile
  <2> QED
    BY <1>1, <2>1, <2>2
<1>3. CASE e \in CreateMaskingServer(d, q, name, shared)
  <2> DEFINE row == [profile |-> q, name |-> name, shared |-> shared]
  <2>1. IsRow("masks", row) /\ "masks" \in Tables
    BY DEF IsRow, Columns, Tables
  <2>2. e \in Insert(d, "masks", row)
    BY <1>3 DEF CreateMaskingServer
  <2> QED
    BY <1>1, <2>1, <2>2
<1>4. CASE e \in CreateProvider(d, q, name, m, shared)
  <2> DEFINE row == [profile |-> q, name |-> name, mask |-> m, shared |-> shared]
  <2>1. IsRow("providers", row) /\ "providers" \in Tables
    BY DEF IsRow, Columns, Tables
  <2>2. e \in Insert(d, "providers", row)
    BY <1>4 DEF CreateProvider
  <2> QED
    BY <1>1, <2>1, <2>2
<1>5. CASE e \in CreateProxy(d, q, name)
  <2> DEFINE row == [profile |-> q, name |-> name]
  <2>1. IsRow("proxies", row) /\ "proxies" \in Tables
    BY DEF IsRow, Columns, Tables
  <2>2. e \in Insert(d, "proxies", row)
    BY <1>5 DEF CreateProxy
  <2> QED
    BY <1>1, <2>1, <2>2
<1>6. CASE e \in CreateRoute(d, x, name)
  <2> DEFINE row == [proxy |-> x, name |-> name, shared |-> FALSE]
  <2>1. IsRow("routes", row) /\ "routes" \in Tables
    BY DEF IsRow, Columns, Tables
  <2>2. e \in Insert(d, "routes", row)
    BY <1>6 DEF CreateRoute
  <2> QED
    BY <1>1, <2>1, <2>2
<1>7. CASE e \in AddRouteEntry(d, x, m, y)
  <2> DEFINE row == [route |-> x, provider |-> m, target |-> None, priority |-> y]
  <2>1. IsRow("entries", row) /\ "entries" \in Tables
    BY DEF IsRow, Columns, Tables
  <2>2. e \in Insert(d, "entries", row)
    BY <1>7 DEF AddRouteEntry
  <2> QED
    BY <1>1, <2>1, <2>2
<1>8. CASE e \in AddRouteEntryRef(d, x, m, y)
  <2> DEFINE row == [route |-> x, provider |-> None, target |-> m, priority |-> y]
  <2>1. IsRow("entries", row) /\ "entries" \in Tables
    BY DEF IsRow, Columns, Tables
  <2>2. e \in Insert(d, "entries", row)
    BY <1>8 DEF AddRouteEntryRef
  <2> QED
    BY <1>1, <2>1, <2>2
<1> QED
  BY <1>2, <1>3, <1>4, <1>5, <1>6, <1>7, <1>8

LEMMA SettersKeepOthers ==
  ASSUME NEW d, Sound(d), NEW e, NEW p, NEW id, NEW value,
         \/ id = p /\ (e \in RenameProfile(d, id, value) \/ e \in SetProfileDefaultMasking(d, id, value))
         \/ Owner(d, "providers", id) = p /\ e \in SetProviderShared(d, id, value)
         \/ Owner(d, "proxies", id) = p /\ e \in UpdateProxy(d, id, value)
         \/ Owner(d, "routes", id) = p /\ (e \in UpdateRoute(d, id, value) \/ e \in SetRouteShared(d, id, value))
  PROVE  OthersKeep(d, e, p)
<1>1. ASSUME NEW t \in Tables, NEW c, e \in SetColumn(d, t, id, c, value), Owner(d, t, id) = p
      PROVE  OthersKeep(d, e, p)
  BY <1>1, SetColumnKeepsOthers
<1>2. Owner(d, "profiles", id) = id
  BY OwnerIs
<1>3. CASE id = p /\ (e \in RenameProfile(d, id, value) \/ e \in SetProfileDefaultMasking(d, id, value))
  BY <1>1, <1>2, <1>3 DEF RenameProfile, SetProfileDefaultMasking, Tables
<1>4. CASE Owner(d, "providers", id) = p /\ e \in SetProviderShared(d, id, value)
  BY <1>1, <1>4 DEF SetProviderShared, Tables
<1>5. CASE Owner(d, "proxies", id) = p /\ e \in UpdateProxy(d, id, value)
  BY <1>1, <1>5 DEF UpdateProxy, Tables
<1>6. CASE Owner(d, "routes", id) = p /\ (e \in UpdateRoute(d, id, value) \/ e \in SetRouteShared(d, id, value))
  BY <1>1, <1>6 DEF UpdateRoute, SetRouteShared, Tables
<1> QED
  BY <1>3, <1>4, <1>5, <1>6

LEMMA PriorityKeepsOthers ==
  ASSUME NEW d, Sound(d), NEW p, NEW id, NEW priority, id \in DOMAIN d.entries => Owner(d, "entries", id) = p,
         NEW e \in SetRouteEntryPriority(d, id, priority)
  PROVE  OthersKeep(d, e, p)
<1>1. CASE id \in DOMAIN d.entries
  BY <1>1, SetColumnKeepsOthers DEF SetRouteEntryPriority, Tables
<1>2. CASE id \notin DOMAIN d.entries
  BY <1>2, SameRowsKeepOthers DEF SetRouteEntryPriority
<1> QED
  BY <1>1, <1>2

LEMMA UpdateMaskKeepsOthers ==
  ASSUME NEW d, Sound(d), NEW p, NEW m, NEW name, NEW shared, m \in DOMAIN d.masks => Owner(d, "masks", m) = p,
         NEW e \in UpdateMaskingServer(d, m, name, shared)
  PROVE  OthersKeep(d, e, p)
<1> DEFINE row == [d.masks[m] EXCEPT !.name = name, !.shared = shared]
<1>1. m \in DOMAIN d.masks /\ e \in Update(d, "masks", m, row)
  BY DEF UpdateMaskingServer
<1>2. IsRow("masks", row)
  BY <1>1 DEF Sound, IsStore, IsRow, Columns, Tables
<1> QED
  BY <1>1, <1>2, UpdateKeepsOthers DEF Tables

LEMMA UpdateProviderKeepsOthers ==
  ASSUME NEW d, Sound(d), NEW p, NEW v, NEW name, NEW mask, NEW shared,
         v \in DOMAIN d.providers => Owner(d, "providers", v) = p,
         NEW e \in UpdateProvider(d, v, name, mask, shared)
  PROVE  OthersKeep(d, e, p)
<1> DEFINE row == [d.providers[v] EXCEPT !.name = name, !.mask = mask, !.shared = shared]
<1>1. v \in DOMAIN d.providers /\ e \in Update(d, "providers", v, row)
  BY DEF UpdateProvider
<1>2. IsRow("providers", row)
  BY <1>1 DEF Sound, IsStore, IsRow, Columns, Tables
<1> QED
  BY <1>1, <1>2, UpdateKeepsOthers DEF Tables

LEMMA DeletesKeepOthers ==
  ASSUME NEW d, Sound(d), NEW e, NEW p, NEW id,
         \/ id = p /\ e \in DeleteProfile(d, id)
         \/ id \in DOMAIN d.masks /\ Owner(d, "masks", id) = p /\ e \in DeleteMaskingServer(d, id)
         \/ id \in DOMAIN d.providers /\ Owner(d, "providers", id) = p /\ e \in DeleteProvider(d, id)
         \/ id \in DOMAIN d.proxies /\ Owner(d, "proxies", id) = p /\ e \in DeleteProxy(d, id)
         \/ id \in DOMAIN d.routes /\ Owner(d, "routes", id) = p /\ e \in DeleteRoute(d, id)
         \/ id \in DOMAIN d.entries /\ Owner(d, "entries", id) = p /\ e \in DeleteRouteEntry(d, id)
  PROVE  OthersKeep(d, e, p)
<1>1. ASSUME NEW t \in Tables, t = "profiles" \/ id \in DOMAIN d[t], Owner(d, t, id) = p, e \in Delete(d, t, id)
      PROVE  OthersKeep(d, e, p)
  BY <1>1, DeleteKeepsOthers
<1>2. Owner(d, "profiles", id) = id
  BY OwnerIs
<1>3. CASE id = p /\ e \in DeleteProfile(d, id)
  BY <1>1, <1>2, <1>3 DEF DeleteProfile, Tables
<1>4. CASE id \in DOMAIN d.masks /\ Owner(d, "masks", id) = p /\ e \in DeleteMaskingServer(d, id)
  BY <1>1, <1>4 DEF DeleteMaskingServer, Tables
<1>5. CASE id \in DOMAIN d.providers /\ Owner(d, "providers", id) = p /\ e \in DeleteProvider(d, id)
  BY <1>1, <1>5 DEF DeleteProvider, Tables
<1>6. CASE id \in DOMAIN d.proxies /\ Owner(d, "proxies", id) = p /\ e \in DeleteProxy(d, id)
  BY <1>1, <1>6 DEF DeleteProxy, Tables
<1>7. CASE id \in DOMAIN d.routes /\ Owner(d, "routes", id) = p /\ e \in DeleteRoute(d, id)
  BY <1>1, <1>7 DEF DeleteRoute, Tables
<1>8. CASE id \in DOMAIN d.entries /\ Owner(d, "entries", id) = p /\ e \in DeleteRouteEntry(d, id)
  BY <1>1, <1>8 DEF DeleteRouteEntry, Tables
<1> QED
  BY <1>3, <1>4, <1>5, <1>6, <1>7, <1>8

LEMMA UsageKeepsOthers ==
  ASSUME NEW d, Sound(d), NEW p, NEW q, NEW x, NEW e \in RecordUsage(d, q, x)
  PROVE  OthersKeep(d, e, p)
BY UsageEvolves, SameRowsKeepOthers

LEMMA RotateKeepsOthers ==
  ASSUME NEW d, Sound(d), NEW p, NEW e \in RotateProfileToken(d, p)
  PROVE  OthersKeep(d, e, p)
<1>1. /\ \A t \in Tables \ {"profiles"} : e[t] = d[t]
      /\ \A i \in DOMAIN d.profiles \ {p} : i \in DOMAIN e.profiles /\ e.profiles[i] = d.profiles[i]
  BY RotateEvolves
<1>2. Owner(d, "profiles", p) = p
  BY OwnerIs
<1>3. ASSUME NEW t \in Tables, NEW i \in DOMAIN d[t]
      PROVE  (i \in DOMAIN e[t] /\ e[t][i] = d[t][i]) \/ Owner(d, t, i) = p
  BY <1>1, <1>2
<1> QED
  BY <1>3 DEF OthersKeep

(* ----------------- what the commands do to other rows ------------------- *)

LEMMA ListedAreOwned ==
  ASSUME NEW d, NEW p
  PROVE  /\ \A m \in ListMaskingServers(d, p) : m \in DOMAIN d.masks /\ Owner(d, "masks", m) = p
         /\ \A v \in ListProviders(d, p) : v \in DOMAIN d.providers /\ Owner(d, "providers", v) = p
         /\ \A x \in ListProxies(d, p) : x \in DOMAIN d.proxies /\ Owner(d, "proxies", x) = p
         /\ \A r \in RoutesOf(d, p) : r \in DOMAIN d.routes /\ Owner(d, "routes", r) = p
         /\ \A r \in RoutesOf(d, p) : \A e \in Chain(d, r) :
              e \in DOMAIN d.entries /\ Owner(d, "entries", e) = p
<1>1. \A m \in ListMaskingServers(d, p) : m \in DOMAIN d.masks /\ Owner(d, "masks", m) = p
  BY OwnerIs DEF ListMaskingServers, Pointing
<1>2. \A v \in ListProviders(d, p) : v \in DOMAIN d.providers /\ Owner(d, "providers", v) = p
  BY OwnerIs DEF ListProviders, Pointing
<1>3. ASSUME NEW x \in ListProxies(d, p)
      PROVE  x \in DOMAIN d.proxies /\ Owner(d, "proxies", x) = p
  <2>1. Owner(d, "proxies", x) = d.proxies[x].profile
    BY OwnerIs
  <2> QED
    BY <2>1 DEF ListProxies, Pointing
<1>4. ASSUME NEW r \in RoutesOf(d, p)
      PROVE  r \in DOMAIN d.routes /\ Owner(d, "routes", r) = p
  <2>1. Owner(d, "routes", r) = d.proxies[d.routes[r].proxy].profile
    BY OwnerIs
  <2> QED
    BY <2>1 DEF RoutesOf, RouteOwnerProfile
<1>5. ASSUME NEW r \in RoutesOf(d, p), NEW e \in Chain(d, r)
      PROVE  e \in DOMAIN d.entries /\ Owner(d, "entries", e) = p
  <2>1. e \in DOMAIN d.entries /\ d.entries[e].route = r
    BY <1>5 DEF Chain, Pointing
  <2>2. d.proxies[d.routes[r].proxy].profile = p
    BY <1>5 DEF RoutesOf, RouteOwnerProfile
  <2>3. Owner(d, "entries", e) = d.proxies[d.routes[d.entries[e].route].proxy].profile
    BY OwnerIs
  <2> QED
    BY <2>1, <2>2, <2>3
<1> QED
  BY <1>1, <1>2, <1>3, <1>4, <1>5

LEMMA NothingKeepsOthers ==
  ASSUME NEW d, NEW p
  PROVE  OthersKeep(d, d, p)
BY SameRowsKeepOthers

LEMMA AdminCommandsKeepOthers ==
  ASSUME Sound(db), NEW p,
         \/ ProfileCreate \/ ProfileEdit(p) \/ ProfileDelete(p) \/ TokenRotate(p)
         \/ MaskAdd(p) \/ MaskSetDefault(p) \/ MaskDelete(p) \/ MaskSet(p)
         \/ ProviderAdd(p) \/ SetupProvider(p) \/ ProviderShare(p) \/ ProviderDelete(p)
         \/ ProviderEdit(p) \/ ProxyCreate(p) \/ ProxyEdit(p) \/ ProxyDelete(p)
  PROVE  OthersKeep(db, db', caller')
<1>1. CASE ProfileCreate
  BY <1>1, CreatesKeepOthers DEF ProfileCreate, Run
<1>2. CASE ProfileEdit(p)
  BY <1>2, SettersKeepOthers DEF ProfileEdit, Run
<1>3. CASE ProfileDelete(p)
  BY <1>3, DeletesKeepOthers DEF ProfileDelete, Run
<1>4. CASE TokenRotate(p)
  BY <1>4, RotateKeepsOthers DEF TokenRotate, Run
<1>5. CASE MaskAdd(p)
  BY <1>5, CreatesKeepOthers DEF MaskAdd, Run
<1>6. CASE MaskSetDefault(p)
  BY <1>6, SettersKeepOthers DEF MaskSetDefault, Run
<1>7. CASE MaskDelete(p)
  BY <1>7, ListedAreOwned, DeletesKeepOthers DEF MaskDelete, Run
<1>8. CASE MaskSet(p)
  BY <1>8, NothingKeepsOthers DEF MaskSet, Begin
<1>9. CASE ProviderAdd(p)
  BY <1>9, CreatesKeepOthers DEF ProviderAdd, Run
<1>10. CASE SetupProvider(p)
  BY <1>10, CreatesKeepOthers DEF SetupProvider, Run
<1>11. CASE ProviderShare(p)
  <2>1. PICK v \in ListProviders(db, p), k \in BOOLEAN : db' \in SetProviderShared(db, v, k) /\ caller' = p
    BY <1>11 DEF ProviderShare, Run
  <2>2. Owner(db, "providers", v) = p
    BY ListedAreOwned
  <2> QED
    BY <2>1, <2>2, SettersKeepOthers
<1>12. CASE ProviderDelete(p)
  BY <1>12, ListedAreOwned, DeletesKeepOthers DEF ProviderDelete, Run
<1>13. CASE ProviderEdit(p)
  BY <1>13, NothingKeepsOthers DEF ProviderEdit, Begin
<1>14. CASE ProxyCreate(p)
  BY <1>14, CreatesKeepOthers DEF ProxyCreate, Run
<1>15. CASE ProxyEdit(p)
  <2>1. PICK x \in ListProxies(db, p), k \in Names : db' \in UpdateProxy(db, x, k) /\ caller' = p
    BY <1>15 DEF ProxyEdit, Run
  <2>2. Owner(db, "proxies", x) = p
    BY ListedAreOwned
  <2> QED
    BY <2>1, <2>2, SettersKeepOthers
<1>16. CASE ProxyDelete(p)
  BY <1>16, ListedAreOwned, DeletesKeepOthers DEF ProxyDelete, Run
<1> QED
  BY <1>1, <1>2, <1>3, <1>4, <1>5, <1>6, <1>7, <1>8, <1>9, <1>10, <1>11, <1>12, <1>13, <1>14,
     <1>15, <1>16

LEMMA RouteCommandsKeepOthers ==
  ASSUME Sound(db), NEW p,
         \/ RouteEdit(p) \/ RouteDelete(p) \/ RouteShare(p) \/ RouteCreate(p)
         \/ ModelAdd(p) \/ ModelRemove(p) \/ ModelMove(p) \/ LogUsage(p)
  PROVE  OthersKeep(db, db', caller')
<1>1. CASE RouteEdit(p)
  <2>1. PICK r \in RoutesOf(db, p), k \in Names : db' \in UpdateRoute(db, r, k) /\ caller' = p
    BY <1>1 DEF RouteEdit, Run
  <2>2. Owner(db, "routes", r) = p
    BY ListedAreOwned
  <2> QED
    BY <2>1, <2>2, SettersKeepOthers
<1>2. CASE RouteDelete(p)
  BY <1>2, ListedAreOwned, DeletesKeepOthers DEF RouteDelete, Run
<1>3. CASE RouteShare(p)
  BY <1>3, ListedAreOwned, SettersKeepOthers DEF RouteShare, Run
<1>4. CASE RouteCreate(p)
  BY <1>4, CreatesKeepOthers DEF RouteCreate, Begin
<1>5. CASE ModelAdd(p)
  BY <1>5, NothingKeepsOthers DEF ModelAdd, Begin
<1>6. CASE ModelRemove(p)
  BY <1>6, ListedAreOwned, DeletesKeepOthers DEF ModelRemove, Run
<1>7. CASE ModelMove(p)
  BY <1>7, NothingKeepsOthers DEF ModelMove, Begin
<1>8. CASE LogUsage(p)
  BY <1>8, UsageKeepsOthers DEF LogUsage, Run
<1> QED
  BY <1>1, <1>2, <1>3, <1>4, <1>5, <1>6, <1>7, <1>8

(* ----------------------- what a job holds on to ------------------------- *)

Kinds == {"idle", "mask", "provider", "wizard", "entry", "move",
          "export", "import", "seed", "cleanup"}

ScriptKinds == {"import", "seed", "cleanup"}

(* The fields of a job that its later steps read.                            *)
Shaped(j) ==
  \/ j = Idle
  \/ /\ {"kind", "profile", "alone"} \subseteq DOMAIN j /\ j.kind \in Kinds
     /\ j.profile \in Nat
     /\ j.kind = "mask" => "id" \in DOMAIN j
     /\ j.kind = "provider" => {"id", "mask", "picked"} \subseteq DOMAIN j
     /\ j.kind = "move" => "todo" \in DOMAIN j
     /\ j.kind \in ScriptKinds => {"was", "proxy", "route", "refs"} \subseteq DOMAIN j

(* The id was given out, and whatever row still has it belongs to p.         *)
Holds(d, p, t, i) == i \in Nat /\ i < d.next /\ (i \in DOMAIN d[t] => Owner(d, t, i) = p)

HoldsAll(d, p, t, s) == IsList(s) /\ \A k \in 1 .. Len(s) : Holds(d, p, t, s[k][1])

(* Every id a job will write to or under is one of its profile, whatever     *)
(* other commands did since it was read.                                     *)
HoldsOwn(d, j) ==
  /\ j.kind = "mask" => Holds(d, j.profile, "masks", j.id)
  /\ j.kind = "provider" => Holds(d, j.profile, "providers", j.id)
  /\ j.kind = "move" => HoldsAll(d, j.profile, "entries", j.todo) /\ Len(j.todo) >= 1
  /\ j.kind \in ScriptKinds =>
       /\ Holds(d, j.profile, "proxies", j.proxy) /\ Holds(d, j.profile, "routes", j.route)
       /\ HoldsAll(d, j.profile, "routes", j.refs)

(* What store e has over store d is all of profile p, which d did not have.  *)
Grown(d, e, p) ==
  /\ Sound(d) /\ p = d.next /\ d.next < e.next /\ e.usage = d.usage
  /\ \A t \in Tables : \A i \in DOMAIN d[t] : i \in DOMAIN e[t] /\ e[t][i] = d[t][i]
  /\ \A t \in Tables : \A i \in DOMAIN e[t] \ DOMAIN d[t] : Owner(e, t, i) = p

(* What a job that nobody interfered with knows of the store.                *)
KnowsStore(d, j) ==
  /\ j.kind = "provider" =>
       j.id \in DOMAIN d.providers /\ j.mask = MaskToWrite(d, j.id, j.picked)
  /\ j.kind \in ScriptKinds => Grown(j.was, d, j.profile)

JobInv(d, j) ==
  Shaped(j) /\ (j # Idle => HoldsOwn(d, j) /\ (j.alone => KnowsStore(d, j)))

IInv ==
  /\ Sound(db) /\ caller \in Nat /\ budget \in [commands : Nat, jobs : Nat]
  /\ JobInv(db, job)

LEMMA HoldsStays ==
  ASSUME NEW d, Sound(d), NEW e, Evolves(d, e), NEW p, NEW t \in Tables, NEW i, Holds(d, p, t, i)
  PROVE  Holds(e, p, t, i)
<1>1. i \in Nat /\ i < e.next
  BY DEF Holds, Evolves, Sound, IsStore
<1>2. ASSUME i \in DOMAIN e[t]
      PROVE  Owner(e, t, i) = p
  <2>1. i \in DOMAIN d[t]
    BY <1>2 DEF Holds, Evolves, Sound, IsStore
  <2>2. Owner(e, t, i) = Owner(d, t, i)
    BY <1>2, <2>1, OwnersStay
  <2> QED
    BY <2>1, <2>2 DEF Holds
<1> QED
  BY <1>1, <1>2 DEF Holds

LEMMA HoldsAllStays ==
  ASSUME NEW d, Sound(d), NEW e, Evolves(d, e), NEW p, NEW t \in Tables, NEW s, HoldsAll(d, p, t, s)
  PROVE  HoldsAll(e, p, t, s)
BY HoldsStays DEF HoldsAll

LEMMA HoldsOwnStays ==
  ASSUME NEW d, Sound(d), NEW e, Evolves(d, e), NEW j, HoldsOwn(d, j)
  PROVE  HoldsOwn(e, j)
<1>1. ASSUME NEW p, NEW t \in Tables, NEW i, Holds(d, p, t, i)
      PROVE  Holds(e, p, t, i)
  BY <1>1, HoldsStays
<1>2. ASSUME NEW p, NEW t \in Tables, NEW s, HoldsAll(d, p, t, s)
      PROVE  HoldsAll(e, p, t, s)
  BY <1>2, HoldsAllStays
<1> QED
  BY <1>1, <1>2 DEF HoldsOwn, Tables

(* A row that was just given its id, and NULL, are held.                     *)
LEMMA NullIsHeld ==
  ASSUME NEW d, Sound(d), NEW p, NEW t \in Tables
  PROVE  Holds(d, p, t, None)
<1>1. None \in Nat /\ None < d.next
  BY DEF None, Sound, IsStore
<1>2. None \notin DOMAIN d[t]
  BY IdsArePositive DEF None
<1> QED
  BY <1>1, <1>2 DEF Holds

LEMMA ListedAreHeld ==
  ASSUME NEW d, Sound(d), NEW t \in Tables, NEW i \in DOMAIN d[t]
  PROVE  Holds(d, Owner(d, t, i), t, i)
BY IdsArePositive DEF Holds

(* The fields that matter are the same: nothing changes for the job.         *)
LEMMA SameJob ==
  ASSUME NEW d, NEW j, Shaped(j), j # Idle, HoldsOwn(d, j), NEW k, DOMAIN k = DOMAIN j,
         \A x \in {"kind", "profile", "id", "mask", "picked", "was", "proxy", "route", "refs"} :
           x \in DOMAIN j => k[x] = j[x],
         k.kind = "move" => HoldsAll(d, k.profile, "entries", k.todo) /\ Len(k.todo) >= 1
  PROVE  Shaped(k) /\ HoldsOwn(d, k) /\ (KnowsStore(d, j) => KnowsStore(d, k))
<1>1. /\ {"kind", "profile", "alone"} \subseteq DOMAIN j /\ j.kind \in Kinds /\ j.profile \in Nat
      /\ j.kind = "mask" => "id" \in DOMAIN j
      /\ j.kind = "provider" => {"id", "mask", "picked"} \subseteq DOMAIN j
      /\ j.kind = "move" => "todo" \in DOMAIN j
      /\ j.kind \in ScriptKinds => {"was", "proxy", "route", "refs"} \subseteq DOMAIN j
  BY DEF Shaped
<1>2. k.kind = j.kind /\ k.profile = j.profile
  BY <1>1
<1>3. Shaped(k)
  BY <1>1, <1>2 DEF Shaped
<1>4. k.kind = "mask" => k.id = j.id
  BY <1>1, <1>2
<1>5. k.kind = "provider" => k.id = j.id /\ k.mask = j.mask /\ k.picked = j.picked
  BY <1>1, <1>2
<1>6. k.kind \in ScriptKinds =>
        k.was = j.was /\ k.proxy = j.proxy /\ k.route = j.route /\ k.refs = j.refs
  BY <1>1, <1>2
<1>7. HoldsOwn(d, k)
  BY <1>2, <1>4, <1>5, <1>6 DEF HoldsOwn
<1>8. KnowsStore(d, j) => KnowsStore(d, k)
  BY <1>2, <1>5, <1>6 DEF KnowsStore
<1> QED
  BY <1>3, <1>7, <1>8

LEMMA IdleInv ==
  ASSUME NEW d
  PROVE  JobInv(d, Idle)
BY DEF JobInv, Shaped

(* Another command runs: the job is no longer alone, and holds what it held. *)
LEMMA RunKeepsJob ==
  ASSUME Sound(db), JobInv(db, job), Evolves(db, db'), NEW p, NEW outcomes, Run(p, outcomes)
  PROVE  JobInv(db', job')
<1>1. CASE job = Idle
  BY <1>1, IdleInv DEF Run
<1>2. CASE job # Idle
  <2>1. job' = [job EXCEPT !.alone = FALSE]
    BY <1>2 DEF Run
  <2>2. {"kind", "profile", "alone"} \subseteq DOMAIN job
    BY <1>2 DEF JobInv, Shaped
  <2>3. /\ DOMAIN job' = DOMAIN job /\ job'.alone = FALSE
        /\ \A x \in DOMAIN job \ {"alone"} : job'[x] = job[x]
    BY <2>1, <2>2
  <2>4. Shaped(job) /\ HoldsOwn(db', job)
    BY <1>2, HoldsOwnStays DEF JobInv
  <2>5. job'.kind = "move" => HoldsAll(db', job'.profile, "entries", job'.todo) /\ Len(job'.todo) >= 1
    <3>1. job.kind = "move" => "todo" \in DOMAIN job
      BY <1>2, <2>4 DEF Shaped
    <3>2. job'.kind = job.kind /\ job'.profile = job.profile
      BY <2>2, <2>3
    <3>3. job.kind = "move" => job'.todo = job.todo
      BY <2>3, <3>1
    <3> QED
      BY <2>4, <3>2, <3>3 DEF HoldsOwn
  <2>6. Shaped(job') /\ HoldsOwn(db', job')
    BY <1>2, <2>3, <2>4, <2>5, SameJob
  <2> QED
    BY <2>3, <2>6 DEF JobInv
<1> QED
  BY <1>1, <1>2

LEMMA BegunJob ==
  ASSUME NEW p, NEW j, NEW outcomes, Begin(p, j, outcomes)
  PROVE  /\ DOMAIN job' = DOMAIN j \cup {"profile", "alone"}
         /\ job'.profile = p /\ job'.alone = TRUE
         /\ \A x \in DOMAIN j \ {"profile", "alone"} : job'[x] = j[x]
BY DEF Begin, With

(* A command that keeps nothing its later steps depend on.                   *)
LEMMA BeginSimple ==
  ASSUME NEW p \in Nat, NEW j, NEW outcomes, Begin(p, j, outcomes),
         "kind" \in DOMAIN j, j.kind \in {"wizard", "entry", "export"}
  PROVE  JobInv(db', job')
<1>1. /\ {"kind", "profile", "alone"} \subseteq DOMAIN job'
      /\ job'.profile = p /\ job'.kind \in {"wizard", "entry", "export"}
  <2>1. /\ DOMAIN job' = DOMAIN j \cup {"profile", "alone"} /\ job'.profile = p
        /\ \A x \in DOMAIN j \ {"profile", "alone"} : job'[x] = j[x]
    BY BegunJob
  <2>2. job'.kind = j.kind
    BY <2>1
  <2> QED
    BY <2>1, <2>2
<1>2. job'.kind # "mask" /\ job'.kind # "provider" /\ job'.kind # "move" /\ job'.kind \notin ScriptKinds
  BY <1>1 DEF ScriptKinds
<1>3. Shaped(job')
  <2>1. job'.profile \in Nat /\ job'.kind \in Kinds
    BY <1>1 DEF Kinds
  <2> QED
    BY <1>1, <1>2, <2>1 DEF Shaped
<1>4. HoldsOwn(db', job') /\ KnowsStore(db', job')
  BY <1>2 DEF HoldsOwn, KnowsStore
<1> QED
  BY <1>3, <1>4 DEF JobInv

(* The writes of a move: each of an entry of the chain, and at least one.    *)
LEMMA BehindIsList ==
  ASSUME NEW S, NEW n \in Nat, NEW chain \in [1 .. n -> S], NEW i \in 1 .. n, NEW first \in 1 .. n + 1
  PROVE  Behind(chain, i, first) \in Seq(S \X Nat)
<1> DEFINE all == [j \in DOMAIN chain |-> <<chain[j], j + 1>>]
<1>1. DOMAIN chain = 1 .. n /\ \A j \in 1 .. n : <<chain[j], j + 1>> \in S \X Nat
  OBVIOUS
<1>2. all \in [1 .. n -> S \X Nat]
  BY <1>1
<1>3. Len(all) = n
  BY <1>2
<1>4. \A j \in 1 .. n : all[j] \in S \X Nat
  BY <1>2
<1> HIDE DEF all
<1>5. ASSUME NEW m \in 1 .. n + 1, NEW k \in 0 .. n
      PROVE  SubSeq(all, m, k) \in Seq(S \X Nat)
  <2>1. \A j \in m .. k : all[j] \in S \X Nat
    BY <1>4
  <2>2. m \in Int /\ k \in Int
    OBVIOUS
  <2> QED
    BY <2>1, <2>2, SubSeqProperties
<1>6. CASE i < first
  <2>1. Behind(chain, i, first) = SubSeq(all, first, Len(all))
    BY <1>6 DEF Behind, all
  <2>2. first \in 1 .. n + 1 /\ n \in 0 .. n
    OBVIOUS
  <2> QED
    BY <1>3, <1>5, <2>1, <2>2
<1>7. CASE ~ i < first
  <2>1. Behind(chain, i, first) = SubSeq(all, first, i - 1) \o SubSeq(all, i + 1, Len(all))
    BY <1>7 DEF Behind, all
  <2>2. /\ first \in 1 .. n + 1 /\ i - 1 \in 0 .. n
        /\ i + 1 \in 1 .. n + 1 /\ n \in 0 .. n
    OBVIOUS
  <2>3. SubSeq(all, first, i - 1) \in Seq(S \X Nat)
    BY <1>5, <2>2
  <2>4. SubSeq(all, i + 1, n) \in Seq(S \X Nat)
    BY <1>5, <2>2
  <2> QED
    BY <1>3, <2>1, <2>3, <2>4
<1> QED
  BY <1>6, <1>7

LEMMA MoveIsHeld ==
  ASSUME NEW d, Sound(d), NEW p, NEW r \in RoutesOf(d, p), NEW chain \in RouteEntries(d, r),
         NEW i \in DOMAIN chain, NEW position \in DOMAIN chain,
         NEW s, s = Append(Shift(chain, i, position), <<chain[i], position>>)
  PROVE  HoldsAll(d, p, "entries", s) /\ Len(s) >= 1
<1> DEFINE C == Chain(d, r)
<1>1. PICK n \in Nat : chain \in [1 .. n -> C]
  BY ChainsAreLists
<1>2. i \in 1 .. n /\ position \in 1 .. n /\ chain[i] \in C
  BY <1>1
<1>3. Shift(chain, i, position) \in Seq(C \X Nat)
  <2>1. position \in 1 .. n + 1
    BY <1>2
  <2>2. \A S : chain \in [1 .. n -> S] => Behind(chain, i, position) \in Seq(S \X Nat)
    BY <1>2, <2>1, BehindIsList
  <2> QED
    BY <1>1, <2>2 DEF Shift
<1>4. <<chain[i], position>> \in C \X Nat
  BY <1>2
<1>5. s \in Seq(C \X Nat) /\ Len(s) >= 1
  BY <1>3, <1>4
<1>6. IsList(s)
  BY <1>5, SeqIsList
<1>7. \A k \in 1 .. Len(s) : s[k][1] \in C
  BY <1>5
<1>8. \A e \in C : Holds(d, p, "entries", e)
  BY ListedAreOwned, IdsArePositive DEF Holds, Tables
<1> HIDE DEF C
<1> QED
  BY <1>5, <1>6, <1>7, <1>8 DEF HoldsAll

(* --------------------- every step keeps the jobs right ------------------ *)

LEMMA ProfileIds ==
  ASSUME NEW d, Sound(d), NEW p \in DOMAIN d.profiles
  PROVE  p \in Nat
BY IdsArePositive DEF Tables

LEMMA MaskSetKeepsJob ==
  ASSUME Sound(db), NEW p \in Profiles, MaskSet(p)
  PROVE  JobInv(db', job')
<1>1. PICK m \in ListMaskingServers(db, p), s \in BOOLEAN :
        Begin(p, [kind |-> "mask", id |-> m, name |-> db.masks[m].name, shared |-> s], {db})
  BY DEF MaskSet
<1>2. /\ {"kind", "id", "profile", "alone"} \subseteq DOMAIN job'
      /\ job'.profile = p /\ job'.kind = "mask" /\ job'.id = m
  <2> DEFINE j == [kind |-> "mask", id |-> m, name |-> db.masks[m].name, shared |-> s]
  <2>1. DOMAIN j = {"kind", "id", "name", "shared"} /\ j.kind = "mask" /\ j.id = m
    OBVIOUS
  <2>2. Begin(p, j, {db})
    BY <1>1
  <2> HIDE DEF j
  <2>3. /\ DOMAIN job' = DOMAIN j \cup {"profile", "alone"} /\ job'.profile = p
        /\ \A x \in DOMAIN j \ {"profile", "alone"} : job'[x] = j[x]
    BY <2>2, BegunJob
  <2> QED
    BY <2>1, <2>3
<1>3. db' = db
  BY <1>1 DEF Begin
<1>4. Holds(db', p, "masks", m)
  BY <1>3, ListedAreOwned, IdsArePositive DEF Holds, Tables
<1>5. p \in Nat
  BY ProfileIds DEF Profiles
<1>6. job'.kind # "provider" /\ job'.kind # "move" /\ job'.kind \notin ScriptKinds /\ job'.kind \in Kinds
  BY <1>2 DEF ScriptKinds, Kinds
<1>7. Shaped(job')
  BY <1>2, <1>5, <1>6 DEF Shaped
<1>8. HoldsOwn(db', job') /\ KnowsStore(db', job')
  BY <1>2, <1>4, <1>6 DEF HoldsOwn, KnowsStore
<1> QED
  BY <1>7, <1>8 DEF JobInv

LEMMA ProviderEditKeepsJob ==
  ASSUME Sound(db), NEW p \in Profiles, ProviderEdit(p)
  PROVE  JobInv(db', job')
<1>1. PICK v \in ListProviders(db, p), n \in Names, s \in BOOLEAN,
           picked \in {None} \cup ListMaskingServersFor(db, p) :
        Begin(p, [kind |-> "provider", id |-> v, name |-> n, shared |-> s, picked |-> picked,
                  mask |-> MaskToWrite(db, v, picked)], {db})
  BY DEF ProviderEdit
<1>2. /\ {"kind", "id", "picked", "mask", "profile", "alone"} \subseteq DOMAIN job'
      /\ job'.profile = p /\ job'.kind = "provider" /\ job'.id = v /\ job'.picked = picked
      /\ job'.mask = MaskToWrite(db, v, picked)
  <2> DEFINE j == [kind |-> "provider", id |-> v, name |-> n, shared |-> s, picked |-> picked,
                  mask |-> MaskToWrite(db, v, picked)]
  <2>1. /\ DOMAIN j = {"kind", "id", "name", "shared", "picked", "mask"}
        /\ j.kind = "provider" /\ j.id = v /\ j.picked = picked /\ j.mask = MaskToWrite(db, v, picked)
    OBVIOUS
  <2>2. Begin(p, j, {db})
    BY <1>1
  <2> HIDE DEF j
  <2>3. /\ DOMAIN job' = DOMAIN j \cup {"profile", "alone"} /\ job'.profile = p
        /\ \A x \in DOMAIN j \ {"profile", "alone"} : job'[x] = j[x]
    BY <2>2, BegunJob
  <2> QED
    BY <2>1, <2>3
<1>3. db' = db
  BY <1>1 DEF Begin
<1>4. v \in DOMAIN db.providers /\ Owner(db, "providers", v) = p
  BY ListedAreOwned
<1>5. Holds(db', p, "providers", v)
  BY <1>3, <1>4, IdsArePositive DEF Holds, Tables
<1>6. p \in Nat
  BY ProfileIds DEF Profiles
<1>7. job'.kind # "mask" /\ job'.kind # "move" /\ job'.kind \notin ScriptKinds /\ job'.kind \in Kinds
  BY <1>2 DEF ScriptKinds, Kinds
<1>8. Shaped(job')
  BY <1>2, <1>6, <1>7 DEF Shaped
<1>9. HoldsOwn(db', job')
  BY <1>2, <1>5, <1>7 DEF HoldsOwn
<1>10. KnowsStore(db', job')
  BY <1>2, <1>3, <1>4, <1>7 DEF KnowsStore
<1> QED
  BY <1>8, <1>9, <1>10 DEF JobInv

LEMMA ModelMoveKeepsJob ==
  ASSUME Sound(db), NEW p \in Profiles, ModelMove(p)
  PROVE  JobInv(db', job')
<1>1. PICK r \in RoutesOf(db, p) : \E chain \in RouteEntries(db, r) : \E i, position \in DOMAIN chain :
        Begin(p, [kind |-> "move", was |-> db, route |-> r, before |-> chain, entry |-> chain[i],
                  position |-> position,
                  todo |-> Append(Shift(chain, i, position), <<chain[i], position>>)], {db})
  BY DEF ModelMove
<1>2. PICK chain \in RouteEntries(db, r) : \E i, position \in DOMAIN chain :
        Begin(p, [kind |-> "move", was |-> db, route |-> r, before |-> chain, entry |-> chain[i],
                  position |-> position,
                  todo |-> Append(Shift(chain, i, position), <<chain[i], position>>)], {db})
  BY <1>1
<1>3. PICK i \in DOMAIN chain, position \in DOMAIN chain :
        Begin(p, [kind |-> "move", was |-> db, route |-> r, before |-> chain, entry |-> chain[i],
                  position |-> position,
                  todo |-> Append(Shift(chain, i, position), <<chain[i], position>>)], {db})
  BY <1>2
<1> DEFINE s == Append(Shift(chain, i, position), <<chain[i], position>>)
<1>4. HoldsAll(db, p, "entries", s) /\ Len(s) >= 1
  BY MoveIsHeld
<1> HIDE DEF s
<1>5. /\ {"kind", "todo", "profile", "alone"} \subseteq DOMAIN job'
      /\ job'.profile = p /\ job'.kind = "move" /\ job'.todo = s
  <2> DEFINE j == [kind |-> "move", was |-> db, route |-> r, before |-> chain, entry |-> chain[i],
                  position |-> position, todo |-> s]
  <2>1. /\ DOMAIN j = {"kind", "was", "route", "before", "entry", "position", "todo"}
        /\ j.kind = "move" /\ j.todo = s
    OBVIOUS
  <2>2. Begin(p, j, {db})
    BY <1>3 DEF s
  <2> HIDE DEF j
  <2>3. /\ DOMAIN job' = DOMAIN j \cup {"profile", "alone"} /\ job'.profile = p
        /\ \A x \in DOMAIN j \ {"profile", "alone"} : job'[x] = j[x]
    BY <2>2, BegunJob
  <2> QED
    BY <2>1, <2>3
<1>6. db' = db
  BY <1>3 DEF Begin
<1>7. p \in Nat
  BY ProfileIds DEF Profiles
<1>8. job'.kind # "mask" /\ job'.kind # "provider" /\ job'.kind \notin ScriptKinds /\ job'.kind \in Kinds
  BY <1>5 DEF ScriptKinds, Kinds
<1>9. Shaped(job')
  BY <1>5, <1>7, <1>8 DEF Shaped
<1>10. HoldsOwn(db', job') /\ KnowsStore(db', job')
  BY <1>4, <1>5, <1>6, <1>8 DEF HoldsOwn, KnowsStore
<1> QED
  BY <1>9, <1>10 DEF JobInv

(* The commands that write at once.                                          *)
LEMMA RunsKeepJob ==
  ASSUME Sound(db), JobInv(db, job), Evolves(db, db'), NEW p,
         \/ ProfileCreate \/ ProfileEdit(p) \/ ProfileDelete(p) \/ TokenRotate(p)
         \/ MaskAdd(p) \/ MaskSetDefault(p) \/ MaskDelete(p)
         \/ ProviderAdd(p) \/ SetupProvider(p) \/ ProviderShare(p) \/ ProviderDelete(p)
         \/ ProxyCreate(p) \/ ProxyEdit(p) \/ ProxyDelete(p)
         \/ RouteEdit(p) \/ RouteDelete(p) \/ RouteShare(p) \/ ModelRemove(p) \/ LogUsage(p)
  PROVE  JobInv(db', job')
<1>1. CASE ProfileCreate
  BY <1>1, RunKeepsJob DEF ProfileCreate
<1>2. CASE ProfileEdit(p)
  BY <1>2, RunKeepsJob DEF ProfileEdit
<1>3. CASE ProfileDelete(p)
  BY <1>3, RunKeepsJob DEF ProfileDelete
<1>4. CASE TokenRotate(p)
  BY <1>4, RunKeepsJob DEF TokenRotate
<1>5. CASE MaskAdd(p)
  BY <1>5, RunKeepsJob DEF MaskAdd
<1>6. CASE MaskSetDefault(p)
  BY <1>6, RunKeepsJob DEF MaskSetDefault
<1>7. CASE MaskDelete(p)
  BY <1>7, RunKeepsJob DEF MaskDelete
<1>8. CASE ProviderAdd(p)
  BY <1>8, RunKeepsJob DEF ProviderAdd
<1>9. CASE SetupProvider(p)
  BY <1>9, RunKeepsJob DEF SetupProvider
<1>10. CASE ProviderShare(p)
  BY <1>10, RunKeepsJob DEF ProviderShare
<1>11. CASE ProviderDelete(p)
  BY <1>11, RunKeepsJob DEF ProviderDelete
<1>12. CASE ProxyCreate(p)
  BY <1>12, RunKeepsJob DEF ProxyCreate
<1>13. CASE ProxyEdit(p)
  BY <1>13, RunKeepsJob DEF ProxyEdit
<1>14. CASE ProxyDelete(p)
  BY <1>14, RunKeepsJob DEF ProxyDelete
<1>15. CASE RouteEdit(p)
  BY <1>15, RunKeepsJob DEF RouteEdit
<1>16. CASE RouteDelete(p)
  BY <1>16, RunKeepsJob DEF RouteDelete
<1>17. CASE RouteShare(p)
  BY <1>17, RunKeepsJob DEF RouteShare
<1>18. CASE ModelRemove(p)
  BY <1>18, RunKeepsJob DEF ModelRemove
<1>19. CASE LogUsage(p)
  BY <1>19, RunKeepsJob DEF LogUsage
<1> QED
  BY <1>1, <1>2, <1>3, <1>4, <1>5, <1>6, <1>7, <1>8, <1>9, <1>10, <1>11, <1>12, <1>13,
     <1>14, <1>15, <1>16, <1>17, <1>18, <1>19

(* The commands that start a job.                                            *)
LEMMA BeginsKeepJob ==
  ASSUME Sound(db), NEW p \in Profiles,
         MaskSet(p) \/ ProviderEdit(p) \/ RouteCreate(p) \/ ModelAdd(p) \/ ModelMove(p) \/ Export(p)
  PROVE  JobInv(db', job')
<1>1. p \in Nat
  BY ProfileIds DEF Profiles
<1>2. CASE MaskSet(p)
  BY <1>2, MaskSetKeepsJob
<1>3. CASE ProviderEdit(p)
  BY <1>3, ProviderEditKeepsJob
<1>4. CASE ModelMove(p)
  BY <1>4, ModelMoveKeepsJob
<1>5. CASE RouteCreate(p)
  <2>1. PICK j, outcomes : /\ Begin(p, j, outcomes)
                           /\ "kind" \in DOMAIN j /\ j.kind \in {"wizard", "entry", "export"}
    BY <1>5 DEF RouteCreate
  <2> QED
    BY <1>1, <2>1, BeginSimple
<1>6. CASE ModelAdd(p)
  <2>1. PICK r, v, target :
          Begin(p, [kind |-> "entry", route |-> r, provider |-> v, target |-> target,
                    priority |-> NextPriority(db, r)], {db})
    BY <1>6 DEF ModelAdd
  <2> DEFINE j == [kind |-> "entry", route |-> r, provider |-> v, target |-> target,
                   priority |-> NextPriority(db, r)]
  <2>2. "kind" \in DOMAIN j /\ j.kind \in {"wizard", "entry", "export"}
    OBVIOUS
  <2>3. Begin(p, j, {db})
    BY <2>1
  <2> HIDE DEF j
  <2> QED
    BY <1>1, <2>2, <2>3, BeginSimple
<1>7. CASE Export(p)
  <2>1. PICK j, outcomes : /\ Begin(p, j, outcomes)
                           /\ "kind" \in DOMAIN j /\ j.kind \in {"wizard", "entry", "export"}
    BY <1>7 DEF Export
  <2> QED
    BY <1>1, <2>1, BeginSimple
<1> QED
  BY <1>2, <1>3, <1>4, <1>5, <1>6, <1>7

LEMMA CommandsKeepStore ==
  ASSUME Sound(db), NEW p, ProfileCommand(p)
  PROVE  Evolves(db, db') /\ OthersKeep(db, db', caller')
BY AdminCommandsEvolve, RouteCommandsEvolve, AdminCommandsKeepOthers, RouteCommandsKeepOthers
   DEF ProfileCommand

LEMMA CommandsKeepJob ==
  ASSUME Sound(db), JobInv(db, job), NEW p \in Profiles, ProfileCommand(p)
  PROVE  JobInv(db', job')
BY CommandsKeepStore, RunsKeepJob, BeginsKeepJob DEF ProfileCommand

LEMMA WizardKeepsJob ==
  ASSUME Sound(db), JobInv(db, job), Evolves(db, db'), RouteWizard
  PROVE  JobInv(db', job')
<1>1. CASE job' = Idle
  BY <1>1, IdleInv
<1>2. CASE job' = [job EXCEPT !.priority = @ + 1]
  <2>1. job # Idle /\ job.kind = "wizard"
    BY DEF RouteWizard, Idle
  <2>2. {"kind", "profile", "alone"} \subseteq DOMAIN job /\ job.profile \in Nat
    BY <2>1 DEF JobInv, Shaped
  <2>3. DOMAIN job' = DOMAIN job /\ job'.kind = "wizard" /\ job'.profile = job.profile
    BY <1>2, <2>1, <2>2
  <2>4. job'.kind \in Kinds /\ job'.kind \notin ScriptKinds
    BY <2>3 DEF Kinds, ScriptKinds
  <2>5. Shaped(job')
    BY <2>2, <2>3, <2>4 DEF Shaped
  <2>6. HoldsOwn(db', job') /\ KnowsStore(db', job')
    BY <2>3, <2>4 DEF HoldsOwn, KnowsStore
  <2> QED
    BY <2>5, <2>6 DEF JobInv
<1> QED
  BY <1>1, <1>2 DEF RouteWizard, Go

LEMMA MoveKeepsJob ==
  ASSUME Sound(db), JobInv(db, job), Evolves(db, db'), ModelMoveWrites
  PROVE  JobInv(db', job')
<1>1. CASE job' = Idle
  BY <1>1, IdleInv
<1>2. CASE job' = [job EXCEPT !.todo = Tail(@)] /\ Len(job.todo) # 1
  <2>1. job # Idle /\ job.kind = "move"
    BY DEF ModelMoveWrites, Idle
  <2>2. {"kind", "profile", "alone", "todo"} \subseteq DOMAIN job /\ job.profile \in Nat
    BY <2>1 DEF JobInv, Shaped
  <2>3. DOMAIN job' = DOMAIN job /\ job'.kind = "move" /\ job'.profile = job.profile
        /\ job'.todo = Tail(job.todo)
    BY <1>2, <2>1, <2>2
  <2>4. HoldsAll(db', job.profile, "entries", job.todo) /\ Len(job.todo) >= 1
    BY <2>1, HoldsOwnStays DEF JobInv, HoldsOwn
  <2> DEFINE s == job.todo
  <2>5. IsList(s) /\ s # << >> /\ Len(s) \in Nat
    BY <2>4, NotEmpty DEF HoldsAll, IsList
  <2>6. /\ IsList(Tail(s)) /\ Len(Tail(s)) = Len(s) - 1
        /\ \A k \in 1 .. Len(s) - 1 : Tail(s)[k] = s[k + 1]
    BY <2>5, TailIsList
  <2>7. \A k \in 1 .. Len(s) : Holds(db', job.profile, "entries", s[k][1])
    BY <2>4 DEF HoldsAll
  <2>8. \A k \in 1 .. Len(Tail(s)) : Holds(db', job.profile, "entries", Tail(s)[k][1])
    BY <2>5, <2>6, <2>7
  <2>9. HoldsAll(db', job'.profile, "entries", job'.todo) /\ Len(job'.todo) >= 1
    <3>1. Len(s) # 1 /\ Len(s) >= 1
      BY <1>2, <2>4
    <3> HIDE DEF s
    <3>2. Len(Tail(s)) >= 1
      BY <2>5, <2>6, <3>1
    <3>3. HoldsAll(db', job.profile, "entries", Tail(s))
      BY <2>6, <2>8 DEF HoldsAll
    <3> QED
      BY <2>3, <3>2, <3>3 DEF s
  <2>10. job'.kind \in Kinds /\ job'.kind \notin ScriptKinds
    BY <2>3 DEF Kinds, ScriptKinds
  <2>11. Shaped(job')
    BY <2>2, <2>3, <2>10 DEF Shaped
  <2>12. HoldsOwn(db', job') /\ KnowsStore(db', job')
    BY <2>3, <2>9, <2>10 DEF HoldsOwn, KnowsStore
  <2> QED
    BY <2>11, <2>12 DEF JobInv
<1> QED
  BY <1>1, <1>2 DEF ModelMoveWrites, Go

LEMMA JobStepKeepsJob ==
  ASSUME Sound(db), JobInv(db, job), JobStep \/ Interrupt
  PROVE  JobInv(db', job')
<1>1. Evolves(db, db')
  BY JobsEvolve DEF JobStep
<1>2. CASE MaskSetWrites \/ ProviderEditWrites \/ ModelAddWrites \/ Interrupt
  <2>1. job' = Idle
    BY <1>2 DEF MaskSetWrites, ProviderEditWrites, ModelAddWrites, Interrupt, Finish, Go
  <2> QED
    BY <2>1, IdleInv
<1> QED
  BY <1>1, <1>2, WizardKeepsJob, MoveKeepsJob DEF JobStep

LEMMA JobStepKeepsOthers ==
  ASSUME Sound(db), JobInv(db, job), JobStep \/ Interrupt
  PROVE  OthersKeep(db, db', caller')
<1> DEFINE p == job.profile
<1>1. CASE MaskSetWrites
  <2>1. job # Idle /\ job.kind = "mask"
    BY <1>1 DEF MaskSetWrites, Idle
  <2>2. job.id \in DOMAIN db.masks => Owner(db, "masks", job.id) = p
    BY <2>1 DEF JobInv, HoldsOwn, Holds
  <2>3. \A e \in UpdateMaskingServer(db, job.id, job.name, job.shared) : OthersKeep(db, e, p)
    BY <2>2, UpdateMaskKeepsOthers
  <2> QED
    BY <1>1, <2>3, NothingKeepsOthers DEF MaskSetWrites, Finish, Go
<1>2. CASE ProviderEditWrites
  <2>1. job # Idle /\ job.kind = "provider"
    BY <1>2 DEF ProviderEditWrites, Idle
  <2>2. job.id \in DOMAIN db.providers => Owner(db, "providers", job.id) = p
    BY <2>1 DEF JobInv, HoldsOwn, Holds
  <2>3. \A e \in UpdateProvider(db, job.id, job.name, job.mask, job.shared) : OthersKeep(db, e, p)
    BY <2>2, UpdateProviderKeepsOthers
  <2> QED
    BY <1>2, <2>3, NothingKeepsOthers DEF ProviderEditWrites, Finish, Go
<1>3. CASE RouteWizard
  BY <1>3, CreatesKeepOthers, NothingKeepsOthers DEF RouteWizard, Go
<1>4. CASE ModelAddWrites
  <2>1. \A e \in AddRouteEntry(db, job.route, job.provider, job.priority) : OthersKeep(db, e, p)
    BY CreatesKeepOthers
  <2>2. \A e \in AddRouteEntryRef(db, job.route, job.target, job.priority) : OthersKeep(db, e, p)
    BY CreatesKeepOthers
  <2>3. caller' = p /\ \/ db' = db
                       \/ db' \in AddRouteEntry(db, job.route, job.provider, job.priority)
                       \/ db' \in AddRouteEntryRef(db, job.route, job.target, job.priority)
    BY <1>4 DEF ModelAddWrites, Finish, Go
  <2> QED
    BY <2>1, <2>2, <2>3, NothingKeepsOthers
<1>5. CASE ModelMoveWrites
  <2>1. job # Idle /\ job.kind = "move"
    BY <1>5 DEF ModelMoveWrites, Idle
  <2> DEFINE s == job.todo
  <2>2. HoldsAll(db, p, "entries", s) /\ Len(s) >= 1
    BY <2>1 DEF JobInv, HoldsOwn
  <2> HIDE DEF s
  <2>3. IsList(s) /\ s # << >> /\ Len(s) \in Nat
    BY <2>2, NotEmpty DEF HoldsAll, IsList
  <2>4. Head(s) = s[1] /\ 1 \in 1 .. Len(s)
    BY <2>2, <2>3, TailIsList
  <2> DEFINE id == Head(s)[1]
  <2>5. id \in DOMAIN db.entries => Owner(db, "entries", id) = p
    BY <2>2, <2>4 DEF HoldsAll, Holds
  <2>6. db' \in SetRouteEntryPriority(db, id, Head(s)[2]) /\ caller' = p
    BY <1>5 DEF ModelMoveWrites, Go, s
  <2> HIDE DEF id, p
  <2> QED
    BY <2>5, <2>6, PriorityKeepsOthers
<1>6. CASE Interrupt
  BY <1>6, NothingKeepsOthers DEF Interrupt, Go
<1> QED
  BY <1>1, <1>2, <1>3, <1>4, <1>5, <1>6 DEF JobStep

(* ------------------------ import and bootstrap -------------------------- *)

(* Store e is store d with a new row, of profile p, in table t.              *)
Adds(d, e, p, t) ==
  \E row : IsRow(t, row) /\ e \in Insert(d, t, row) /\ Owner(e, t, d.next) = p

LEMMA InsertedRow ==
  ASSUME NEW d, Sound(d), NEW t \in Tables, NEW row, IsRow(t, row), NEW e, e \in Insert(d, t, row)
  PROVE  /\ e[t][d.next] = row /\ d.next \in DOMAIN e[t]
         /\ \A u \in Tables \ {t} : e[u] = d[u]
BY InsertedStore DEF Sound

LEMMA CreatedAreOwned ==
  ASSUME NEW d, Sound(d), NEW e, NEW p, NEW name, NEW m, NEW x, NEW y, NEW shared
  PROVE  /\ e \in CreateMaskingServer(d, p, name, shared) => Adds(d, e, p, "masks")
         /\ e \in CreateProvider(d, p, name, m, shared) => Adds(d, e, p, "providers")
         /\ e \in CreateProxy(d, p, name) => Adds(d, e, p, "proxies")
         /\ e \in CreateRoute(d, x, name) /\ Holds(d, p, "proxies", x) => Adds(d, e, p, "routes")
         /\ e \in AddRouteEntry(d, x, m, y) /\ Holds(d, p, "routes", x) => Adds(d, e, p, "entries")
         /\ e \in AddRouteEntryRef(d, x, m, y) /\ Holds(d, p, "routes", x) => Adds(d, e, p, "entries")
<1>0. ASSUME NEW i
      PROVE  /\ Owner(e, "masks", i) = e.masks[i].profile
             /\ Owner(e, "providers", i) = e.providers[i].profile
             /\ Owner(e, "proxies", i) = e.proxies[i].profile
             /\ Owner(e, "routes", i) = e.proxies[e.routes[i].proxy].profile
             /\ Owner(e, "entries", i) = e.proxies[e.routes[e.entries[i].route].proxy].profile
  BY OwnerIs
<1>1. ASSUME e \in CreateMaskingServer(d, p, name, shared)
      PROVE  Adds(d, e, p, "masks")
  <2> DEFINE row == [profile |-> p, name |-> name, shared |-> shared]
  <2>1. IsRow("masks", row) /\ "masks" \in Tables
    BY DEF IsRow, Columns, Tables
  <2>2. e \in Insert(d, "masks", row)
    BY <1>1 DEF CreateMaskingServer
  <2>8. row.profile = p
    OBVIOUS
  <2> HIDE DEF row
  <2>3. e.masks[d.next] = row
    BY <2>1, <2>2, InsertedRow
  <2>4. Owner(e, "masks", d.next) = e.masks[d.next].profile
    BY <1>0
  <2> QED
    BY <2>1, <2>2, <2>3, <2>4, <2>8 DEF Adds
<1>2. ASSUME e \in CreateProvider(d, p, name, m, shared)
      PROVE  Adds(d, e, p, "providers")
  <2> DEFINE row == [profile |-> p, name |-> name, mask |-> m, shared |-> shared]
  <2>1. IsRow("providers", row) /\ "providers" \in Tables
    BY DEF IsRow, Columns, Tables
  <2>2. e \in Insert(d, "providers", row)
    BY <1>2 DEF CreateProvider
  <2>8. row.profile = p
    OBVIOUS
  <2> HIDE DEF row
  <2>3. e.providers[d.next] = row
    BY <2>1, <2>2, InsertedRow
  <2>4. Owner(e, "providers", d.next) = e.providers[d.next].profile
    BY <1>0
  <2> QED
    BY <2>1, <2>2, <2>3, <2>4, <2>8 DEF Adds
<1>3. ASSUME e \in CreateProxy(d, p, name)
      PROVE  Adds(d, e, p, "proxies")
  <2> DEFINE row == [profile |-> p, name |-> name]
  <2>1. IsRow("proxies", row) /\ "proxies" \in Tables
    BY DEF IsRow, Columns, Tables
  <2>2. e \in Insert(d, "proxies", row)
    BY <1>3 DEF CreateProxy
  <2>8. row.profile = p
    OBVIOUS
  <2> HIDE DEF row
  <2>3. e.proxies[d.next] = row
    BY <2>1, <2>2, InsertedRow
  <2>4. Owner(e, "proxies", d.next) = e.proxies[d.next].profile
    BY <1>0
  <2> QED
    BY <2>1, <2>2, <2>3, <2>4, <2>8 DEF Adds
<1>4. ASSUME e \in CreateRoute(d, x, name), Holds(d, p, "proxies", x)
      PROVE  Adds(d, e, p, "routes")
  <2> DEFINE row == [proxy |-> x, name |-> name, shared |-> FALSE]
  <2>1. IsRow("routes", row) /\ "routes" \in Tables
    BY DEF IsRow, Columns, Tables
  <2>2. e \in Insert(d, "routes", row)
    BY <1>4 DEF CreateRoute
  <2>8. row.proxy = x
    OBVIOUS
  <2> HIDE DEF row
  <2>3. e.routes[d.next] = row
    BY <2>1, <2>2, InsertedRow
  <2>0. Evolves(d, e)
    BY <1>4, CreatesEvolve
  <2>4. e.proxies = d.proxies /\ d.next \in DOMAIN e.routes
    BY <2>1, <2>2, InsertedRow DEF Tables
  <2>5. x \in DOMAIN d.proxies
    <3>1. Sound(e)
      BY <2>0 DEF Evolves
    <3>2. e.routes[d.next].proxy \in DOMAIN e.proxies
      BY <2>4, <3>1, RowsRefer
    <3> QED
      BY <2>3, <2>4, <2>8, <3>2
  <2>6. d.proxies[x].profile = p
    <3>1. Owner(d, "proxies", x) = p
      BY <1>4, <2>5 DEF Holds
    <3>2. Owner(d, "proxies", x) = d.proxies[x].profile
      BY OwnerIs
    <3> QED
      BY <3>1, <3>2
  <2>7. Owner(e, "routes", d.next) = e.proxies[e.routes[d.next].proxy].profile
    BY <1>0
  <2> QED
    BY <2>1, <2>2, <2>3, <2>4, <2>6, <2>7, <2>8 DEF Adds
<1>5. ASSUME e \in AddRouteEntry(d, x, m, y), Holds(d, p, "routes", x)
      PROVE  Adds(d, e, p, "entries")
  <2> DEFINE row == [route |-> x, provider |-> m, target |-> None, priority |-> y]
  <2>1. IsRow("entries", row) /\ "entries" \in Tables
    BY DEF IsRow, Columns, Tables
  <2>2. e \in Insert(d, "entries", row)
    BY <1>5 DEF AddRouteEntry
  <2>8. row.route = x
    OBVIOUS
  <2> HIDE DEF row
  <2>3. e.entries[d.next] = row
    BY <2>1, <2>2, InsertedRow
  <2>0. Evolves(d, e)
    BY <1>5, CreatesEvolve
  <2>4. e.proxies = d.proxies /\ e.routes = d.routes /\ d.next \in DOMAIN e.entries
    BY <2>1, <2>2, InsertedRow DEF Tables
  <2>5. x \in DOMAIN d.routes
    <3>1. Sound(e)
      BY <2>0 DEF Evolves
    <3>2. e.entries[d.next].route \in DOMAIN e.routes
      BY <2>4, <3>1, RowsRefer
    <3> QED
      BY <2>3, <2>4, <2>8, <3>2
  <2>6. d.proxies[d.routes[x].proxy].profile = p
    <3>1. Owner(d, "routes", x) = p
      BY <1>5, <2>5 DEF Holds
    <3>2. Owner(d, "routes", x) = d.proxies[d.routes[x].proxy].profile
      BY OwnerIs
    <3> QED
      BY <3>1, <3>2
  <2>7. Owner(e, "entries", d.next) = e.proxies[e.routes[e.entries[d.next].route].proxy].profile
    BY <1>0
  <2> QED
    BY <2>1, <2>2, <2>3, <2>4, <2>6, <2>7, <2>8 DEF Adds
<1>6. ASSUME e \in AddRouteEntryRef(d, x, m, y), Holds(d, p, "routes", x)
      PROVE  Adds(d, e, p, "entries")
  <2> DEFINE row == [route |-> x, provider |-> None, target |-> m, priority |-> y]
  <2>1. IsRow("entries", row) /\ "entries" \in Tables
    BY DEF IsRow, Columns, Tables
  <2>2. e \in Insert(d, "entries", row)
    BY <1>6 DEF AddRouteEntryRef
  <2>8. row.route = x
    OBVIOUS
  <2> HIDE DEF row
  <2>3. e.entries[d.next] = row
    BY <2>1, <2>2, InsertedRow
  <2>0. Evolves(d, e)
    BY <1>6, CreatesEvolve
  <2>4. e.proxies = d.proxies /\ e.routes = d.routes /\ d.next \in DOMAIN e.entries
    BY <2>1, <2>2, InsertedRow DEF Tables
  <2>5. x \in DOMAIN d.routes
    <3>1. Sound(e)
      BY <2>0 DEF Evolves
    <3>2. e.entries[d.next].route \in DOMAIN e.routes
      BY <2>4, <3>1, RowsRefer
    <3> QED
      BY <2>3, <2>4, <2>8, <3>2
  <2>6. d.proxies[d.routes[x].proxy].profile = p
    <3>1. Owner(d, "routes", x) = p
      BY <1>6, <2>5 DEF Holds
    <3>2. Owner(d, "routes", x) = d.proxies[d.routes[x].proxy].profile
      BY OwnerIs
    <3> QED
      BY <3>1, <3>2
  <2>7. Owner(e, "entries", d.next) = e.proxies[e.routes[e.entries[d.next].route].proxy].profile
    BY <1>0
  <2> QED
    BY <2>1, <2>2, <2>3, <2>4, <2>6, <2>7, <2>8 DEF Adds
<1> QED
  BY <1>1, <1>2, <1>3, <1>4, <1>5, <1>6

LEMMA AddedIsHeld ==
  ASSUME NEW d, Sound(d), NEW e, NEW p, NEW t \in Tables, Adds(d, e, p, t)
  PROVE  Evolves(d, e) /\ Holds(e, p, t, d.next) /\ OthersKeep(d, e, p)
<1>1. PICK row : IsRow(t, row) /\ e \in Insert(d, t, row) /\ Owner(e, t, d.next) = p
  BY DEF Adds
<1>2. Evolves(d, e) /\ OthersKeep(d, e, p)
  BY <1>1, InsertIsSound, InsertKeepsOthers
<1> QED
  <2>1. d.next \in Nat
    BY DEF Sound, IsStore
  <2>2. e.next = d.next + 1
    BY <1>1, InsertedStore DEF Sound
  <2> QED
    BY <1>1, <1>2, <2>1, <2>2 DEF Holds

LEMMA AddedGrows ==
  ASSUME NEW w, NEW d, Sound(d), NEW e, NEW p, NEW t \in Tables, Adds(d, e, p, t), Grown(w, d, p)
  PROVE  Grown(w, e, p)
<1>1. PICK row : IsRow(t, row) /\ e \in Insert(d, t, row) /\ Owner(e, t, d.next) = p
  BY DEF Adds
<1>2. /\ e.next = d.next + 1 /\ e.usage = d.usage
      /\ DOMAIN e[t] = DOMAIN d[t] \cup {d.next}
      /\ \A u \in Tables \ {t} : e[u] = d[u]
      /\ \A i \in DOMAIN d[t] \ {d.next} : e[t][i] = d[t][i]
  BY <1>1, InsertedStore DEF Sound
<1>3. d.next \in Nat /\ \A u \in Tables : d.next \notin DOMAIN d[u]
  BY DEF Sound, IsStore, Consistent
<1>4. Evolves(d, e)
  BY AddedIsHeld
<1>5. \A u \in Tables : \A i \in DOMAIN d[u] : i \in DOMAIN e[u] /\ e[u][i] = d[u][i]
  BY <1>2, <1>3
<1>6. ASSUME NEW u \in Tables, NEW i \in DOMAIN e[u] \ DOMAIN w[u]
      PROVE  Owner(e, u, i) = p
  <2>1. CASE i \in DOMAIN d[u]
    BY <1>4, <2>1, OwnersStay DEF Grown
  <2>2. CASE i \notin DOMAIN d[u]
    <3>1. u = t /\ i = d.next
      BY <1>2, <2>2
    <3> QED
      BY <1>1, <3>1
  <2> QED
    BY <2>1, <2>2
<1>7. \A u \in Tables : \A i \in DOMAIN w[u] : i \in DOMAIN e[u] /\ e[u][i] = w[u][i]
  BY <1>5 DEF Grown
<1>8. Sound(w) /\ p = w.next /\ w.next < e.next /\ e.usage = w.usage
  BY <1>2, <1>3 DEF Grown, Sound, IsStore
<1> QED
  BY <1>6, <1>7, <1>8 DEF Grown

LEMMA DefaultGrows ==
  ASSUME NEW w, NEW d, Sound(d), NEW p, NEW m, NEW e \in SetProfileDefaultMasking(d, p, m), Grown(w, d, p)
  PROVE  Grown(w, e, p)
<1> DEFINE row == [d.profiles[p] EXCEPT !["default"] = m]
<1>1. p \in DOMAIN d.profiles /\ e \in Update(d, "profiles", p, row)
  BY DEF SetProfileDefaultMasking, SetColumn
<1>2. IsRow("profiles", row) /\ "profiles" \in Tables
  BY <1>1, RowFields DEF Sound, IsStore, Tables
<1> HIDE DEF row
<1>3. /\ e.next = d.next /\ e.usage = d.usage
      /\ \A u \in Tables : DOMAIN e[u] = DOMAIN d[u]
      /\ \A u \in Tables \ {"profiles"} : e[u] = d[u]
      /\ \A i \in DOMAIN d.profiles \ {p} : e.profiles[i] = d.profiles[i]
  BY <1>1, <1>2, UpdatedStore DEF Sound
<1>4. Evolves(d, e)
  BY SettersEvolve
<1>5. p \notin DOMAIN w.profiles
  BY DEF Grown, Sound, Consistent, IsStore, Tables
<1>6. ASSUME NEW u \in Tables, NEW i \in DOMAIN w[u]
      PROVE  i \in DOMAIN e[u] /\ e[u][i] = w[u][i]
  <2>1. i \in DOMAIN d[u] /\ d[u][i] = w[u][i]
    BY DEF Grown
  <2>2. CASE u = "profiles"
    <3>1. i # p
      BY <1>5, <2>2
    <3> QED
      BY <1>3, <2>1, <2>2, <3>1
  <2>3. CASE u # "profiles"
    BY <1>3, <2>1, <2>3
  <2> QED
    BY <2>2, <2>3
<1>7. ASSUME NEW u \in Tables, NEW i \in DOMAIN e[u] \ DOMAIN w[u]
      PROVE  Owner(e, u, i) = p
  BY <1>3, <1>4, OwnersStay DEF Grown
<1>8. Sound(w) /\ p = w.next /\ w.next < e.next /\ e.usage = w.usage
  BY <1>3 DEF Grown
<1> QED
  BY <1>6, <1>7, <1>8 DEF Grown

(* The job of an import or a bootstrap, between two of its calls.            *)
LEMMA ScriptJob ==
  ASSUME NEW d, NEW j, Shaped(j), j # Idle, j.kind \in ScriptKinds,
         NEW k, DOMAIN k = DOMAIN j, k.kind \in ScriptKinds, k.profile = j.profile,
         k.was = j.was, k.alone = j.alone,
         Holds(d, j.profile, "proxies", k.proxy), Holds(d, j.profile, "routes", k.route),
         HoldsAll(d, j.profile, "routes", k.refs),
         j.alone => Grown(j.was, d, j.profile)
  PROVE  JobInv(d, k)
<1>1. /\ {"kind", "profile", "alone"} \subseteq DOMAIN k /\ k.profile \in Nat
      /\ {"was", "proxy", "route", "refs"} \subseteq DOMAIN k
  BY DEF Shaped
<1>2. k.kind # "mask" /\ k.kind # "provider" /\ k.kind # "move" /\ k.kind \in Kinds
  BY DEF ScriptKinds, Kinds
<1>3. Shaped(k)
  BY <1>1, <1>2 DEF Shaped
<1>4. HoldsOwn(d, k)
  BY <1>2 DEF HoldsOwn
<1>5. k.alone => KnowsStore(d, k)
  BY <1>2 DEF KnowsStore
<1> QED
  BY <1>3, <1>4, <1>5 DEF JobInv

LEMMA RememberedJob ==
  ASSUME Shaped(job), job # Idle, job.kind \in ScriptKinds, NEW item, NEW id,
         NEW k, k = Remember(item, id)
  PROVE  /\ DOMAIN k = DOMAIN job /\ k.kind = job.kind /\ k.profile = job.profile
         /\ k.was = job.was /\ k.alone = job.alone
         /\ k.proxy = IF item.op = "proxy" THEN id ELSE job.proxy
         /\ k.route = IF item.op = "route" THEN id ELSE job.route
         /\ k.refs = IF item.op = "ref" THEN Append(job.refs, <<job.route, item>>) ELSE job.refs
<1> DEFINE rest == [job EXCEPT !.todo = Tail(@)]
<1>1. {"kind", "profile", "alone", "was", "proxy", "route", "refs"} \subseteq DOMAIN job
  BY DEF Shaped
<1>2. /\ DOMAIN rest = DOMAIN job /\ rest.kind = job.kind /\ rest.profile = job.profile
      /\ rest.was = job.was /\ rest.alone = job.alone
      /\ rest.proxy = job.proxy /\ rest.route = job.route /\ rest.refs = job.refs
  BY <1>1
<1> HIDE DEF rest
<1>3. CASE item.op = "mask"
  <2>1. k = [rest EXCEPT !.masks = With(@, item.name, id)]
    BY <1>3 DEF Remember, rest
  <2> QED
    BY <1>1, <1>2, <1>3, <2>1
<1>4. CASE item.op = "provider"
  <2>1. k = [rest EXCEPT !.providers = With(@, item.name, id)]
    BY <1>4 DEF Remember, rest
  <2> QED
    BY <1>1, <1>2, <1>4, <2>1
<1>5. CASE item.op = "proxy"
  <2>1. k = [rest EXCEPT !.proxy = id]
    BY <1>5 DEF Remember, rest
  <2> QED
    BY <1>1, <1>2, <1>5, <2>1
<1>6. CASE item.op = "route"
  <2>1. k = [rest EXCEPT !.route = id]
    BY <1>6 DEF Remember, rest
  <2> QED
    BY <1>1, <1>2, <1>6, <2>1
<1>7. CASE item.op = "ref"
  <2>1. k = [rest EXCEPT !.refs = Append(@, <<job.route, item>>)]
    BY <1>7 DEF Remember, rest
  <2> QED
    BY <1>1, <1>2, <1>7, <2>1
<1>8. CASE item.op \notin {"mask", "provider", "proxy", "route", "ref"}
  <2>1. k = rest
    BY <1>8 DEF Remember, rest
  <2> QED
    BY <1>1, <1>2, <1>8, <2>1
<1> QED
  BY <1>3, <1>4, <1>5, <1>6, <1>7, <1>8

(* The outcomes of an item's call.                                           *)
LEMMA OutcomesAre ==
  ASSUME Sound(db), Holds(db, job.profile, "proxies", job.proxy), Holds(db, job.profile, "routes", job.route),
         NEW item, NEW e \in Outcomes(db, item)
  PROVE  /\ \/ e = db
            \/ \E m : e \in SetProfileDefaultMasking(db, job.profile, m)
            \/ \E t \in Tables : Adds(db, e, job.profile, t)
         /\ item.op = "proxy" => Adds(db, e, job.profile, "proxies")
         /\ item.op = "route" => Adds(db, e, job.profile, "routes")
<1> DEFINE p == job.profile
<1>1. CASE item.op = "mask"
  <2>1. e \in CreateMaskingServer(db, p, item.name, item.shared)
    BY <1>1 DEF Outcomes
  <2>2. Adds(db, e, p, "masks")
    BY <2>1, CreatedAreOwned
  <2> QED
    BY <1>1, <2>2 DEF Tables
<1>2. CASE item.op = "default"
  <2>1. e = db \/ \E m : e \in SetProfileDefaultMasking(db, p, m)
    BY <1>2 DEF Outcomes
  <2> QED
    BY <1>2, <2>1
<1>3. CASE item.op = "provider"
  <2>1. e \in CreateProvider(db, p, item.name, IdOf(job.masks, item.to[1]), item.shared)
    BY <1>3 DEF Outcomes
  <2>2. Adds(db, e, p, "providers")
    BY <2>1, CreatedAreOwned
  <2> QED
    BY <1>3, <2>2 DEF Tables
<1>4. CASE item.op = "proxy"
  <2>1. e \in CreateProxy(db, p, item.name)
    BY <1>4 DEF Outcomes
  <2>2. Adds(db, e, p, "proxies")
    BY <2>1, CreatedAreOwned
  <2> QED
    BY <1>4, <2>2 DEF Tables
<1>5. CASE item.op = "route"
  <2>1. e \in CreateRoute(db, job.proxy, item.name)
    BY <1>5 DEF Outcomes
  <2>2. Adds(db, e, p, "routes")
    BY <2>1, CreatedAreOwned
  <2> QED
    BY <1>5, <2>2 DEF Tables
<1>6. CASE item.op = "entry"
  <2>1. e \in AddRouteEntry(db, job.route, job.providers[item.to[1]], item.priority)
    BY <1>6 DEF Outcomes
  <2>2. Adds(db, e, p, "entries")
    BY <2>1, CreatedAreOwned
  <2> QED
    BY <1>6, <2>2 DEF Tables
<1>7. CASE item.op \notin {"mask", "default", "provider", "proxy", "route", "entry"}
  <2>1. e = db
    BY <1>7 DEF Outcomes
  <2> QED
    BY <1>7, <2>1
<1> QED
  BY <1>1, <1>2, <1>3, <1>4, <1>5, <1>6, <1>7

(* What the three kinds of outcome leave as they should.                     *)
LEMMA OutcomeKeeps ==
  ASSUME Sound(db), NEW p, NEW e,
         \/ e = db
         \/ \E m : e \in SetProfileDefaultMasking(db, p, m)
         \/ \E t \in Tables : Adds(db, e, p, t)
  PROVE  /\ Evolves(db, e) /\ OthersKeep(db, e, p)
         /\ \A w : Grown(w, db, p) => Grown(w, e, p)
<1>1. CASE e = db
  BY <1>1, SoundStays, NothingKeepsOthers
<1>2. CASE \E m : e \in SetProfileDefaultMasking(db, p, m)
  <2>1. PICK m : e \in SetProfileDefaultMasking(db, p, m)
    BY <1>2
  <2> QED
    BY <2>1, SettersEvolve, SettersKeepOthers, DefaultGrows
<1>3. CASE \E t \in Tables : Adds(db, e, p, t)
  BY <1>3, AddedIsHeld, AddedGrows
<1> QED
  BY <1>1, <1>2, <1>3

LEMMA ScriptKnows ==
  ASSUME JobInv(db, job), job.kind \in ScriptKinds
  PROVE  /\ job # Idle /\ Shaped(job) /\ HoldsOwn(db, job)
         /\ Holds(db, job.profile, "proxies", job.proxy) /\ Holds(db, job.profile, "routes", job.route)
         /\ HoldsAll(db, job.profile, "routes", job.refs)
         /\ job.alone => Grown(job.was, db, job.profile)
<1>1. job # Idle
  BY DEF ScriptKinds, Idle
<1> QED
  BY <1>1 DEF JobInv, HoldsOwn, KnowsStore

LEMMA RefusedKeeps ==
  ASSUME Sound(db), JobInv(db, job), job.kind \in {"import", "seed"}, Refused
  PROVE  Evolves(db, db') /\ OthersKeep(db, db', caller') /\ JobInv(db', job')
<1>1. db' = db
  BY DEF Refused, Go
<1>2. Evolves(db, db') /\ OthersKeep(db, db', caller')
  BY <1>1, SoundStays, NothingKeepsOthers
<1>3. CASE job' = Idle
  BY <1>2, <1>3, IdleInv
<1>4. CASE job' = [job EXCEPT !.kind = "cleanup"]
  <2>1. job.kind \in ScriptKinds
    BY DEF ScriptKinds
  <2>2. {"kind", "profile", "alone", "was", "proxy", "route", "refs"} \subseteq DOMAIN job
    BY <2>1, ScriptKnows DEF Shaped
  <2>3. /\ DOMAIN job' = DOMAIN job /\ job'.kind = "cleanup" /\ job'.profile = job.profile
        /\ job'.was = job.was /\ job'.alone = job.alone
        /\ job'.proxy = job.proxy /\ job'.route = job.route /\ job'.refs = job.refs
    BY <1>4, <2>2
  <2>4. job'.kind \in ScriptKinds
    BY <2>3 DEF ScriptKinds
  <2>5. JobInv(db, job')
    BY <2>1, <2>3, <2>4, ScriptKnows, ScriptJob
  <2> QED
    BY <1>1, <1>2, <2>5
<1> QED
  BY <1>3, <1>4 DEF Refused, Go

LEMMA ScriptStepKeeps ==
  ASSUME Sound(db), JobInv(db, job), ScriptStep
  PROVE  Evolves(db, db') /\ OthersKeep(db, db', caller') /\ JobInv(db', job')
<1>1. job.kind \in {"import", "seed"} /\ job.kind \in ScriptKinds
  BY DEF ScriptStep, ScriptKinds
<1> DEFINE item == Head(job.todo)
           p == job.profile
<1>2. CASE Refused
  BY <1>1, <1>2, RefusedKeeps
<1>3. CASE \E d \in Outcomes(db, item) : Go(Remember(item, db.next), d) /\ UNCHANGED bundle
  <2>1. db' \in Outcomes(db, item) /\ job' = Remember(item, db.next) /\ caller' = p
    BY <1>3 DEF Go
  <2>2. /\ job # Idle /\ Shaped(job)
        /\ Holds(db, p, "proxies", job.proxy) /\ Holds(db, p, "routes", job.route)
        /\ HoldsAll(db, p, "routes", job.refs)
        /\ job.alone => Grown(job.was, db, p)
    BY <1>1, ScriptKnows
  <2> HIDE DEF item
  <2>3. /\ \/ db' = db
           \/ \E m : db' \in SetProfileDefaultMasking(db, p, m)
           \/ \E t \in Tables : Adds(db, db', p, t)
        /\ item.op = "proxy" => Adds(db, db', p, "proxies")
        /\ item.op = "route" => Adds(db, db', p, "routes")
    BY <2>1, <2>2, OutcomesAre
  <2>4. /\ Evolves(db, db') /\ OthersKeep(db, db', p)
        /\ \A w : Grown(w, db, p) => Grown(w, db', p)
    BY <2>3, OutcomeKeeps
  <2>5. /\ DOMAIN job' = DOMAIN job /\ job'.kind = job.kind /\ job'.profile = p
        /\ job'.was = job.was /\ job'.alone = job.alone
        /\ job'.proxy = IF item.op = "proxy" THEN db.next ELSE job.proxy
        /\ job'.route = IF item.op = "route" THEN db.next ELSE job.route
        /\ job'.refs = IF item.op = "ref" THEN Append(job.refs, <<job.route, item>>) ELSE job.refs
    BY <1>1, <2>1, <2>2, RememberedJob
  <2>6. "proxies" \in Tables /\ "routes" \in Tables
    BY DEF Tables
  <2>7. Holds(db', p, "proxies", job'.proxy)
    BY <2>2, <2>3, <2>4, <2>5, <2>6, HoldsStays, AddedIsHeld
  <2>8. Holds(db', p, "routes", job'.route)
    BY <2>2, <2>3, <2>4, <2>5, <2>6, HoldsStays, AddedIsHeld
  <2>9. HoldsAll(db', p, "routes", job.refs) /\ Holds(db', p, "routes", job.route)
    BY <2>2, <2>4, <2>6, HoldsAllStays, HoldsStays
  <2>10. HoldsAll(db', p, "routes", Append(job.refs, <<job.route, item>>))
    <3> DEFINE s == job.refs
               x == <<job.route, item>>
    <3>1. IsList(s) /\ Len(s) \in Nat /\ \A k \in 1 .. Len(s) : Holds(db', p, "routes", s[k][1])
      BY <2>9 DEF HoldsAll, IsList
    <3>2. x[1] = job.route
      OBVIOUS
    <3> HIDE DEF s, x
    <3>3. /\ IsList(Append(s, x)) /\ Len(Append(s, x)) = Len(s) + 1
          /\ \A i \in 1 .. Len(s) : Append(s, x)[i] = s[i]
          /\ Append(s, x)[Len(s) + 1] = x
      BY <3>1, AppendIsList
    <3>4. ASSUME NEW k \in 1 .. Len(Append(s, x))
          PROVE  Holds(db', p, "routes", Append(s, x)[k][1])
      <4>1. CASE k \in 1 .. Len(s)
        BY <3>1, <3>3, <4>1
      <4>2. CASE k = Len(s) + 1
        BY <2>9, <3>2, <3>3, <4>2
      <4> QED
        BY <3>1, <3>3, <4>1, <4>2
    <3>5. HoldsAll(db', p, "routes", Append(s, x))
      BY <3>3, <3>4 DEF HoldsAll
    <3> QED
      BY <3>5 DEF s, x
  <2>11. HoldsAll(db', p, "routes", job'.refs)
    BY <2>5, <2>9, <2>10
  <2>12. JobInv(db', job')
    BY <1>1, <2>2, <2>4, <2>5, <2>7, <2>8, <2>11, ScriptJob
  <2> QED
    BY <2>1, <2>4, <2>12
<1> QED
  BY <1>2, <1>3 DEF ScriptStep

LEMMA RefStepKeeps ==
  ASSUME Sound(db), JobInv(db, job), RefStep
  PROVE  Evolves(db, db') /\ OthersKeep(db, db', caller') /\ JobInv(db', job')
<1>1. job.kind \in {"import", "seed"} /\ job.kind \in ScriptKinds
  BY DEF RefStep, ScriptKinds
<1> DEFINE ref == Head(job.refs)
           p == job.profile
           s == job.refs
<1>2. CASE Refused
  BY <1>1, <1>2, RefusedKeeps
<1>3. CASE \E d \in ResolvedRef(db, ref) : Go([job EXCEPT !.refs = Tail(@)], d) /\ UNCHANGED bundle
  <2>1. db' \in ResolvedRef(db, ref) /\ job' = [job EXCEPT !.refs = Tail(@)] /\ caller' = p /\ s # << >>
    BY <1>3 DEF Go, RefStep
  <2>2. /\ job # Idle /\ Shaped(job)
        /\ Holds(db, p, "proxies", job.proxy) /\ Holds(db, p, "routes", job.route)
        /\ HoldsAll(db, p, "routes", s)
        /\ job.alone => Grown(job.was, db, p)
    BY <1>1, ScriptKnows
  <2>3. {"kind", "profile", "alone", "was", "proxy", "route", "refs"} \subseteq DOMAIN job
    BY <1>1, <2>2 DEF Shaped
  <2>4. /\ DOMAIN job' = DOMAIN job /\ job'.kind = job.kind /\ job'.profile = p
        /\ job'.was = job.was /\ job'.alone = job.alone
        /\ job'.proxy = job.proxy /\ job'.route = job.route /\ job'.refs = Tail(s)
    BY <2>1, <2>3
  <2> HIDE DEF s, p, ref
  <2>5. /\ IsList(s) /\ IsList(Tail(s)) /\ Len(s) >= 1 /\ Len(Tail(s)) = Len(s) - 1 /\ Head(s) = s[1]
        /\ \A i \in 1 .. Len(s) - 1 : Tail(s)[i] = s[i + 1]
    BY <2>1, <2>2, TailIsList DEF HoldsAll
  <2>6. Len(s) \in Nat
    BY <2>5 DEF IsList
  <2>7. Holds(db, p, "routes", ref[1])
    BY <2>2, <2>5, <2>6 DEF HoldsAll, s, ref
  <2>8. Adds(db, db', p, "entries")
    <3>1. PICK r : db' \in AddRouteEntryRef(db, ref[1], r, ref[2].priority)
      BY <2>1 DEF ResolvedRef
    <3> QED
      BY <2>7, <3>1, CreatedAreOwned
  <2>9. "entries" \in Tables /\ "proxies" \in Tables /\ "routes" \in Tables
    BY DEF Tables
  <2>10. /\ Evolves(db, db') /\ OthersKeep(db, db', p)
         /\ \A w : Grown(w, db, p) => Grown(w, db', p)
    BY <2>8, <2>9, OutcomeKeeps
  <2>11. Holds(db', p, "proxies", job'.proxy) /\ Holds(db', p, "routes", job'.route)
    BY <2>2, <2>4, <2>9, <2>10, HoldsStays
  <2>12. HoldsAll(db', p, "routes", s)
    BY <2>2, <2>9, <2>10, HoldsAllStays
  <2>13. HoldsAll(db', p, "routes", Tail(s))
    <3>1. \A k \in 1 .. Len(s) : Holds(db', p, "routes", s[k][1])
      BY <2>12 DEF HoldsAll
    <3>2. \A k \in 1 .. Len(Tail(s)) : Holds(db', p, "routes", Tail(s)[k][1])
      BY <2>5, <2>6, <3>1
    <3> QED
      BY <2>5, <3>2 DEF HoldsAll
  <2>14. JobInv(db', job')
    BY <1>1, <2>2, <2>4, <2>10, <2>11, <2>13, ScriptJob DEF p
  <2> QED
    BY <2>1, <2>10, <2>14
<1> QED
  BY <1>2, <1>3 DEF RefStep

(* The profile a script starts with is all it has over the store it found.   *)
LEMMA NewProfileGrows ==
  ASSUME NEW d, Sound(d), NEW name, NEW e \in CreateProfile(d, name)
  PROVE  Grown(d, e, d.next)
<1> DEFINE row == [name |-> name, default |-> None]
<1>1. IsRow("profiles", row) /\ "profiles" \in Tables
  BY DEF IsRow, Columns, Tables
<1>2. e \in Insert(d, "profiles", row)
  BY DEF CreateProfile
<1> HIDE DEF row
<1>3. /\ e.next = d.next + 1 /\ e.usage = d.usage
      /\ DOMAIN e.profiles = DOMAIN d.profiles \cup {d.next}
      /\ \A u \in Tables \ {"profiles"} : e[u] = d[u]
      /\ \A i \in DOMAIN d.profiles \ {d.next} : e.profiles[i] = d.profiles[i]
  BY <1>1, <1>2, InsertedStore DEF Sound
<1>4. d.next \in Nat
  BY DEF Sound, IsStore
<1>5. d.next \notin DOMAIN d.profiles
  BY IdsArePositive DEF Tables
<1>6. ASSUME NEW t \in Tables, NEW i \in DOMAIN d[t]
      PROVE  i \in DOMAIN e[t] /\ e[t][i] = d[t][i]
  BY <1>3, <1>5
<1>7. ASSUME NEW t \in Tables, NEW i \in DOMAIN e[t] \ DOMAIN d[t]
      PROVE  Owner(e, t, i) = d.next
  <2>1. t = "profiles" /\ i = d.next
    BY <1>3, <1>7
  <2>2. Owner(e, "profiles", d.next) = d.next
    BY OwnerIs
  <2> QED
    BY <2>1, <2>2
<1>8. d.next < e.next
  BY <1>3, <1>4
<1> QED
  BY <1>3, <1>6, <1>7, <1>8 DEF Grown

LEMMA WriteKeeps ==
  ASSUME Sound(db), NEW kind \in {"import", "seed"}, NEW name, NEW items, NEW view,
         Write(kind, name, items, view)
  PROVE  /\ Evolves(db, db') /\ OthersKeep(db, db', caller') /\ JobInv(db', job')
         /\ caller' \in Nat
<1> DEFINE p == db.next
<1>1. db' \in CreateProfile(db, name) /\ caller' = p /\ job' = Script(kind, name, p, items, view)
  BY DEF Write
<1>2. Evolves(db, db') /\ OthersKeep(db, db', p)
  BY <1>1, CreatesEvolve, CreatesKeepOthers
<1>3. p \in Nat
  BY DEF Sound, IsStore
<1>4. /\ {"kind", "profile", "alone", "was", "proxy", "route", "refs"} \subseteq DOMAIN job'
      /\ job'.kind = kind /\ job'.profile = p /\ job'.alone = TRUE /\ job'.was = db
      /\ job'.proxy = None /\ job'.route = None /\ job'.refs = << >>
  BY <1>1 DEF Script
<1>5. Sound(db')
  BY <1>2 DEF Evolves
<1>6. Grown(db, db', p)
  BY <1>1, NewProfileGrows
<1> HIDE DEF p
<1>7. /\ job'.kind # "mask" /\ job'.kind # "provider" /\ job'.kind # "move" /\ job'.kind \in Kinds
      /\ job'.kind \in ScriptKinds
  BY <1>4 DEF Kinds, ScriptKinds
<1>8. Holds(db', p, "proxies", None) /\ Holds(db', p, "routes", None)
  BY <1>5, NullIsHeld DEF Tables
<1>9. HoldsAll(db', p, "routes", << >>)
  BY EmptyIsList DEF HoldsAll
<1>10. Shaped(job')
  BY <1>3, <1>4, <1>7 DEF Shaped
<1>11. HoldsOwn(db', job')
  BY <1>4, <1>7, <1>8, <1>9 DEF HoldsOwn
<1>12. KnowsStore(db', job')
  BY <1>4, <1>6, <1>7 DEF KnowsStore
<1>13. JobInv(db', job')
  BY <1>10, <1>11, <1>12 DEF JobInv
<1> QED
  BY <1>1, <1>2, <1>3, <1>13

LEMMA ExportKeeps ==
  ASSUME Sound(db), JobInv(db, job), (\E p \in Profiles : Export(p)) \/ ExportMasks \/ ExportTree
  PROVE  Evolves(db, db') /\ OthersKeep(db, db', caller') /\ JobInv(db', job')
<1>1. db' = db
  BY DEF Export, Begin, ExportMasks, ExportTree, Go
<1>2. Evolves(db, db') /\ OthersKeep(db, db', caller')
  BY <1>1, SoundStays, NothingKeepsOthers
<1>3. CASE \E p \in Profiles : Export(p)
  BY <1>2, <1>3, BeginsKeepJob
<1>4. CASE ExportMasks
  <2>1. job.kind = "export" /\ job # Idle
    BY <1>4 DEF ExportMasks, Idle
  <2>2. {"kind", "profile", "alone"} \subseteq DOMAIN job /\ job.profile \in Nat
    BY <2>1 DEF JobInv, Shaped
  <2>3. DOMAIN job' = DOMAIN job /\ job'.kind = "export" /\ job'.profile = job.profile
    BY <1>4, <2>1, <2>2 DEF ExportMasks, Go
  <2>4. job'.kind \in Kinds /\ job'.kind \notin ScriptKinds
    BY <2>3 DEF Kinds, ScriptKinds
  <2>5. Shaped(job')
    BY <2>2, <2>3, <2>4 DEF Shaped
  <2>6. HoldsOwn(db', job') /\ KnowsStore(db', job')
    BY <2>3, <2>4 DEF HoldsOwn, KnowsStore
  <2> QED
    BY <1>2, <2>5, <2>6 DEF JobInv
<1>5. CASE ExportTree
  BY <1>2, <1>5, IdleInv DEF ExportTree, Go
<1> QED
  BY <1>3, <1>4, <1>5

LEMMA CompensateKeeps ==
  ASSUME Sound(db), Compensate \/ ScriptDone
  PROVE  Evolves(db, db') /\ OthersKeep(db, db', caller') /\ JobInv(db', job')
<1>1. CASE Compensate
  BY <1>1, DeletesEvolve, DeletesKeepOthers, IdleInv DEF Compensate, Go
<1>2. CASE ScriptDone
  BY <1>2, SoundStays, NothingKeepsOthers, IdleInv DEF ScriptDone, Go
<1> QED
  BY <1>1, <1>2

LEMMA StepKeeps ==
  ASSUME Sound(db), JobInv(db, job), Next
  PROVE  Evolves(db, db') /\ OthersKeep(db, db', caller') /\ JobInv(db', job')
<1>1. CASE ProfileCreate
  BY <1>1, AdminCommandsEvolve, AdminCommandsKeepOthers, RunsKeepJob
<1>2. CASE JobStep \/ Interrupt
  BY <1>2, JobsEvolve, JobStepKeepsOthers, JobStepKeepsJob DEF JobStep
<1>3. CASE \E p \in Profiles : ProfileCommand(p)
  BY <1>3, CommandsKeepStore, CommandsKeepJob
<1>4. CASE (\E p \in Profiles : Export(p)) \/ ExportMasks \/ ExportTree
  BY <1>4, ExportKeeps
<1>5. CASE \E n \in Names : Import(n) \/ Bootstrap(n)
  <2>1. PICK kind, n, items, view : kind \in {"import", "seed"} /\ Write(kind, n, items, view)
    BY <1>5 DEF Import, Bootstrap
  <2> QED
    BY <2>1, WriteKeeps
<1>6. CASE ScriptStep
  BY <1>6, ScriptStepKeeps
<1>7. CASE RefStep
  BY <1>7, RefStepKeeps
<1>8. CASE ScriptDone \/ Compensate
  BY <1>8, CompensateKeeps
<1> QED
  BY <1>1, <1>2, <1>3, <1>4, <1>5, <1>6, <1>7, <1>8 DEF Next

(* A step is of one of these forms, which is all the bounds depend on.       *)
LEMMA CommandForms ==
  ASSUME NEW p, ProfileCommand(p)
  PROVE  (\E outcomes : Run(p, outcomes)) \/ (\E j, outcomes : Begin(p, j, outcomes))
<1>1. CASE \/ ProfileEdit(p) \/ ProfileDelete(p) \/ TokenRotate(p)
           \/ MaskAdd(p) \/ MaskSetDefault(p) \/ MaskDelete(p)
           \/ ProviderAdd(p) \/ SetupProvider(p) \/ ProviderShare(p) \/ ProviderDelete(p)
  BY <1>1 DEF ProfileEdit, ProfileDelete, TokenRotate, MaskAdd, MaskSetDefault, MaskDelete,
              ProviderAdd, SetupProvider, ProviderShare, ProviderDelete
<1>2. CASE \/ ProxyCreate(p) \/ ProxyEdit(p) \/ ProxyDelete(p)
           \/ RouteEdit(p) \/ RouteDelete(p) \/ RouteShare(p) \/ ModelRemove(p) \/ LogUsage(p)
  BY <1>2 DEF ProxyCreate, ProxyEdit, ProxyDelete, RouteEdit, RouteDelete, RouteShare,
              ModelRemove, LogUsage
<1>3. CASE MaskSet(p)
  BY <1>3 DEF MaskSet
<1>4. CASE ProviderEdit(p)
  BY <1>4 DEF ProviderEdit
<1>5. CASE RouteCreate(p)
  BY <1>5 DEF RouteCreate
<1>6. CASE ModelAdd(p)
  BY <1>6 DEF ModelAdd
<1>7. CASE ModelMove(p)
  BY <1>7 DEF ModelMove
<1> QED
  BY <1>1, <1>2, <1>3, <1>4, <1>5, <1>6, <1>7 DEF ProfileCommand

Bounded(c, b) == c \in Nat /\ b \in [commands : Nat, jobs : Nat]

LEMMA StepIsBounded ==
  ASSUME Sound(db), JobInv(db, job), Bounded(caller, budget), Next
  PROVE  Bounded(caller', budget')
<1>1. ASSUME NEW p \in Nat, NEW outcomes, Run(p, outcomes)
      PROVE  Bounded(caller', budget')
  BY <1>1 DEF Run, Bounded
<1>2. ASSUME NEW p \in Nat, NEW j, NEW outcomes, Begin(p, j, outcomes)
      PROVE  Bounded(caller', budget')
  BY <1>2 DEF Begin, Bounded
<1>3. ASSUME job # Idle, NEW j, NEW d, Go(j, d)
      PROVE  Bounded(caller', budget')
  BY <1>3 DEF Go, Bounded, JobInv, Shaped
<1>4. db.next \in Nat
  BY DEF Sound, IsStore
<1>5. \A p \in Profiles : p \in Nat
  BY ProfileIds DEF Profiles
<1>6. CASE ProfileCreate
  BY <1>1, <1>4, <1>6 DEF ProfileCreate
<1>7. CASE \E p \in Profiles : ProfileCommand(p)
  <2>1. PICK p \in Profiles : ProfileCommand(p)
    BY <1>7
  <2>2. p \in Nat
    BY <1>5
  <2> QED
    BY <1>1, <1>2, <2>1, <2>2, CommandForms
<1>8. CASE \E p \in Profiles : Export(p)
  BY <1>2, <1>5, <1>8 DEF Export
<1>9. CASE JobStep \/ Interrupt
  <2>1. job # Idle
    BY <1>9 DEF JobStep, MaskSetWrites, ProviderEditWrites, RouteWizard, ModelAddWrites,
                ModelMoveWrites, Interrupt, Idle
  <2>2. \E j, d : Go(j, d)
    BY <1>9 DEF JobStep, MaskSetWrites, ProviderEditWrites, RouteWizard, ModelAddWrites,
                ModelMoveWrites, Interrupt, Finish
  <2> QED
    BY <1>3, <2>1, <2>2
<1>10. CASE ExportMasks \/ ExportTree \/ ScriptStep \/ RefStep \/ ScriptDone \/ Compensate
  <2>1. job # Idle
    BY <1>10 DEF ExportMasks, ExportTree, ScriptStep, RefStep, ScriptDone, Compensate, Idle
  <2>2. \E j, d : Go(j, d)
    BY <1>10 DEF ExportMasks, ExportTree, ScriptStep, RefStep, ScriptDone, Compensate, Refused
  <2> QED
    BY <1>3, <2>1, <2>2
<1>11. CASE \E n \in Names : Import(n)
  <2>1. caller' = db.next /\ budget' = budget
    BY <1>11 DEF Import, Write
  <2> QED
    BY <1>4, <2>1 DEF Bounded
<1>12. CASE \E n \in Names : Bootstrap(n)
  <2>1. caller' = db.next /\ budget.jobs > 0 /\ budget' = [budget EXCEPT !.jobs = @ - 1]
    BY <1>12 DEF Bootstrap, Write
  <2> QED
    BY <1>4, <2>1 DEF Bounded
<1> QED
  BY <1>6, <1>7, <1>8, <1>9, <1>10, <1>11, <1>12 DEF Next

LEMMA InitIsRight == ASSUME Init PROVE IInv
<1>1. Sound(db) /\ job = Idle /\ caller \in Nat
  BY ConsoleAssumption DEF Init, ConsoleInit, Sound, None
<1>2. budget \in [commands : Nat, jobs : Nat]
  BY ConsoleAssumption DEF Init, ConsoleInit
<1> QED
  BY <1>1, <1>2, IdleInv DEF IInv

LEMMA StepIsRight == ASSUME IInv, [Next]_vars PROVE IInv'
<1>1. CASE Next
  <2>1. Sound(db) /\ JobInv(db, job) /\ Bounded(caller, budget)
    BY DEF IInv, Bounded
  <2>2. Evolves(db, db') /\ JobInv(db', job')
    BY <1>1, <2>1, StepKeeps
  <2>3. Bounded(caller', budget')
    BY <1>1, <2>1, StepIsBounded
  <2> QED
    BY <2>2, <2>3 DEF IInv, Bounded, Evolves
<1>2. CASE UNCHANGED vars
  BY <1>2 DEF IInv, vars, consoleVars
<1> QED
  BY <1>1, <1>2

LEMMA AlwaysRight == Spec => []IInv
BY InitIsRight, StepIsRight, PTL DEF Spec

(* In every reachable store, whatever ran, was interrupted, refused or       *)
(* failed, and in whatever order: each reference leads to a row, names are   *)
(* unique where the schema says so, an entry has one target, a usage row its *)
(* entry; and the job under way is one the code has.                         *)
THEOREM CatalogTypeCorrect == Spec => []TypeOK
<1>1. ASSUME IInv
      PROVE  TypeOK
  <2>1. job.kind \in Kinds
    BY <1>1 DEF IInv, JobInv, Shaped, Idle, Kinds
  <2> QED
    BY <1>1, <2>1 DEF IInv, Sound, TypeOK, Kinds
<1> QED
  BY <1>1, AlwaysRight, PTL

(* Whoever runs a command, whatever job is half done: rows of other profiles *)
(* stay as they are, but for entries and bindings that led to what is gone.  *)
THEOREM CommandsKeepOthers == Spec => OthersKeepTheirRows
<1>1. ASSUME IInv, [Next]_vars
      PROVE  [OthersKeep(db, db', caller')]_vars
  BY <1>1, StepKeeps DEF IInv
<1> QED
  BY <1>1, AlwaysRight, PTL DEF Spec, OthersKeepTheirRows

LEMMA EditKeepsMask ==
  ASSUME IInv, job.kind = "provider", job.alone, ProviderEditWrites, db' # db
  PROVE  EffectiveMask(db', job.id) = IF job.picked = None THEN EffectiveMask(db, job.id)
                                                           ELSE job.picked
<1> DEFINE v == job.id
           old == db.providers[v]
           row == [old EXCEPT !.name = job.name, !.mask = job.mask, !.shared = job.shared]
<1>1. v \in DOMAIN db.providers /\ db' \in Update(db, "providers", v, row)
  BY DEF ProviderEditWrites, Finish, Go, UpdateProvider
<1>2. IsRow("providers", old) /\ "providers" \in Tables
  BY <1>1 DEF IInv, Sound, IsStore, Tables
<1>3. IsRow("providers", row) /\ row.mask = job.mask /\ row.profile = old.profile
  BY <1>2 DEF IsRow, Columns
<1> HIDE DEF row
<1>4. db'.profiles = db.profiles /\ db'.providers[v] = row
  BY <1>1, <1>2, <1>3, UpdatedStore DEF IInv, Sound, Tables
<1>5. job.mask = MaskToWrite(db, v, job.picked)
  <2>1. job # Idle
    BY DEF Idle
  <2> QED
    BY <2>1 DEF IInv, JobInv, KnowsStore
<1>6. EffectiveMask(db', v) = IF job.mask # None THEN job.mask ELSE db.profiles[old.profile].default
  BY <1>3, <1>4 DEF EffectiveMask
<1> QED
  BY <1>5, <1>6 DEF MaskToWrite, EffectiveMask

(* For every store and every operator: an edit of a provider that nobody     *)
(* interfered with leaves its traffic on the mask it had, or on the one      *)
(* picked, through its own binding or the default of its profile.            *)
THEOREM EditsKeepEgress == Spec => EditKeepsEgress
<1>1. ASSUME IInv, [Next]_vars
      PROVE  [job.kind = "provider" /\ job.alone /\ ProviderEditWrites /\ db' # db
                => EffectiveMask(db', job.id) = IF job.picked = None THEN EffectiveMask(db, job.id)
                                                                     ELSE job.picked]_vars
  BY <1>1, EditKeepsMask
<1> QED
  BY <1>1, AlwaysRight, PTL DEF Spec, EditKeepsEgress

(* ------------------- a bootstrap that takes itself back ----------------- *)

LEMMA OwnersExist ==
  ASSUME NEW d, Sound(d), NEW t \in Tables, NEW i \in DOMAIN d[t]
  PROVE  Owner(d, t, i) \in DOMAIN d.profiles
<1> DEFINE has(u) == Owner(d, u, i) \in DOMAIN d.profiles
<1>1. /\ Owner(d, "profiles", i) = i
      /\ Owner(d, "masks", i) = d.masks[i].profile
      /\ Owner(d, "providers", i) = d.providers[i].profile
      /\ Owner(d, "proxies", i) = d.proxies[i].profile
      /\ Owner(d, "routes", i) = d.proxies[d.routes[i].proxy].profile
      /\ Owner(d, "entries", i) = d.proxies[d.routes[d.entries[i].route].proxy].profile
  BY OwnerIs
<1>2. /\ i \in DOMAIN d.profiles => has("profiles")
      /\ i \in DOMAIN d.masks => has("masks")
      /\ i \in DOMAIN d.providers => has("providers")
      /\ i \in DOMAIN d.proxies => has("proxies")
      /\ i \in DOMAIN d.routes => has("routes")
      /\ i \in DOMAIN d.entries => has("entries")
  BY <1>1, RowsRefer
<1> HIDE DEF has
<1>3. has(t)
  BY <1>2 DEF Tables
<1> QED
  BY <1>3 DEF has

LEMMA DeletedProfileIsGone ==
  ASSUME NEW d, Sound(d), NEW p, NEW e \in DeleteProfile(d, p)
  PROVE  /\ Sound(e) /\ Evolves(d, e) /\ p \notin DOMAIN e.profiles
         /\ \A t \in Tables : DOMAIN e[t] \subseteq DOMAIN d[t]
         /\ \A t \in Tables : \A i \in DOMAIN e[t] : Owner(e, t, i) # p
<1> DEFINE dead == Doomed(d, "profiles", {p})
<1>1. p \in dead.profiles
  BY DEF Doomed
<1>2. dead = Doomed(d, "profiles", {p})
  OBVIOUS
<1> HIDE DEF dead
<1>3. e \in Delete(d, "profiles", p)
  BY DEF DeleteProfile
<1>4. \A u \in Tables : DOMAIN e[u] = DOMAIN d[u] \ dead[u]
  BY <1>2, <1>3, DeletedStore DEF Sound
<1>5. p \notin DOMAIN e.profiles
  BY <1>1, <1>4 DEF Tables
<1>6. Sound(e) /\ Evolves(d, e)
  BY DeletesEvolve DEF Evolves
<1>7. \A t \in Tables : \A i \in DOMAIN e[t] : Owner(e, t, i) # p
  BY <1>5, <1>6, OwnersExist
<1> QED
  BY <1>4, <1>5, <1>6, <1>7

(* What grew under the profile goes with it, and nothing else does.          *)
LEMMA GrownIsTakenBack ==
  ASSUME NEW w, NEW d, Sound(d), NEW p, Grown(w, d, p), NEW e \in DeleteProfile(d, p)
  PROVE  [e EXCEPT !.next = w.next] = w
<1>1. /\ Sound(e) /\ Evolves(d, e)
      /\ \A t \in Tables : DOMAIN e[t] \subseteq DOMAIN d[t]
      /\ \A t \in Tables : \A i \in DOMAIN e[t] : Owner(e, t, i) # p
  BY DeletedProfileIsGone
<1>2. /\ Sound(w) /\ p = w.next /\ d.usage = w.usage
      /\ \A t \in Tables : \A i \in DOMAIN w[t] : i \in DOMAIN d[t] /\ d[t][i] = w[t][i]
      /\ \A t \in Tables : \A i \in DOMAIN d[t] \ DOMAIN w[t] : Owner(d, t, i) = p
  BY DEF Grown
<1>3. ASSUME NEW t \in Tables, NEW i \in DOMAIN e[t]
      PROVE  i \in DOMAIN w[t]
  <2>1. Owner(d, t, i) # p
    BY <1>1, <1>3, OwnersStay
  <2> QED
    BY <1>1, <1>2, <2>1
(* An old row is not of p: its owner was there before p had its id.          *)
<1>4. ASSUME NEW t \in Tables, NEW i \in DOMAIN w[t]
      PROVE  Owner(d, t, i) # p
  <2>1. Owner(w, t, i) \in DOMAIN w.profiles
    BY <1>2, OwnersExist
  <2>2. p \notin DOMAIN w.profiles
    BY <1>2, IdsArePositive DEF Tables
  <2>3. Owner(d, t, i) = Owner(w, t, i)
    BY <1>2, OwnersFollow
  <2> QED
    BY <2>1, <2>2, <2>3
<1>5. OthersKeep(d, e, p)
  BY DeletesKeepOthers
(* Nor does it lead to a row of p, which was not there.                      *)
<1>6. ASSUME NEW t \in Tables, NEW i \in DOMAIN w[t]
      PROVE  ~ Collateral(d, e, t, i, p)
  <2>1. \A u \in Tables : \A k \in DOMAIN w[u] : k \notin GoneOf(d, e, u, p)
    BY <1>4 DEF GoneOf
  <2>2. \A u \in Tables : None \notin GoneOf(d, e, u, p)
    BY IdsArePositive DEF GoneOf, None
  <2>3. /\ i \in DOMAIN w.entries => /\ w.entries[i].provider \in DOMAIN w.providers \cup {None}
                                    /\ w.entries[i].target \in DOMAIN w.routes \cup {None}
        /\ i \in DOMAIN w.providers => w.providers[i].mask \in DOMAIN w.masks \cup {None}
        /\ i \in DOMAIN w.profiles => w.profiles[i].default \in DOMAIN w.masks \cup {None}
    BY <1>2, RowsRefer
  <2>4. "providers" \in Tables /\ "routes" \in Tables /\ "masks" \in Tables
    BY DEF Tables
  <2>5. d[t][i] = w[t][i]
    BY <1>2
  <2>6. CASE t = "entries"
    BY <2>1, <2>2, <2>3, <2>4, <2>5, <2>6 DEF Collateral
  <2>7. CASE t = "providers"
    BY <2>1, <2>2, <2>3, <2>4, <2>5, <2>7 DEF Collateral
  <2>8. CASE t = "profiles"
    BY <2>1, <2>2, <2>3, <2>4, <2>5, <2>8 DEF Collateral
  <2> QED
    BY <2>6, <2>7, <2>8 DEF Collateral
<1>7. ASSUME NEW t \in Tables, NEW i \in DOMAIN w[t]
      PROVE  i \in DOMAIN e[t] /\ e[t][i] = w[t][i]
  BY <1>2, <1>4, <1>5, <1>6 DEF OthersKeep
<1>8. ASSUME NEW t \in Tables
      PROVE  e[t] = w[t]
  <2>1. DOMAIN e[t] = DOMAIN w[t]
    BY <1>3, <1>7
  <2>2. /\ e[t] = [i \in DOMAIN e[t] |-> e[t][i]]
        /\ w[t] = [i \in DOMAIN w[t] |-> w[t][i]]
    BY <1>1, <1>2 DEF Sound, IsStore
  <2> QED
    BY <1>7, <2>1, <2>2
<1>9. e.usage = w.usage
  <2> DEFINE dead == Doomed(d, "profiles", {p})
  <2>1. dead = Doomed(d, "profiles", {p})
    OBVIOUS
  <2> HIDE DEF dead
  <2>2. e \in Delete(d, "profiles", p)
    BY DEF DeleteProfile
  <2>3. /\ e.usage = {u \in d.usage : u.entry \notin dead.entries}
        /\ DOMAIN e.entries = DOMAIN d.entries \ dead.entries
    BY <2>1, <2>2, DeletedStore DEF Sound, Tables
  <2>4. \A u \in w.usage : u.entry \in DOMAIN w.entries
    BY <1>2 DEF Sound, Consistent
  <2>5. DOMAIN w.entries = DOMAIN e.entries
    BY <1>8 DEF Tables
  <2> QED
    BY <1>2, <2>3, <2>4, <2>5
<1> DEFINE f == [e EXCEPT !.next = w.next]
<1>10. /\ DOMAIN e = Tables \cup {"usage", "next"} /\ DOMAIN w = Tables \cup {"usage", "next"}
       /\ w = [x \in DOMAIN w |-> w[x]]
  BY <1>1, <1>2 DEF Sound, IsStore
<1>11. DOMAIN f = DOMAIN w /\ \A x \in DOMAIN w : f[x] = w[x]
  BY <1>8, <1>9, <1>10 DEF Tables
<1>12. f = [x \in DOMAIN f |-> f[x]]
  OBVIOUS
<1> HIDE DEF f
<1>13. f = w
  BY <1>10, <1>11, <1>12
<1> QED
  BY <1>13 DEF f

(* A bootstrap that reports an error takes back the profile and everything   *)
(* that leads to it, whatever others did to them; undisturbed, it leaves     *)
(* every table, cascades and usage included, as it found them.               *)
THEOREM FailedSeedsLeaveNothing == Spec => FailedSeedLeavesNothing
<1>1. ASSUME IInv, job.kind = "cleanup", Compensate
      PROVE  /\ \A t \in Tables : \A i \in DOMAIN db'[t] : Owner(db', t, i) # job.profile
             /\ job.alone => [db' EXCEPT !.next = job.was.next] = job.was
  <2>1. Sound(db) /\ db' \in DeleteProfile(db, job.profile)
    BY <1>1 DEF IInv, Compensate, Go
  <2>2. job.alone => Grown(job.was, db, job.profile)
    BY <1>1, ScriptKnows DEF IInv, ScriptKinds
  <2> QED
    BY <2>1, <2>2, DeletedProfileIsGone, GrownIsTakenBack
<1>2. ASSUME IInv, [Next]_vars
      PROVE  [job.kind = "cleanup" /\ Compensate
                => /\ \A t \in Tables : \A i \in DOMAIN db'[t] : Owner(db', t, i) # job.profile
                   /\ job.alone => [db' EXCEPT !.next = job.was.next] = job.was]_vars
  BY <1>1, <1>2
<1> QED
  BY <1>2, AlwaysRight, PTL DEF Spec, FailedSeedLeavesNothing

(* ------------------------ a move, write by write ------------------------ *)

(* A move's writes from index c on, under a name that hides their list.      *)
Writes(chain, i, c, last) == Append(Behind(chain, i, c), last)

(* The chain has been renumbered from the wanted position up to, but not     *)
(* including, index c: what is still to be written, and what was.            *)
MoveAt(d, j, todo, i, c) ==
  /\ todo = Writes(j.before, i, c, <<j.entry, j.position>>)
  /\ \A x \in DOMAIN j.before :
       d.entries[j.before[x]].priority =
         IF x \in j.position .. c - 1 /\ x # i THEN x + 1
                                               ELSE j.was.entries[j.before[x]].priority

(* All is written.                                                          *)
Moved(d, j, i) ==
  \A x \in DOMAIN j.before :
    d.entries[j.before[x]].priority =
      IF x = i THEN j.position
      ELSE IF j.position <= x THEN x + 1 ELSE j.was.entries[j.before[x]].priority

(* What the move started from, and that the chain lists the same entries.    *)
MoveKnows(d, j) ==
  /\ Sound(j.was) /\ j.before \in RouteEntries(j.was, j.route) /\ j.position \in DOMAIN j.before
  /\ Chain(d, j.route) = Chain(j.was, j.route)

Upward(j, i) == i \in DOMAIN j.before /\ j.entry = j.before[i] /\ j.position <= i

MoveFields == {"kind", "was", "route", "before", "entry", "position", "todo", "profile", "alone"}

Moves(j) == j.kind = "move" /\ j.alone

(* A move that nobody interfered with knows how far it has come.             *)
MoveInv(d, j) ==
  Moves(j) =>
    /\ DOMAIN j = MoveFields /\ MoveKnows(d, j)
    /\ \A i : Upward(j, i) => \E c \in j.position .. Len(j.before) + 1 : MoveAt(d, j, j.todo, i, c)

(* In a chain, every entry of the route has one place.                       *)
LEMMA ChainPlaces ==
  ASSUME NEW d, Sound(d), NEW r, NEW chain \in RouteEntries(d, r),
         NEW n, n = Cardinality(Chain(d, r))
  PROVE  /\ n \in Nat /\ Lists(chain, n, Chain(d, r))
         /\ \A x, y \in 1 .. n :
              x < y => d.entries[chain[x]].priority <= d.entries[chain[y]].priority
<1> DEFINE C == Chain(d, r)
<1>1. C \subseteq 1 .. d.next - 1 /\ d.next \in Nat
  BY DEF Chain, Pointing, Sound, Consistent, IsStore, Tables
<1>2. IsFiniteSet(C)
  <2>1. IsFiniteSet(1 .. d.next - 1)
    BY <1>1, FS_Interval
  <2> QED
    BY <1>1, <2>1, FS_Subset
<1>3. n \in Nat
  BY <1>2, FS_CardinalityType
<1>4. chain \in [1 .. n -> C] /\ \A x, y \in 1 .. n : x # y => chain[x] # chain[y]
  BY DEF RouteEntries, SetToSeqs
<1>5. chain \in Injection(1 .. n, C)
  BY <1>4 DEF Injection, IsInjective
<1>6. IsFiniteSet(1 .. n) /\ Cardinality(1 .. n) = n
  BY <1>3, FS_Interval
<1>7. chain \in Surjection(1 .. n, C)
  BY <1>2, <1>5, <1>6, FS_Injection
<1>8. \A e \in C : \E x \in 1 .. n : chain[x] = e
  BY <1>7 DEF Surjection
<1>9. \A x, y \in DOMAIN chain :
        x < y => d.entries[chain[x]].priority <= d.entries[chain[y]].priority
  BY DEF RouteEntries
<1> QED
  BY <1>3, <1>4, <1>8, <1>9 DEF Lists

(* ------------------------- what is left to write ------------------------ *)

(* The m-th of the entries from index c on, of n, leaving out the i-th.      *)
Nth(i, c, m) == IF c <= i /\ i < c + m THEN c + m ELSE c + m - 1

CountFrom(n, i, c) == IF c <= i THEN n - c ELSE n + 1 - c

(* What the entry at index x is renumbered to.                               *)
Renumbered(chain, x) == <<chain[x], x + 1>>

LEMMA BehindItems ==
  ASSUME NEW chain, IsList(chain), NEW n, n = Len(chain), NEW i \in 1 .. n, NEW c \in 1 .. n + 1,
         NEW b, b = Behind(chain, i, c)
  PROVE  /\ IsList(b) /\ Len(b) = CountFrom(n, i, c)
         /\ \A m \in 1 .. CountFrom(n, i, c) : b[m] = Renumbered(chain, Nth(i, c, m))
<1> DEFINE all == [j \in DOMAIN chain |-> <<chain[j], j + 1>>]
<1>1. n \in Nat /\ DOMAIN chain = 1 .. n
  BY DEF IsList
<1>2. /\ all = [j \in 1 .. n |-> all[j]]
      /\ \A j \in 1 .. n : all[j] = Renumbered(chain, j)
  BY <1>1 DEF Renumbered
<1>3. b = IF i < c THEN SubSeq(all, c, Len(all))
          ELSE SubSeq(all, c, i - 1) \o SubSeq(all, i + 1, Len(all))
  BY DEF Behind
<1> HIDE DEF all
<1>4. IsList(all) /\ Len(all) = n
  BY <1>1, <1>2, FunctionIsList
<1>5. CASE i < c
  <2>1. Cuts(b, all, c, n, n + 1 - c)
    BY <1>1, <1>3, <1>4, <1>5 DEF Cuts
  <2>2. CutOf(b, all, c, n + 1 - c)
    BY <2>1, CutItems
  <2>3. \A m \in 1 .. n + 1 - c : c + m - 1 \in 1 .. n /\ Nth(i, c, m) = c + m - 1
    BY <1>1, <1>5 DEF Nth
  <2>4. CountFrom(n, i, c) = n + 1 - c
    BY <1>1, <1>5 DEF CountFrom
  <2>5. ASSUME NEW m \in 1 .. n + 1 - c
        PROVE  b[m] = Renumbered(chain, Nth(i, c, m))
    <3>1. b[m] = all[c + m - 1]
      BY <2>2 DEF CutOf
    <3>2. c + m - 1 \in 1 .. n /\ Nth(i, c, m) = c + m - 1
      BY <2>3
    <3> QED
      BY <1>2, <3>1, <3>2
  <2> QED
    BY <2>2, <2>4, <2>5 DEF CutOf
<1>6. CASE ~ i < c
  <2> DEFINE front == SubSeq(all, c, i - 1)
             back == SubSeq(all, i + 1, n)
  <2>1. Cuts(front, all, c, i - 1, i - c)
    BY <1>1, <1>4, <1>6 DEF Cuts
  <2>2. Cuts(back, all, i + 1, n, n - i)
    BY <1>1, <1>4 DEF Cuts
  <2>3. b = front \o back
    BY <1>3, <1>4, <1>6
  <2> HIDE DEF front, back
  <2>4. CutOf(front, all, c, i - c)
    BY <2>1, CutItems
  <2>5. CutOf(back, all, i + 1, n - i)
    BY <2>2, CutItems
  <2>6. JoinOf(b, front, i - c, back, n - i)
    <3>1. Joins(b, front, i - c, back, n - i)
      BY <2>3, <2>4, <2>5 DEF Joins, CutOf
    <3> QED
      BY <3>1, JoinItems
  <2>7. CountFrom(n, i, c) = n - c /\ (i - c) + (n - i) = n - c
    BY <1>1, <1>6 DEF CountFrom
  <2>8. ASSUME NEW m \in 1 .. n - c
        PROVE  b[m] = Renumbered(chain, Nth(i, c, m))
    <3>1. m \in 1 .. (i - c) + (n - i)
      BY <1>1, <1>6
    <3>2. CASE m <= i - c
      <4>1. c + m - 1 \in 1 .. n /\ Nth(i, c, m) = c + m - 1 /\ m \in 1 .. i - c
        BY <1>1, <1>6, <3>2 DEF Nth
      <4>2. b[m] = front[m] /\ front[m] = all[c + m - 1]
        BY <2>4, <2>6, <3>1, <3>2, <4>1 DEF CutOf, JoinOf
      <4> QED
        BY <1>2, <4>1, <4>2
    <3>3. CASE ~ m <= i - c
      <4> DEFINE k == m - (i - c)
      <4>1. /\ c + m \in 1 .. n /\ Nth(i, c, m) = c + m
            /\ k \in 1 .. n - i /\ i + 1 + k - 1 = c + m
        BY <1>1, <1>6, <3>3 DEF Nth
      <4>2. b[m] = back[k]
        BY <2>6, <3>1, <3>3 DEF JoinOf
      <4> HIDE DEF k
      <4>3. back[k] = all[c + m]
        BY <2>5, <4>1 DEF CutOf
      <4> QED
        BY <1>2, <4>1, <4>2, <4>3
    <3> QED
      BY <3>2, <3>3
  <2> QED
    BY <2>6, <2>7, <2>8 DEF JoinOf
<1> QED
  BY <1>5, <1>6

(* The first of the writes still to do, and the rest.                        *)
Advances(todo, chain, n, i, c, last) ==
  /\ c = n + 1 => todo[1] = last /\ Len(todo) = 1
  /\ c = i => todo = Writes(chain, i, c + 1, last)
  /\ c # i /\ c <= n => /\ todo[1] = Renumbered(chain, c) /\ Len(todo) > 1
                        /\ Tail(todo) = Writes(chain, i, c + 1, last)

LEMMA BehindAdvances ==
  ASSUME NEW chain, IsList(chain), NEW n, n = Len(chain), NEW i \in 1 .. n, NEW c \in 1 .. n + 1,
         NEW last, NEW todo, todo = Writes(chain, i, c, last)
  PROVE  Advances(todo, chain, n, i, c, last)
<1> DEFINE b == Behind(chain, i, c)
           l == CountFrom(n, i, c)
<1>0. n \in Nat
  BY DEF IsList
<1>2. b = Behind(chain, i, c) /\ todo = Append(b, last)
  BY DEF Writes
<1> HIDE DEF b
<1>1. IsList(b) /\ Len(b) = l /\ l \in Nat /\ \A m \in 1 .. l : b[m] = Renumbered(chain, Nth(i, c, m))
  <2>1. IsList(b) /\ Len(b) = l /\ \A m \in 1 .. l : b[m] = Renumbered(chain, Nth(i, c, m))
    BY <1>2, BehindItems
  <2> HIDE DEF l
  <2> QED
    BY <2>1 DEF IsList
<1>3. /\ IsList(todo) /\ Len(todo) = l + 1
      /\ \A m \in 1 .. l : todo[m] = b[m]
      /\ todo[l + 1] = last
  <2> HIDE DEF l
  <2> QED
    BY <1>1, <1>2, AppendIsList
<1>4. ASSUME c = n + 1
      PROVE  todo[1] = last /\ Len(todo) = 1
  <2>1. l = 0
    BY <1>0, <1>4 DEF CountFrom
  <2> HIDE DEF l
  <2> QED
    BY <1>3, <2>1
<1>5. ASSUME c <= n
      PROVE  /\ c = i => todo = Writes(chain, i, c + 1, last)
             /\ c # i => /\ todo[1] = Renumbered(chain, c) /\ Len(todo) > 1
                         /\ Tail(todo) = Writes(chain, i, c + 1, last)
  <2> DEFINE b2 == Behind(chain, i, c + 1)
             l2 == CountFrom(n, i, c + 1)
             rest == Append(b2, last)
  <2>1. c + 1 \in 1 .. n + 1
    BY <1>0, <1>5
  <2>2. /\ IsList(b2) /\ Len(b2) = l2
        /\ \A m \in 1 .. l2 : b2[m] = Renumbered(chain, Nth(i, c + 1, m))
    <3>1. b2 = Behind(chain, i, c + 1)
      OBVIOUS
    <3> HIDE DEF b2
    <3> QED
      BY <2>1, <3>1, BehindItems
  <2>3. /\ c = i => l = l2 /\ \A m \in 1 .. l : Nth(i, c, m) = Nth(i, c + 1, m)
        /\ c # i => /\ l = l2 + 1 /\ Nth(i, c, 1) = c
                    /\ \A m \in 1 .. l2 : Nth(i, c, m + 1) = Nth(i, c + 1, m)
    BY <1>0, <1>5 DEF CountFrom, Nth
  <2>4. l2 \in Nat
    BY <1>0, <1>5 DEF CountFrom
  <2> HIDE DEF b2, l, l2
  <2>5. /\ IsList(rest) /\ Len(rest) = l2 + 1
        /\ \A m \in 1 .. l2 : rest[m] = b2[m]
        /\ rest[l2 + 1] = last
    BY <2>2, AppendIsList
  <2> HIDE DEF rest
  <2>6. ASSUME c = i
        PROVE  todo = rest
    <3>1. \A m \in 1 .. l : b[m] = b2[m]
      BY <1>1, <2>2, <2>3, <2>6
    <3>2. Len(todo) = Len(rest) /\ \A m \in 1 .. Len(todo) : todo[m] = rest[m]
      BY <1>1, <1>3, <2>3, <2>5, <2>6, <3>1
    <3> QED
      BY <1>3, <2>5, <3>2, ListsEqual
  <2>7. ASSUME c # i
        PROVE  todo[1] = Renumbered(chain, c) /\ Len(todo) > 1 /\ Tail(todo) = rest
    <3>1. \A m \in 1 .. l2 : b[m + 1] = b2[m]
      BY <1>1, <2>2, <2>3, <2>4, <2>7
    <3>2. Len(todo) = Len(rest) + 1 /\ \A m \in 1 .. Len(rest) : todo[m + 1] = rest[m]
      BY <1>3, <2>3, <2>4, <2>5, <2>7, <3>1
    <3>3. Len(todo) > 1 /\ todo[1] = b[1]
      BY <1>3, <2>3, <2>4, <2>7
    <3>4. b[1] = Renumbered(chain, c)
      BY <1>1, <2>3, <2>4, <2>7
    <3>5. todo # << >>
      BY <3>3, NotEmpty
    <3>6. /\ IsList(Tail(todo)) /\ Len(Tail(todo)) = Len(todo) - 1
          /\ \A m \in 1 .. Len(todo) - 1 : Tail(todo)[m] = todo[m + 1]
      BY <1>3, <3>5, TailIsList
    <3>7. Len(Tail(todo)) = Len(rest) /\ \A m \in 1 .. Len(Tail(todo)) : Tail(todo)[m] = rest[m]
      BY <2>4, <2>5, <3>2, <3>6
    <3>8. Tail(todo) = rest
      BY <2>5, <3>6, <3>7, ListsEqual
    <3> QED
      BY <3>3, <3>4, <3>8
  <2> QED
    BY <2>6, <2>7 DEF rest, b2, Writes
<1> QED
  BY <1>0, <1>4, <1>5 DEF Advances

(* --------------------- who else may leave a move half done -------------- *)

LEMMA IdleIsNoMove == ~ Moves(Idle)
BY DEF Moves, Idle

LEMMA RunIsNoMove ==
  ASSUME JobInv(db, job), NEW p, NEW outcomes, Run(p, outcomes)
  PROVE  ~ Moves(job')
<1>1. CASE job = Idle
  BY <1>1, IdleIsNoMove DEF Run
<1>2. CASE job # Idle
  <2>1. "alone" \in DOMAIN job /\ job' = [job EXCEPT !.alone = FALSE]
    BY <1>2 DEF JobInv, Shaped, Run
  <2>2. job'.alone = FALSE
    BY <2>1
  <2> QED
    BY <2>2 DEF Moves
<1> QED
  BY <1>1, <1>2

LEMMA BeginIsNoMove ==
  ASSUME NEW p, NEW j, NEW outcomes, Begin(p, j, outcomes), "kind" \in DOMAIN j, j.kind # "move"
  PROVE  ~ Moves(job')
<1>1. job'.kind = j.kind
  BY BegunJob
<1> QED
  BY <1>1 DEF Moves

LEMMA CommandsAreNoMoves ==
  ASSUME JobInv(db, job), NEW p, ProfileCommand(p), ~ ModelMove(p)
  PROVE  ~ Moves(job')
<1>1. CASE \/ ProfileEdit(p) \/ ProfileDelete(p) \/ TokenRotate(p)
           \/ MaskAdd(p) \/ MaskSetDefault(p) \/ MaskDelete(p)
           \/ ProviderAdd(p) \/ SetupProvider(p) \/ ProviderShare(p) \/ ProviderDelete(p)
  <2>1. \E outcomes : Run(p, outcomes)
    BY <1>1 DEF ProfileEdit, ProfileDelete, TokenRotate, MaskAdd, MaskSetDefault, MaskDelete,
                ProviderAdd, SetupProvider, ProviderShare, ProviderDelete
  <2> QED
    BY <2>1, RunIsNoMove
<1>2. CASE \/ ProxyCreate(p) \/ ProxyEdit(p) \/ ProxyDelete(p)
           \/ RouteEdit(p) \/ RouteDelete(p) \/ RouteShare(p) \/ ModelRemove(p) \/ LogUsage(p)
  <2>1. \E outcomes : Run(p, outcomes)
    BY <1>2 DEF ProxyCreate, ProxyEdit, ProxyDelete, RouteEdit, RouteDelete, RouteShare,
                ModelRemove, LogUsage
  <2> QED
    BY <2>1, RunIsNoMove
<1>3. ASSUME NEW j, NEW outcomes, Begin(p, j, outcomes), "kind" \in DOMAIN j, j.kind # "move"
      PROVE  ~ Moves(job')
  BY <1>3, BeginIsNoMove
<1>4. CASE MaskSet(p)
  BY <1>3, <1>4 DEF MaskSet
<1>5. CASE ProviderEdit(p)
  BY <1>3, <1>5 DEF ProviderEdit
<1>6. CASE RouteCreate(p)
  BY <1>3, <1>6 DEF RouteCreate
<1>7. CASE ModelAdd(p)
  <2>1. PICK r, v, target :
          Begin(p, [kind |-> "entry", route |-> r, provider |-> v, target |-> target,
                    priority |-> NextPriority(db, r)], {db})
    BY <1>7 DEF ModelAdd
  <2> QED
    BY <1>3, <2>1
<1> QED
  BY <1>1, <1>2, <1>4, <1>5, <1>6, <1>7 DEF ProfileCommand

LEMMA ScriptsAreNoMoves ==
  ASSUME JobInv(db, job), ScriptStep \/ RefStep \/ ScriptDone \/ Compensate
  PROVE  ~ Moves(job')
<1>1. CASE ScriptDone \/ Compensate
  <2>1. job' = Idle
    BY <1>1 DEF ScriptDone, Compensate, Go
  <2> QED
    BY <2>1, IdleIsNoMove
<1>2. CASE ScriptStep \/ RefStep
  <2>1. job.kind \in {"import", "seed"} /\ job.kind \in ScriptKinds
    BY <1>2 DEF ScriptStep, RefStep, ScriptKinds
  <2>2. job # Idle /\ Shaped(job) /\ {"kind", "refs"} \subseteq DOMAIN job
    BY <2>1, ScriptKnows DEF Shaped
  <2>3. CASE job' = Idle
    BY <2>3, IdleIsNoMove
  <2>4. CASE job' = [job EXCEPT !.kind = "cleanup"]
    <3>1. job'.kind = "cleanup"
      BY <2>2, <2>4
    <3> QED
      BY <3>1 DEF Moves
  <2>5. CASE \E item, id : job' = Remember(item, id)
    <3>1. job'.kind = job.kind
      BY <2>1, <2>2, <2>5, RememberedJob
    <3> QED
      BY <2>1, <3>1 DEF Moves
  <2>6. CASE job' = [job EXCEPT !.refs = Tail(@)]
    <3>1. job'.kind = job.kind
      BY <2>2, <2>6
    <3> QED
      BY <2>1, <3>1 DEF Moves
  <2> QED
    BY <1>2, <2>3, <2>4, <2>5, <2>6 DEF ScriptStep, RefStep, Refused, Go
<1> QED
  BY <1>1, <1>2

LEMMA OthersAreNoMoves ==
  ASSUME JobInv(db, job), Next, ~ ModelMoveWrites, \A p \in Profiles : ~ ModelMove(p)
  PROVE  ~ Moves(job')
<1>1. CASE ProfileCreate
  BY <1>1, RunIsNoMove DEF ProfileCreate
<1>2. CASE MaskSetWrites \/ ProviderEditWrites \/ ModelAddWrites \/ Interrupt \/ ExportTree
  <2>1. job' = Idle
    BY <1>2 DEF MaskSetWrites, ProviderEditWrites, ModelAddWrites, Interrupt, ExportTree, Finish, Go
  <2> QED
    BY <2>1, IdleIsNoMove
<1>3. CASE RouteWizard \/ ExportMasks
  <2>1. job.kind \in {"wizard", "export"} /\ job # Idle
    BY <1>3 DEF RouteWizard, ExportMasks, Idle
  <2>2. "kind" \in DOMAIN job
    BY <2>1 DEF JobInv, Shaped
  <2>3. job' = Idle \/ (\E v : job' = [job EXCEPT !.priority = v]) \/ (\E v : job' = [job EXCEPT !.masks = v])
    BY <1>3 DEF RouteWizard, ExportMasks, Go
  <2>4. job' = Idle \/ job'.kind = job.kind
    BY <2>2, <2>3
  <2> QED
    BY <2>1, <2>4, IdleIsNoMove DEF Moves
<1>4. CASE \E p \in Profiles : ProfileCommand(p)
  BY <1>4, CommandsAreNoMoves
<1>5. CASE \E p \in Profiles : Export(p)
  <2>1. PICK p, j, outcomes : Begin(p, j, outcomes) /\ "kind" \in DOMAIN j /\ j.kind # "move"
    BY <1>5 DEF Export
  <2> QED
    BY <2>1, BeginIsNoMove
<1>6. CASE \E n \in Names : Import(n) \/ Bootstrap(n)
  <2>1. PICK kind, n, p, items, view :
          kind \in {"import", "seed"} /\ job' = Script(kind, n, p, items, view)
    BY <1>6 DEF Import, Bootstrap, Write
  <2>2. job'.kind = kind
    BY <2>1 DEF Script
  <2> QED
    BY <2>1, <2>2 DEF Moves
<1>7. CASE ScriptStep \/ RefStep \/ ScriptDone \/ Compensate
  BY <1>7, ScriptsAreNoMoves
<1> QED
  BY <1>1, <1>2, <1>3, <1>4, <1>5, <1>6, <1>7 DEF Next, JobStep

(* ---------------------------- the move itself --------------------------- *)

(* A write changes one priority, and no chain.                               *)
LEMMA PriorityWritten ==
  ASSUME NEW d, Sound(d), NEW id \in DOMAIN d.entries, NEW v, NEW e \in SetRouteEntryPriority(d, id, v)
  PROVE  /\ DOMAIN e.entries = DOMAIN d.entries /\ e.entries[id].priority = v
         /\ \A x \in DOMAIN d.entries \ {id} : e.entries[x] = d.entries[x]
         /\ \A r : Chain(e, r) = Chain(d, r)
<1> DEFINE old == d.entries[id]
           row == [old EXCEPT !["priority"] = v]
<1>1. e \in Update(d, "entries", id, row)
  BY DEF SetRouteEntryPriority, SetColumn
<1>2. "entries" \in Tables /\ IsRow("entries", old)
  BY DEF Sound, IsStore, Tables
<1>3. IsRow("entries", row) /\ row.priority = v /\ row.route = old.route
  BY <1>2 DEF IsRow, Columns
<1> HIDE DEF row
<1>4. /\ DOMAIN e.entries = DOMAIN d.entries /\ e.entries[id] = row
      /\ \A x \in DOMAIN d.entries \ {id} : e.entries[x] = d.entries[x]
  BY <1>1, <1>2, <1>3, UpdatedStore DEF Sound
<1>5. \A x \in DOMAIN d.entries : e.entries[x].route = d.entries[x].route
  BY <1>3, <1>4
<1>6. \A r : Chain(e, r) = Chain(d, r)
  BY <1>4, <1>5 DEF Chain, Pointing
<1> QED
  BY <1>3, <1>4, <1>6

LEMMA MoveChain ==
  ASSUME NEW d, Sound(d), NEW r, NEW chain \in RouteEntries(d, r), NEW n, n = Len(chain)
  PROVE  /\ IsList(chain) /\ n \in Nat /\ DOMAIN chain = 1 .. n
         /\ Lists(chain, n, Chain(d, r)) /\ n = Cardinality(Chain(d, r))
         /\ \A x, y \in 1 .. n :
              x < y => d.entries[chain[x]].priority <= d.entries[chain[y]].priority
<1> DEFINE m == Cardinality(Chain(d, r))
<1>1. /\ m \in Nat /\ Lists(chain, m, Chain(d, r))
      /\ \A x, y \in 1 .. m :
           x < y => d.entries[chain[x]].priority <= d.entries[chain[y]].priority
  BY ChainPlaces
<1> HIDE DEF m
<1>2. chain = [x \in 1 .. m |-> chain[x]]
  BY <1>1 DEF Lists
<1>3. IsList(chain) /\ Len(chain) = m
  BY <1>1, <1>2, FunctionIsList
<1>4. DOMAIN chain = 1 .. m
  BY <1>2
<1> QED
  BY <1>1, <1>3, <1>4 DEF m

LEMMA ChainsStay ==
  ASSUME NEW d, Sound(d), NEW id, NEW v, NEW e \in SetRouteEntryPriority(d, id, v), NEW r
  PROVE  Chain(e, r) = Chain(d, r)
BY PriorityWritten DEF SetRouteEntryPriority

(* The next write of a move up, when index c is the next one to renumber.    *)
LEMMA NextWrite ==
  ASSUME NEW d, Sound(d), NEW j, MoveKnows(d, j), NEW i, Upward(j, i),
         NEW n, n = Len(j.before), NEW c \in j.position .. n + 1, c # i,
         NEW todo, MoveAt(d, j, todo, i, c),
         NEW e \in SetRouteEntryPriority(d, todo[1][1], todo[1][2])
  PROVE  \/ Len(todo) = 1 /\ Moved(e, j, i)
         \/ Len(todo) > 1 /\ c + 1 \in j.position .. n + 1 /\ MoveAt(e, j, Tail(todo), i, c + 1)
<1> DEFINE b == j.before
           p == j.position
           C == Chain(d, j.route)
           last == <<j.entry, p>>
<1>1. /\ IsList(b) /\ n \in Nat /\ DOMAIN b = 1 .. n /\ Lists(b, n, C)
      /\ i \in 1 .. n /\ p \in 1 .. n /\ p <= i /\ j.entry = b[i]
  BY MoveChain DEF MoveKnows, Upward
<1>2. c \in 1 .. n + 1
  BY <1>1
<1>3. /\ todo = Writes(b, i, c, last)
      /\ \A x \in 1 .. n : d.entries[b[x]].priority = IF x \in p .. c - 1 /\ x # i THEN x + 1
                                                     ELSE j.was.entries[b[x]].priority
  BY <1>1 DEF MoveAt
<1>4. /\ \A x \in 1 .. n : b[x] \in DOMAIN d.entries
      /\ \A x, y \in 1 .. n : b[x] = b[y] => x = y
  BY <1>1 DEF Lists, Chain, Pointing
<1>5. last[1] = b[i] /\ last[2] = p
  BY <1>1
<1> HIDE DEF b, last
<1>6. /\ c = n + 1 => todo[1] = last /\ Len(todo) = 1
      /\ c <= n => /\ todo[1] = Renumbered(b, c) /\ Len(todo) > 1
                   /\ Tail(todo) = Writes(b, i, c + 1, last)
  <2>1. n = Len(b)
    BY DEF b
  <2>2. todo = Writes(b, i, c, last) /\ i \in 1 .. n /\ IsList(b)
    BY <1>1, <1>3
  <2>3. /\ c = n + 1 => todo[1] = last /\ Len(todo) = 1
        /\ c = i => todo = Writes(b, i, c + 1, last)
        /\ c # i /\ c <= n => /\ todo[1] = Renumbered(b, c) /\ Len(todo) > 1
                              /\ Tail(todo) = Writes(b, i, c + 1, last)
    <3>1. Advances(todo, b, n, i, c, last)
      BY <1>2, <2>1, <2>2, BehindAdvances
    <3> QED
      BY <3>1 DEF Advances
  <2> QED
    BY <2>3
<1> HIDE DEF p, C
<1>7. CASE c = n + 1
  <2>1. e \in SetRouteEntryPriority(d, b[i], p)
    BY <1>5, <1>6, <1>7
  <2>2. e.entries[b[i]].priority = p /\ \A x \in DOMAIN d.entries \ {b[i]} : e.entries[x] = d.entries[x]
    BY <1>1, <1>4, <2>1, PriorityWritten
  <2>3. ASSUME NEW x \in 1 .. n, x # i
        PROVE  e.entries[b[x]].priority = IF p <= x THEN x + 1 ELSE j.was.entries[b[x]].priority
    <3>1. e.entries[b[x]] = d.entries[b[x]]
      BY <1>1, <1>4, <2>2, <2>3
    <3>2. x \in p .. c - 1 <=> p <= x
      BY <1>1, <1>7
    <3> QED
      BY <1>3, <2>3, <3>1, <3>2
  <2>4. Moved(e, j, i)
    BY <1>1, <2>2, <2>3 DEF Moved, b, p
  <2> QED
    BY <1>6, <1>7, <2>4
<1>8. CASE c <= n
  <2>0. c \in 1 .. n /\ c + 1 \in p .. n + 1
    BY <1>1, <1>2, <1>8 DEF p
  <2>1. Renumbered(b, c)[1] = b[c] /\ Renumbered(b, c)[2] = c + 1
    BY DEF Renumbered
  <2>2. e \in SetRouteEntryPriority(d, b[c], c + 1)
    BY <1>6, <1>8, <2>1
  <2>3. e.entries[b[c]].priority = c + 1 /\ \A x \in DOMAIN d.entries \ {b[c]} : e.entries[x] = d.entries[x]
    BY <1>4, <2>0, <2>2, PriorityWritten
  <2>4. ASSUME NEW x \in 1 .. n
        PROVE  e.entries[b[x]].priority = IF x \in p .. (c + 1) - 1 /\ x # i THEN x + 1
                                          ELSE j.was.entries[b[x]].priority
    <3>1. CASE x = c
      <4>1. x \in p .. (c + 1) - 1
        BY <2>0, <3>1, <1>1 DEF p
      <4> QED
        BY <2>3, <3>1, <4>1
    <3>2. CASE x # c
      <4>1. e.entries[b[x]] = d.entries[b[x]]
        BY <1>4, <2>0, <2>3, <3>2
      <4>2. x \in p .. c - 1 <=> x \in p .. (c + 1) - 1
        BY <1>1, <2>0, <3>2
      <4> QED
        BY <1>3, <4>1, <4>2
    <3> QED
      BY <3>1, <3>2
  <2>5. MoveAt(e, j, Tail(todo), i, c + 1)
    BY <1>1, <1>6, <1>8, <2>4 DEF MoveAt, b, p, last
  <2> QED
    BY <1>6, <1>8, <2>0, <2>5 DEF p
<1> QED
  BY <1>1, <1>2, <1>7, <1>8

(* A move that knows how far it has come, one write later.                   *)
LEMMA MoveStep ==
  ASSUME Sound(db), JobInv(db, job), MoveInv(db, job), Moves(job), ModelMoveWrites
  PROVE  /\ MoveKnows(db', job)
         /\ job' = Idle \/ job' = [job EXCEPT !.todo = Tail(@)]
         /\ \A i : Upward(job, i) =>
              \/ job' = Idle /\ Moved(db', job, i)
              \/ /\ job' = [job EXCEPT !.todo = Tail(@)]
                 /\ \E c \in job.position .. Len(job.before) + 1 :
                      MoveAt(db', job, Tail(job.todo), i, c)
<1> DEFINE todo == job.todo
           n == Len(job.before)
<1>1. MoveKnows(db, job) /\ job # Idle /\ job.kind = "move"
  BY DEF MoveInv, Moves, Idle
<1>2. HoldsAll(db, job.profile, "entries", todo) /\ Len(todo) >= 1
  BY <1>1 DEF JobInv, HoldsOwn
<1>3. /\ db' \in SetRouteEntryPriority(db, Head(todo)[1], Head(todo)[2])
      /\ job' = IF Len(todo) = 1 THEN Idle ELSE [job EXCEPT !.todo = Tail(@)]
  BY DEF ModelMoveWrites, Go
<1>4. \A i : Upward(job, i) => \E c \in job.position .. n + 1 : MoveAt(db, job, todo, i, c)
  BY DEF MoveInv
<1> HIDE DEF todo
<1>5. Head(todo) = todo[1]
  <2>1. IsList(todo) /\ todo # << >>
    BY <1>2, NotEmpty DEF HoldsAll, IsList
  <2> QED
    BY <2>1, TailIsList
<1>6. MoveKnows(db', job)
  BY <1>1, <1>3, ChainsStay DEF MoveKnows
<1>7. ASSUME NEW i, Upward(job, i)
      PROVE  \/ Len(todo) = 1 /\ Moved(db', job, i)
             \/ Len(todo) > 1 /\ \E c \in job.position .. n + 1 : MoveAt(db', job, Tail(todo), i, c)
  <2>1. PICK c0 \in job.position .. n + 1 : MoveAt(db, job, todo, i, c0)
    BY <1>4, <1>7
  <2>2. PICK c \in job.position .. n + 1 : c # i /\ MoveAt(db, job, todo, i, c)
    <3>1. CASE c0 = i
      <4> DEFINE b == job.before
                 last == <<job.entry, job.position>>
      <4>1. /\ IsList(b) /\ n \in Nat /\ DOMAIN b = 1 .. n /\ i \in 1 .. n
            /\ job.position \in 1 .. n /\ job.position <= i
        <5>1. /\ Sound(job.was) /\ job.before \in RouteEntries(job.was, job.route)
              /\ i \in DOMAIN b /\ job.position \in DOMAIN b /\ job.position <= i
          BY <1>1, <1>7 DEF MoveKnows, Upward
        <5>2. IsList(b) /\ n \in Nat /\ DOMAIN b = 1 .. n
          BY <5>1, MoveChain
        <5> HIDE DEF b, n
        <5> QED
          BY <5>1, <5>2
      <4>2. c0 \in 1 .. n + 1 /\ i + 1 \in job.position .. n + 1 /\ i + 1 # i
        BY <3>1, <4>1
      <4>3. todo = Writes(b, i, c0, last)
        BY <2>1 DEF MoveAt
      <4>4. n = Len(b)
        OBVIOUS
      <4> HIDE DEF n, b, last
      <4>5. todo = Writes(b, i, c0 + 1, last)
        <5>1. Advances(todo, b, n, i, c0, last)
          BY <4>1, <4>2, <4>3, <4>4, BehindAdvances
        <5> QED
          BY <3>1, <5>1 DEF Advances
      <4>6. \A x \in 1 .. n : x \in job.position .. c0 - 1 /\ x # i <=> x \in job.position .. (c0 + 1) - 1 /\ x # i
        BY <3>1, <4>1
      <4>7. MoveAt(db, job, todo, i, i + 1)
        BY <2>1, <3>1, <4>1, <4>5, <4>6 DEF MoveAt, b, last
      <4> QED
        BY <4>2, <4>7
    <3>2. CASE c0 # i
      BY <2>1, <3>2
    <3> QED
      BY <3>1, <3>2
  <2>3. db' \in SetRouteEntryPriority(db, todo[1][1], todo[1][2])
    BY <1>3, <1>5
  <2>4. \/ Len(todo) = 1 /\ Moved(db', job, i)
        \/ Len(todo) > 1 /\ c + 1 \in job.position .. n + 1 /\ MoveAt(db', job, Tail(todo), i, c + 1)
    BY <1>1, <1>7, <2>2, <2>3, NextWrite
  <2> QED
    BY <2>4
<1>8. Len(todo) > 1 => Len(todo) # 1
  OBVIOUS
<1> QED
  BY <1>3, <1>6, <1>7, <1>8 DEF todo

(* ---------------- the invariant of a move, at every step ---------------- *)

LEMMA MoveGoesOn ==
  ASSUME Sound(db), JobInv(db, job), MoveInv(db, job), ModelMoveWrites
  PROVE  MoveInv(db', job')
<1>1. CASE job' = Idle
  BY <1>1, IdleIsNoMove DEF MoveInv
<1>2. CASE ~ Moves(job) /\ job' # Idle
  <2>1. job # Idle /\ job' = [job EXCEPT !.todo = Tail(@)]
    BY <1>2 DEF ModelMoveWrites, Go, Idle
  <2>2. {"kind", "alone"} \subseteq DOMAIN job
    BY <2>1 DEF JobInv, Shaped
  <2>3. job'.kind = job.kind /\ job'.alone = job.alone
    BY <2>1, <2>2
  <2>4. ~ Moves(job')
    BY <1>2, <2>3 DEF Moves
  <2> QED
    BY <2>4 DEF MoveInv
<1>3. CASE Moves(job) /\ job' # Idle
  <2>1. job' = [job EXCEPT !.todo = Tail(@)] /\ MoveKnows(db', job)
    BY <1>3, MoveStep
  <2>2. \A i : Upward(job, i) => \E c \in job.position .. Len(job.before) + 1 :
                                   MoveAt(db', job, Tail(job.todo), i, c)
    BY <1>3, MoveStep
  <2>3. DOMAIN job = MoveFields
    BY <1>3 DEF MoveInv
  <2>4. /\ DOMAIN job' = MoveFields /\ job'.was = job.was /\ job'.route = job.route
        /\ job'.before = job.before /\ job'.entry = job.entry /\ job'.position = job.position
        /\ job'.todo = Tail(job.todo)
    BY <2>1, <2>3 DEF MoveFields
  <2>5. MoveKnows(db', job')
    BY <2>1, <2>4 DEF MoveKnows
  <2>6. \A i : Upward(job', i) => Upward(job, i)
    BY <2>4 DEF Upward
  <2>7. \A i, c : MoveAt(db', job, Tail(job.todo), i, c) => MoveAt(db', job', job'.todo, i, c)
    BY <2>4 DEF MoveAt
  <2>8. \A i : Upward(job', i) => \E c \in job'.position .. Len(job'.before) + 1 :
                                    MoveAt(db', job', job'.todo, i, c)
    <3> SUFFICES ASSUME NEW i, Upward(job', i)
                 PROVE  \E c \in job'.position .. Len(job'.before) + 1 : MoveAt(db', job', job'.todo, i, c)
      OBVIOUS
    <3>1. PICK c \in job.position .. Len(job.before) + 1 : MoveAt(db', job, Tail(job.todo), i, c)
      BY <2>2, <2>6
    <3>2. c \in job'.position .. Len(job'.before) + 1
      BY <2>4
    <3> QED
      BY <2>7, <3>1, <3>2
  <2> QED
    BY <2>4, <2>5, <2>8 DEF MoveInv
<1> QED
  BY <1>1, <1>2, <1>3

LEMMA MoveStarts ==
  ASSUME Sound(db), NEW p \in Profiles, ModelMove(p)
  PROVE  MoveInv(db', job')
<1> DEFINE Asked(r, chain, i, position) ==
      [kind |-> "move", was |-> db, route |-> r, before |-> chain, entry |-> chain[i],
       position |-> position,
       todo |-> Append(Shift(chain, i, position), <<chain[i], position>>)]
<1>1. PICK r \in RoutesOf(db, p) : \E chain \in RouteEntries(db, r) : \E i, position \in DOMAIN chain :
        Begin(p, Asked(r, chain, i, position), {db})
  BY DEF ModelMove
<1>2. PICK chain \in RouteEntries(db, r) : \E i, position \in DOMAIN chain :
        Begin(p, Asked(r, chain, i, position), {db})
  BY <1>1
<1>3. PICK i \in DOMAIN chain, position \in DOMAIN chain : Begin(p, Asked(r, chain, i, position), {db})
  BY <1>2
<1> DEFINE j == Asked(r, chain, i, position)
           last == <<chain[i], position>>
<1>4. /\ DOMAIN j = {"kind", "was", "route", "before", "entry", "position", "todo"}
      /\ j.was = db /\ j.route = r /\ j.before = chain /\ j.entry = chain[i]
      /\ j.position = position /\ j.todo = Writes(chain, i, position, last)
  BY DEF Writes, Shift
<1>5. Begin(p, j, {db})
  BY <1>3
<1> HIDE DEF j, Asked, last
<1>6. /\ DOMAIN job' = DOMAIN j \cup {"profile", "alone"}
      /\ \A x \in DOMAIN j \ {"profile", "alone"} : job'[x] = j[x]
  BY <1>5, BegunJob
<1>7. /\ DOMAIN job' = MoveFields
      /\ job'.was = db /\ job'.route = r /\ job'.before = chain /\ job'.entry = chain[i]
      /\ job'.position = position /\ job'.todo = Writes(chain, i, position, last)
  BY <1>4, <1>6 DEF MoveFields
<1>8. db' = db
  BY <1>5 DEF Begin
<1>9. MoveKnows(db', job')
  BY <1>7, <1>8 DEF MoveKnows
<1> DEFINE n == Len(chain)
<1>10. n \in Nat /\ DOMAIN chain = 1 .. n /\ \A x, y \in 1 .. n : chain[x] = chain[y] => x = y
  BY MoveChain DEF Lists
<1>11. ASSUME NEW k, Upward(job', k)
       PROVE  MoveAt(db', job', job'.todo, k, position)
  <2>1. k = i
    BY <1>7, <1>10, <1>11 DEF Upward
  <2>2. \A x \in DOMAIN chain : ~ x \in position .. position - 1
    BY <1>10
  <2> QED
    BY <1>7, <1>8, <2>1, <2>2 DEF MoveAt, last
<1>12. position \in job'.position .. Len(job'.before) + 1
  BY <1>7, <1>10
<1> QED
  BY <1>7, <1>9, <1>11, <1>12 DEF MoveInv

LEMMA MovesKeepTrack ==
  ASSUME IInv, MoveInv(db, job), [Next]_vars
  PROVE  MoveInv(db, job)'
<1>1. Sound(db) /\ JobInv(db, job)
  BY DEF IInv
<1>2. CASE ModelMoveWrites
  BY <1>1, <1>2, MoveGoesOn
<1>3. CASE \E p \in Profiles : ModelMove(p)
  BY <1>1, <1>3, MoveStarts
<1>4. CASE Next /\ ~ ModelMoveWrites /\ \A p \in Profiles : ~ ModelMove(p)
  BY <1>1, <1>4, OthersAreNoMoves DEF MoveInv
<1>5. CASE UNCHANGED vars
  BY <1>5 DEF vars, consoleVars
<1> QED
  BY <1>2, <1>3, <1>4, <1>5

LEMMA AlwaysOnTrack == Spec => [](IInv /\ MoveInv(db, job))
<1>1. Init => MoveInv(db, job)
  BY IdleIsNoMove DEF Init, ConsoleInit, MoveInv
<1> QED
  BY <1>1, MovesKeepTrack, AlwaysRight, PTL DEF Spec

(* ------------------------ what a request may read ----------------------- *)

(* Of n things, which comes k-th when the i-th is moved up to place p.       *)
MovedUp(i, p, k) == IF k < p THEN k ELSE IF k = p THEN i ELSE IF k <= i THEN k - 1 ELSE k

MovedList(b, i, p) == InsertAt(RemoveAt(b, i), p, b[i])

MovedOf(w, b, n, i, p) == IsList(w) /\ Len(w) = n /\ \A k \in 1 .. n : w[k] = b[MovedUp(i, p, k)]

LEMMA MovedItems ==
  ASSUME NEW b, IsList(b), NEW n, n = Len(b), NEW i \in 1 .. n, NEW p \in 1 .. i,
         NEW w, w = MovedList(b, i, p)
  PROVE  MovedOf(w, b, n, i, p)
<1> DEFINE x == SubSeq(b, 1, i - 1)
           y == SubSeq(b, i + 1, n)
           rest == x \o y
           one == <<b[i]>>
           front == SubSeq(rest, 1, p - 1)
           back == SubSeq(rest, p, n - 1)
           left == front \o one
<1>1. n \in Nat
  BY DEF IsList
<1>2. rest = RemoveAt(b, i)
  BY DEF RemoveAt
<1>3. rest = x \o y
  OBVIOUS
<1>4. front = SubSeq(rest, 1, p - 1) /\ back = SubSeq(rest, p, n - 1)
  OBVIOUS
<1>5. left = front \o one
  OBVIOUS
<1>6. IsList(one) /\ Len(one) = 1 /\ one[1] = b[i]
  BY DEF IsList
<1>7. Cuts(x, b, 1, i - 1, i - 1)
  BY <1>1 DEF Cuts
<1>8. Cuts(y, b, i + 1, n, n - i)
  BY <1>1 DEF Cuts
<1> HIDE DEF x, y, one
<1>9. CutOf(x, b, 1, i - 1)
  BY <1>7, CutItems
<1>10. CutOf(y, b, i + 1, n - i)
  BY <1>8, CutItems
<1> HIDE DEF rest
<1>11. /\ IsList(rest) /\ Len(rest) = n - 1
       /\ \A m \in 1 .. n - 1 : rest[m] = IF m < i THEN b[m] ELSE b[m + 1]
  <2>1. Joins(rest, x, i - 1, y, n - i)
    BY <1>3, <1>9, <1>10 DEF Joins, CutOf
  <2>2. JoinOf(rest, x, i - 1, y, n - i)
    BY <2>1, JoinItems
  <2>3. (i - 1) + (n - i) = n - 1
    BY <1>1
  <2>4. ASSUME NEW m \in 1 .. n - 1
        PROVE  rest[m] = IF m < i THEN b[m] ELSE b[m + 1]
    <3>1. CASE m < i
      <4>1. m \in 1 .. i - 1 /\ m <= i - 1 /\ m \in 1 .. (i - 1) + (n - i) /\ 1 + m - 1 = m
        BY <1>1, <3>1
      <4> QED
        BY <1>9, <2>2, <3>1, <4>1 DEF CutOf, JoinOf
    <3>2. CASE ~ m < i
      <4> DEFINE q == m - (i - 1)
      <4>1. /\ q \in 1 .. n - i /\ ~ m <= i - 1 /\ m \in 1 .. (i - 1) + (n - i)
            /\ (i + 1) + q - 1 = m + 1 /\ m - (i - 1) = q
        BY <1>1, <3>2
      <4> HIDE DEF q
      <4> QED
        BY <1>10, <2>2, <3>2, <4>1 DEF CutOf, JoinOf
    <3> QED
      BY <3>1, <3>2
  <2> QED
    BY <2>2, <2>3, <2>4 DEF JoinOf
<1>12. w = left \o back
  <2>1. Len(rest) = n - 1
    BY <1>11
  <2>2. w = InsertAt(rest, p, b[i])
    BY <1>2 DEF MovedList
  <2> QED
    BY <2>1, <2>2 DEF InsertAt, one
<1> HIDE DEF front, back, left
<1>13. Cuts(front, rest, 1, p - 1, p - 1)
  BY <1>1, <1>4, <1>11 DEF Cuts
<1>14. Cuts(back, rest, p, n - 1, n - p)
  BY <1>1, <1>4, <1>11 DEF Cuts
<1>15. CutOf(front, rest, 1, p - 1)
  BY <1>13, CutItems
<1>16. CutOf(back, rest, p, n - p)
  BY <1>14, CutItems
<1>17. JoinOf(left, front, p - 1, one, 1)
  <2>1. Joins(left, front, p - 1, one, 1)
    BY <1>5, <1>6, <1>15 DEF Joins, CutOf
  <2> QED
    BY <2>1, JoinItems
<1>18. JoinOf(w, left, p, back, n - p)
  <2>1. Joins(w, left, p, back, n - p)
    <3>1. (p - 1) + 1 = p
      BY <1>1
    <3> QED
      BY <1>12, <1>16, <1>17, <3>1 DEF Joins, CutOf, JoinOf
  <2> QED
    BY <2>1, JoinItems
<1>19. ASSUME NEW k \in 1 .. n
       PROVE  w[k] = b[MovedUp(i, p, k)]
  <2>1. CASE k < p
    <3>1. k <= p /\ k \in 1 .. p /\ k <= p - 1 /\ k \in 1 .. p - 1 /\ 1 + k - 1 = k
          /\ k \in 1 .. (p - 1) + 1 /\ k \in 1 .. p + (n - p) /\ k \in 1 .. n - 1 /\ k < i
      BY <1>1, <2>1
    <3>2. w[k] = left[k] /\ left[k] = front[k] /\ front[k] = rest[k]
      BY <1>15, <1>17, <1>18, <3>1 DEF CutOf, JoinOf
    <3> QED
      BY <1>11, <2>1, <3>1, <3>2 DEF MovedUp
  <2>2. CASE k = p
    <3>1. /\ k <= p /\ ~ k <= p - 1 /\ k - (p - 1) = 1
          /\ k \in 1 .. (p - 1) + 1 /\ k \in 1 .. p + (n - p)
      BY <1>1, <2>2
    <3>2. w[k] = left[k] /\ left[k] = one[1]
      BY <1>17, <1>18, <3>1 DEF JoinOf
    <3> QED
      BY <1>6, <2>2, <3>1, <3>2 DEF MovedUp
  <2>3. CASE p < k
    <3>1. k - p \in 1 .. n - p /\ k \in 1 .. p + (n - p) /\ ~ k <= p /\ p + (k - p) - 1 = k - 1 /\ k - 1 \in 1 .. n - 1
      BY <1>1, <2>3
    <3>2. w[k] = back[k - p] /\ back[k - p] = rest[k - 1]
      BY <1>16, <1>18, <3>1 DEF CutOf, JoinOf
    <3>3. /\ (k - 1 < i <=> k <= i) /\ (k - 1) + 1 = k
          /\ MovedUp(i, p, k) = IF k <= i THEN k - 1 ELSE k
      BY <1>1, <2>3 DEF MovedUp
    <3> QED
      BY <1>11, <3>1, <3>2, <3>3
  <2> QED
    BY <2>1, <2>2, <2>3
<1>20. p + (n - p) = n
  BY <1>1
<1> QED
  BY <1>18, <1>19, <1>20 DEF JoinOf, MovedOf

(* What f says of a contiguous list b whose i-th element is on its way up to *)
(* place p: it leaves the first p - 1 where they are; and, all written,      *)
(* p is free for the i-th.                                                   *)
LeavesFront(f, b, n, p) ==
  \A x \in 1 .. n : IF x < p THEN f[b[x]] = x ELSE f[b[x]] \in Int /\ f[b[x]] >= p

MakesRoom(f, b, n, i, p) ==
  \A x \in 1 .. n : f[b[x]] = IF x = i THEN p ELSE IF p <= x THEN x + 1 ELSE x

LEMMA FrontIsRead ==
  ASSUME NEW n \in Nat, NEW C, NEW f \in [C -> Int], NEW s, NEW b, Lists(s, n, C), Lists(b, n, C),
         InOrder(f, s, n), NEW p \in 1 .. n, LeavesFront(f, b, n, p), NEW k \in 1 .. p - 1
  PROVE  s[k] = b[k]
<1> DEFINE m == p - 1
<1>1. ASSUME NEW x \in 1 .. m, NEW y \in 1 .. n, x < y
      PROVE  f[b[x]] < f[b[y]]
  <2>1. x \in 1 .. n /\ x < p
    OBVIOUS
  <2>2. f[b[x]] = x
    BY <2>1 DEF LeavesFront
  <2>3. f[b[y]] = y \/ (f[b[y]] \in Int /\ f[b[y]] >= p)
    BY DEF LeavesFront
  <2> QED
    BY <1>1, <2>1, <2>2, <2>3
<1>2. LeadStrictly(f, b, m, n)
  BY <1>1 DEF LeadStrictly
<1>3. m \in 0 .. n /\ k \in 1 .. m
  OBVIOUS
<1> HIDE DEF m
<1> QED
  BY <1>2, <1>3, OrderIsForced

LEMMA MovedIsRead ==
  ASSUME NEW n \in Nat, NEW C, NEW f \in [C -> Int], NEW s, NEW b, Lists(s, n, C), Lists(b, n, C),
         IsList(s), Len(s) = n, IsList(b), Len(b) = n,
         InOrder(f, s, n), NEW i \in 1 .. n, NEW p \in 1 .. i, MakesRoom(f, b, n, i, p)
  PROVE  s = MovedList(b, i, p)
<1> DEFINE w == MovedList(b, i, p)
<1>1. w = MovedList(b, i, p)
  OBVIOUS
<1> HIDE DEF w
<1>2. IsList(w) /\ Len(w) = n /\ \A k \in 1 .. n : w[k] = b[MovedUp(i, p, k)]
  <2>1. MovedOf(w, b, n, i, p)
    BY <1>1, MovedItems
  <2> QED
    BY <2>1 DEF MovedOf
<1>3. \A k \in 1 .. n : MovedUp(i, p, k) \in 1 .. n
  BY DEF MovedUp
<1>4. \A x, y \in 1 .. n : MovedUp(i, p, x) = MovedUp(i, p, y) => x = y
  BY DEF MovedUp
<1>5. \A x \in 1 .. n : \E k \in 1 .. n : MovedUp(i, p, k) = x
  <2> SUFFICES ASSUME NEW x \in 1 .. n
               PROVE  \E k \in 1 .. n : MovedUp(i, p, k) = x
    OBVIOUS
  <2>1. CASE x < p
    BY <2>1 DEF MovedUp
  <2>2. CASE x = i
    <3>1. p \in 1 .. n /\ MovedUp(i, p, p) = x
      BY <2>2 DEF MovedUp
    <3> QED
      BY <3>1
  <2>3. CASE p <= x /\ x < i
    <3>1. x + 1 \in 1 .. n /\ MovedUp(i, p, x + 1) = x
      BY <2>3 DEF MovedUp
    <3> QED
      BY <3>1
  <2>4. CASE i < x
    <3>1. MovedUp(i, p, x) = x
      BY <2>4 DEF MovedUp
    <3> QED
      BY <3>1
  <2> QED
    BY <2>1, <2>2, <2>3, <2>4
<1>6. Lists(w, n, C)
  <2>1. /\ \A x \in 1 .. n : b[x] \in C
        /\ \A x, y \in 1 .. n : b[x] = b[y] => x = y
        /\ \A e \in C : \E x \in 1 .. n : b[x] = e
    BY DEF Lists
  <2>2. \A k \in 1 .. n : w[k] \in C
    BY <1>2, <1>3, <2>1
  <2>3. w = [k \in 1 .. n |-> w[k]]
    BY <1>2 DEF IsList
  <2>4. w \in [1 .. n -> C]
    BY <2>2, <2>3
  <2>5. \A x, y \in 1 .. n : w[x] = w[y] => x = y
    BY <1>2, <1>3, <1>4, <2>1
  <2>6. ASSUME NEW e \in C
        PROVE  \E k \in 1 .. n : w[k] = e
    <3>1. PICK x \in 1 .. n : b[x] = e
      BY <2>1
    <3>2. PICK k \in 1 .. n : MovedUp(i, p, k) = x
      BY <1>5
    <3> QED
      BY <1>2, <3>1, <3>2
  <2> QED
    BY <2>4, <2>5, <2>6 DEF Lists
<1>7. ASSUME NEW k \in 1 .. n
      PROVE  f[w[k]] = IF k <= i THEN k ELSE k + 1
  <2>1. MovedUp(i, p, k) \in 1 .. n /\ w[k] = b[MovedUp(i, p, k)]
    BY <1>2, <1>3
  <2>2. f[w[k]] = LET x == MovedUp(i, p, k) IN IF x = i THEN p ELSE IF p <= x THEN x + 1 ELSE x
    BY <2>1 DEF MakesRoom
  <2> QED
    BY <2>2 DEF MovedUp
<1>8. LeadStrictly(f, w, n, n)
  BY <1>7 DEF LeadStrictly
<1>9. n \in 0 .. n
  OBVIOUS
<1>10. \A k \in 1 .. n : s[k] = w[k]
  BY <1>6, <1>8, <1>9, OrderIsForced
<1> QED
  BY <1>1, <1>2, <1>10, ListsEqual

(* What a request may read of a chain whose entry is being moved up.         *)
LEMMA MoveIsRead ==
  ASSUME NEW d, Sound(d), NEW j, MoveKnows(d, j), Contiguous(j.was, j.before),
         NEW i, Upward(j, i), NEW chain \in RouteEntries(d, j.route),
         Moved(d, j, i) \/ \E c \in j.position .. Len(j.before) + 1 : \E todo : MoveAt(d, j, todo, i, c)
  PROVE  /\ \A k \in 1 .. j.position - 1 : chain[k] = j.before[k]
         /\ Moved(d, j, i) => chain = MovedList(j.before, i, j.position)
<1> DEFINE b == j.before
           p == j.position
           C == Chain(d, j.route)
           n == Len(b)
           f == [e \in C |-> d.entries[e].priority]
<1>1. /\ Sound(j.was) /\ b \in RouteEntries(j.was, j.route) /\ C = Chain(j.was, j.route)
      /\ i \in DOMAIN b /\ p \in DOMAIN b /\ p <= i
  BY DEF MoveKnows, Upward
<1>2. b = j.before /\ p = j.position /\ n = Len(b) /\ C = Chain(d, j.route)
  OBVIOUS
<1>3. f = [e \in C |-> d.entries[e].priority]
  OBVIOUS
<1> HIDE DEF b, p, C, n, f
<1>4. IsList(b) /\ n \in Nat /\ DOMAIN b = 1 .. n /\ Lists(b, n, C) /\ n = Cardinality(C)
  <2> DEFINE D == Chain(j.was, j.route)
  <2>1. n = Len(b) /\ D = Chain(j.was, j.route)
    BY <1>2
  <2>2. /\ IsList(b) /\ n \in Nat /\ DOMAIN b = 1 .. n /\ Lists(b, n, Chain(j.was, j.route))
        /\ n = Cardinality(Chain(j.was, j.route))
    <3> HIDE DEF D
    <3> QED
      BY <1>1, <2>1, MoveChain
  <2> QED
    BY <1>1, <2>2
<1>5. /\ IsList(chain) /\ Len(chain) = n /\ Lists(chain, n, C)
      /\ \A x, y \in 1 .. n : x < y => d.entries[chain[x]].priority <= d.entries[chain[y]].priority
  <2> DEFINE m == Len(chain)
  <2>1. m = Len(chain)
    OBVIOUS
  <2> HIDE DEF m
  <2>2. /\ IsList(chain) /\ Lists(chain, m, C) /\ m = Cardinality(C)
        /\ \A x, y \in 1 .. m : x < y => d.entries[chain[x]].priority <= d.entries[chain[y]].priority
    BY <1>2, <2>1, MoveChain
  <2> QED
    BY <1>4, <2>1, <2>2
<1>6. i \in 1 .. n /\ p \in 1 .. n /\ p \in 1 .. i
  BY <1>1, <1>4
<1>7. \A x \in 1 .. n : b[x] \in C /\ j.was.entries[b[x]].priority = x
  BY <1>2, <1>4 DEF Contiguous, Lists
<1>8. \A x \in 1 .. n : f[b[x]] = d.entries[b[x]].priority
  BY <1>3, <1>7
<1>9. Moved(d, j, i) => MakesRoom(f, b, n, i, p)
  BY <1>2, <1>4, <1>7, <1>8 DEF Moved, MakesRoom
<1>10. LeavesFront(f, b, n, p)
  <2>1. CASE Moved(d, j, i)
    BY <1>6, <1>9, <2>1 DEF MakesRoom, LeavesFront
  <2>2. CASE \E c \in p .. n + 1 : \E todo : MoveAt(d, j, todo, i, c)
    <3>1. PICK c \in p .. n + 1 : \E todo : MoveAt(d, j, todo, i, c)
      BY <2>2
    <3>2. \A x \in 1 .. n : f[b[x]] = IF x \in p .. c - 1 /\ x # i THEN x + 1 ELSE x
      BY <1>2, <1>4, <1>7, <1>8, <3>1 DEF MoveAt
    <3> QED
      BY <1>4, <1>6, <3>2 DEF LeavesFront
  <2> QED
    BY <1>2, <2>1, <2>2
<1>11. f \in [C -> Int]
  <2>1. \A e \in C : \E x \in 1 .. n : b[x] = e
    BY <1>4 DEF Lists
  <2>2. \A x \in 1 .. n : f[b[x]] \in Int
    BY <1>4, <1>10 DEF LeavesFront
  <2>3. \A e \in C : f[e] \in Int
    BY <2>1, <2>2
  <2> QED
    BY <1>3, <2>3
<1>12. InOrder(f, chain, n)
  <2>1. \A x \in 1 .. n : chain[x] \in C
    BY <1>5 DEF Lists
  <2>2. \A x \in 1 .. n : f[chain[x]] = d.entries[chain[x]].priority
    BY <1>3, <2>1
  <2> QED
    BY <1>5, <2>2 DEF InOrder
<1>13. \A k \in 1 .. p - 1 : chain[k] = b[k]
  BY <1>4, <1>5, <1>6, <1>10, <1>11, <1>12, FrontIsRead
<1>14. MakesRoom(f, b, n, i, p) => chain = MovedList(b, i, p)
  <2>1. Len(b) = n
    BY <1>2
  <2> QED
    BY <1>4, <1>5, <1>6, <1>11, <1>12, <2>1, MovedIsRead
<1> QED
  BY <1>2, <1>9, <1>13, <1>14

(* For every chain, whatever its length, and every entry of it: after each   *)
(* write of a move up that nobody interfered with, whoever reads the chain   *)
(* finds what came before the wanted position where it was; after the last,  *)
(* exactly the order asked for.                                              *)
THEOREM MovesAreExact == Spec => UpwardMoveIsExact
<1>1. ASSUME IInv, MoveInv(db, job), job.kind = "move" /\ job.alone, ModelMoveWrites,
             Contiguous(job.was, job.before),
             NEW i \in job.position .. Len(job.before), job.before[i] = job.entry,
             NEW chain \in RouteEntries(db', job.route)
      PROVE  /\ \A k \in 1 .. job.position - 1 : chain[k] = job.before[k]
             /\ job' = Idle =>
                  chain = InsertAt(RemoveAt(job.before, i), job.position, job.entry)
  <2>1. Sound(db) /\ JobInv(db, job) /\ Moves(job)
    BY <1>1 DEF IInv, Moves
  <2>2. Sound(db')
    <3>1. Evolves(db, db')
      BY <1>1, <2>1, JobsEvolve
    <3> QED
      BY <3>1 DEF Evolves
  <2>3. Upward(job, i)
    <3>1. Sound(job.was) /\ job.before \in RouteEntries(job.was, job.route) /\ job.position \in DOMAIN job.before
      BY <1>1, <2>1 DEF MoveInv, MoveKnows
    <3> DEFINE n == Len(job.before)
    <3>2. n \in Nat /\ DOMAIN job.before = 1 .. n
      BY <3>1, MoveChain
    <3>3. i \in DOMAIN job.before /\ job.position <= i
      BY <1>1, <3>1, <3>2
    <3> QED
      BY <1>1, <3>3 DEF Upward
  <2>4. /\ MoveKnows(db', job)
        /\ \/ job' = Idle /\ Moved(db', job, i)
           \/ /\ job' = [job EXCEPT !.todo = Tail(@)]
              /\ \E c \in job.position .. Len(job.before) + 1 : MoveAt(db', job, Tail(job.todo), i, c)
    BY <1>1, <2>1, <2>3, MoveStep
  <2>5. job' = [job EXCEPT !.todo = Tail(@)] => job' # Idle
    <3>1. "kind" \in DOMAIN job
      BY <1>1, <2>1 DEF MoveInv, MoveFields
    <3> QED
      BY <1>1, <3>1 DEF Idle
  <2>6. /\ \A k \in 1 .. job.position - 1 : chain[k] = job.before[k]
        /\ Moved(db', job, i) => chain = MovedList(job.before, i, job.position)
    <3>1. \/ Moved(db', job, i)
          \/ \E c \in job.position .. Len(job.before) + 1 : \E todo : MoveAt(db', job, todo, i, c)
      BY <2>4
    <3>2. MoveKnows(db', job)
      BY <2>4
    <3> QED
      BY <1>1, <2>2, <2>3, <3>1, <3>2, MoveIsRead
  <2>7. MovedList(job.before, i, job.position) = InsertAt(RemoveAt(job.before, i), job.position, job.entry)
    BY <1>1 DEF MovedList
  <2> QED
    BY <2>4, <2>5, <2>6, <2>7
<1>2. ASSUME IInv, MoveInv(db, job), [Next]_vars
      PROVE  [job.kind = "move" /\ job.alone /\ ModelMoveWrites /\ Contiguous(job.was, job.before)
               => \A i \in job.position .. Len(job.before) : job.before[i] = job.entry =>
                    \A chain \in RouteEntries(db', job.route) :
                      /\ \A k \in 1 .. job.position - 1 : chain[k] = job.before[k]
                      /\ job' = Idle =>
                           chain = InsertAt(RemoveAt(job.before, i), job.position, job.entry)]_vars
  BY <1>1, <1>2
<1> QED
  BY <1>2, AlwaysOnTrack, PTL DEF Spec, UpwardMoveIsExact

=============================================================================
