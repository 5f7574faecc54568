------------------------------- MODULE Store -------------------------------
(***************************************************************************)
(* The SQLite store of profiles, egress masks, providers, proxies, routes, *)
(* chain entries and usage rows: what each method of Store does to the     *)
(* tables.  A table maps the ids of its rows to the columns that names,    *)
(* ownership, sharing, bindings and chain order depend on; descriptions,   *)
(* URLs, secrets and tuning columns are left out.  A method is the set of  *)
(* its outcomes: empty when SQLite or the method itself reports an error.  *)
(***************************************************************************)
EXTENDS Integers, Sequences, FiniteSets, FiniteSetsExt, SequencesExt, Functions, TLC

None == 0         \* SQL NULL; ids start at 1
NoName == "none"

Tables == {"profiles", "masks", "providers", "proxies", "routes", "entries"}

(* The unique indexes: the columns no two rows of a table share.           *)
Key(t) == CASE t = "profiles" -> {"name"}
            [] t \in {"masks", "providers", "proxies"} -> {"profile", "name"}
            [] t = "routes" -> {"proxy", "name"}
            [] OTHER -> {}

(* The references of a table: which column names a row of which table.      *)
References(t) ==
  CASE t = "profiles" -> {<<"default", "masks">>}
    [] t \in {"masks", "proxies"} -> {<<"profile", "profiles">>}
    [] t = "providers" -> {<<"profile", "profiles">>, <<"mask", "masks">>}
    [] t = "routes" -> {<<"proxy", "proxies">>}
    [] t = "entries" -> {<<"route", "routes">>, <<"provider", "providers">>, <<"target", "routes">>}

Nullable == {"default", "mask", "provider", "target"}

(* What SQLite verifies before a row of table t is written under id.       *)
Legal(d, t, id, row) ==
  /\ \A r \in References(t) :
       row[r[1]] \in DOMAIN d[r[2]] \/ (r[1] \in Nullable /\ row[r[1]] = None)
  /\ Key(t) # {} => \A i \in DOMAIN d[t] \ {id} : \E c \in Key(t) : d[t][i][c] # row[c]
  /\ t = "entries" => ((row.provider = None) # (row.target = None))

With(f, k, v) == [x \in DOMAIN f \cup {k} |-> IF x = k THEN v ELSE f[x]]
Without(f, S) == [x \in DOMAIN f \ S |-> f[x]]

(* AUTOINCREMENT never hands an id out twice; one counter serves all tables. *)
Insert(d, t, row) ==
  IF Legal(d, t, d.next, row)
  THEN {[d EXCEPT ![t] = With(@, d.next, row), !.next = @ + 1]}
  ELSE {}

(* An UPDATE that matches no row is an error of the method.                *)
Update(d, t, id, row) ==
  IF id \in DOMAIN d[t] /\ Legal(d, t, id, row) THEN {[d EXCEPT ![t][id] = row]} ELSE {}

SetColumn(d, t, id, column, value) ==
  IF id \in DOMAIN d[t] THEN Update(d, t, id, [d[t][id] EXCEPT ![column] = value]) ELSE {}

Pointing(d, t, column, ids) == {i \in DOMAIN d[t] : d[t][i][column] \in ids}

(* The chain entries that reference a route or a provider, in either role.  *)
ReferringInChain(d, routes, providers) ==
  Pointing(d, "entries", "route", routes) \cup Pointing(d, "entries", "provider", providers)

Referring(d, routes, providers) ==
  Pointing(d, "entries", "route", routes) \cup Pointing(d, "entries", "provider", providers)
    \cup Pointing(d, "entries", "target", routes)

(* The rows that go with the rows ids of table t, by ON DELETE CASCADE.     *)
Doomed(d, t, ids) ==
  LET at(u) == IF u = t THEN ids ELSE {}
      masks == at("masks") \cup Pointing(d, "masks", "profile", at("profiles"))
      providers == at("providers") \cup Pointing(d, "providers", "profile", at("profiles"))
      proxies == at("proxies") \cup Pointing(d, "proxies", "profile", at("profiles"))
      routes == at("routes") \cup Pointing(d, "routes", "proxy", proxies)
      entries == at("entries") \cup Referring(d, routes, providers)
  IN  [profiles |-> at("profiles"), masks |-> masks, providers |-> providers,
       proxies |-> proxies, routes |-> routes, entries |-> entries]

(* ON DELETE SET NULL.                                                      *)
SetNull(f, column, ids) ==
  [i \in DOMAIN f |->
     [f[i] EXCEPT ![column] = IF f[i][column] \in ids THEN None ELSE f[i][column]]]

(* DELETE: cascades, ON DELETE SET NULL of the mask references, and the     *)
(* usage rows of the entries that went.                                     *)
Delete(d, t, id) ==
  LET dead == Doomed(d, t, {id})
  IN  {[d EXCEPT
         !.profiles = SetNull(Without(@, dead.profiles), "default", dead.masks),
         !.masks = Without(@, dead.masks),
         !.providers = SetNull(Without(@, dead.providers), "mask", dead.masks),
         !.proxies = Without(@, dead.proxies),
         !.routes = Without(@, dead.routes),
         !.entries = Without(@, dead.entries),
         !.usage = {u \in @ : u.entry \notin dead.entries}]}

-----------------------------------------------------------------------------
(* Profiles *)

CreateProfile(d, name) == Insert(d, "profiles", [name |-> name, default |-> None])

DeleteProfile(d, p) == Delete(d, "profiles", p)

RenameProfile(d, p, name) == SetColumn(d, "profiles", p, "name", name)

(* The token is the primary key, and no reference to it has ON UPDATE: the  *)
(* statement is refused while any row of the profile exists.  Usage rows    *)
(* hold the token as plain text and keep the old one.                       *)
RotateProfileToken(d, p) ==
  IF p \in DOMAIN d.profiles
       /\ \A t \in {"masks", "providers", "proxies"} : Pointing(d, t, "profile", {p}) = {}
  THEN {[d EXCEPT !.profiles = With(Without(@, {p}), d.next, @[p]), !.next = @ + 1]}
  ELSE {}

SetProfileDefaultMasking(d, p, m) == SetColumn(d, "profiles", p, "default", m)

ProfileNamed(d, name) == {p \in DOMAIN d.profiles : d.profiles[p].name = name}

(* Masks and providers *)

CreateMaskingServer(d, p, name, shared) ==
  Insert(d, "masks", [profile |-> p, name |-> name, shared |-> shared])

UpdateMaskingServer(d, m, name, shared) ==
  IF m \in DOMAIN d.masks
  THEN Update(d, "masks", m, [d.masks[m] EXCEPT !.name = name, !.shared = shared])
  ELSE {}

DeleteMaskingServer(d, m) == IF m \in DOMAIN d.masks THEN Delete(d, "masks", m) ELSE {}

ListMaskingServers(d, p) == Pointing(d, "masks", "profile", {p})

ListMaskingServersFor(d, p) ==
  ListMaskingServers(d, p) \cup Pointing(d, "masks", "shared", {TRUE})

CreateProvider(d, p, name, mask, shared) ==
  Insert(d, "providers", [profile |-> p, name |-> name, mask |-> mask, shared |-> shared])

UpdateProvider(d, v, name, mask, shared) ==
  IF v \in DOMAIN d.providers
  THEN Update(d, "providers", v,
              [d.providers[v] EXCEPT !.name = name, !.mask = mask, !.shared = shared])
  ELSE {}

SetProviderShared(d, v, shared) == SetColumn(d, "providers", v, "shared", shared)

DeleteProvider(d, v) == Delete(d, "providers", v)

ListProviders(d, p) == Pointing(d, "providers", "profile", {p})

(* The providers a profile may route through.                               *)
ListProvidersFor(d, p) == ListProviders(d, p) \cup Pointing(d, "providers", "shared", {TRUE})

(* COALESCE(own binding, default of the provider's profile).                *)
EffectiveMask(d, v) ==
  IF d.providers[v].mask # None THEN d.providers[v].mask
                                ELSE d.profiles[d.providers[v].profile].default

(* Proxies and routes *)

CreateProxy(d, p, name) == Insert(d, "proxies", [profile |-> p, name |-> name])

UpdateProxy(d, x, name) == SetColumn(d, "proxies", x, "name", name)

DeleteProxy(d, x) == Delete(d, "proxies", x)

ListProxies(d, p) == Pointing(d, "proxies", "profile", {p})

GetProxyNamed(d, p, name) == {x \in ListProxies(d, p) : d.proxies[x].name = name}

CreateRoute(d, x, name) ==
  Insert(d, "routes", [proxy |-> x, name |-> name, shared |-> FALSE])

UpdateRoute(d, r, name) == SetColumn(d, "routes", r, "name", name)

SetRouteShared(d, r, shared) == SetColumn(d, "routes", r, "shared", shared)

DeleteRoute(d, r) == Delete(d, "routes", r)

ListRoutes(d, x) == Pointing(d, "routes", "proxy", {x})

GetRouteNamed(d, x, name) == {r \in ListRoutes(d, x) : d.routes[r].name = name}

RouteOwnerProfile(d, r) == d.proxies[d.routes[r].proxy].profile

RoutesOf(d, p) == {r \in DOMAIN d.routes : RouteOwnerProfile(d, r) = p}

(* Chain entries and usage *)

AddRouteEntry(d, r, v, priority) ==
  Insert(d, "entries", [route |-> r, provider |-> v, target |-> None, priority |-> priority])

AddRouteEntryRef(d, r, target, priority) ==
  Insert(d, "entries", [route |-> r, provider |-> None, target |-> target, priority |-> priority])

(* Re-pointing a nested entry to a provider would leave both columns set:    *)
(* the CHECK refuses it.                                                    *)
UpdateRouteEntry(d, e, v) == SetColumn(d, "entries", e, "provider", v)

(* Unlike the other setters, this one is content with no row.                *)
SetRouteEntryPriority(d, e, priority) ==
  IF e \in DOMAIN d.entries THEN SetColumn(d, "entries", e, "priority", priority) ELSE {d}

DeleteRouteEntry(d, e) == Delete(d, "entries", e)

Chain(d, r) == Pointing(d, "entries", "route", {r})

(* ORDER BY priority: equal priorities come in any order.                    *)
RouteEntries(d, r) ==
  {s \in SetToSeqs(Chain(d, r)) :
     \A i, j \in DOMAIN s : i < j => d.entries[s[i]].priority <= d.entries[s[j]].priority}

RecordUsage(d, p, e) ==
  IF e \in DOMAIN d.entries THEN {[d EXCEPT !.usage = @ \cup {[profile |-> p, entry |-> e]}]}
                            ELSE {}

-----------------------------------------------------------------------------
(* The columns of a table, and a store that has its tables.                  *)
Columns(t) ==
  CASE t = "profiles" -> {"name", "default"}
    [] t = "masks" -> {"profile", "name", "shared"}
    [] t = "providers" -> {"profile", "name", "mask", "shared"}
    [] t = "proxies" -> {"profile", "name"}
    [] t = "routes" -> {"proxy", "name", "shared"}
    [] t = "entries" -> {"route", "provider", "target", "priority"}

IsRow(t, row) == row = [c \in Columns(t) |-> row[c]]

IsStore(d) ==
  /\ DOMAIN d = Tables \cup {"usage", "next"} /\ d = [x \in DOMAIN d |-> d[x]]
  /\ d.next \in Nat \ {0}
  /\ \A t \in Tables : /\ d[t] = [i \in DOMAIN d[t] |-> d[t][i]]
                       /\ \A i \in DOMAIN d[t] : IsRow(t, d[t][i])

(* Every row is one SQLite accepts, and every usage row has its entry.       *)
Consistent(d) ==
  /\ \A t \in Tables : \A i \in DOMAIN d[t] : i \in 1 .. d.next - 1 /\ Legal(d, t, i, d[t][i])
  /\ \A u \in d.usage : u.entry \in DOMAIN d.entries
=============================================================================
