----------------------------- MODULE Portable -----------------------------
(***************************************************************************)
(* Profile trees on the move: config export, config import and bootstrap.  *)
(* A bundle or a setup document is flattened into the store calls that     *)
(* recreate it, in their order.  Each call is a statement of its own, with *)
(* no transaction around them; the command refers to rows it wrote by the  *)
(* ids it kept, and to everything else by name.                            *)
(***************************************************************************)
EXTENDS Console

CONSTANTS Setups   \* the setup documents given to bootstrap, each a sequence of items

VARIABLES bundle   \* the exported file, and what the exported profile looked like

vars == <<consoleVars, bundle>>

NoBundle == [items |-> <<>>]

(* One call of the script: name and parent are the row's own; to is what it  *)
(* binds to: a mask or provider name, or the path <<owner, proxy, route>>   *)
(* of a nested route, the owner left out when it is the profile itself.     *)
Item(op, name, to, shared, priority) ==
  [op |-> op, name |-> name, to |-> to, shared |-> shared, priority |-> priority]

NameOf(t, d, id) == IF id = None THEN NoName ELSE d[t][id].name

(* --------------------------- config export ----------------------------- *)

ExportedProviders(d, p) ==
  LET mask(v) == NameOf("masks", d, EffectiveMask(d, v))
      item(v) == Item("provider", d.providers[v].name, <<mask(v)>>, d.providers[v].shared, 0)
  IN  SetToSeq({item(v) : v \in ListProviders(d, p)})

(* The default travels only when it is one of the profile's own masks.       *)
ExportedMasks(d, p, default) ==
  SetToSeq({Item("mask", d.masks[m].name, <<>>, d.masks[m].shared, 0) :
              m \in ListMaskingServers(d, p)})
    \o IF default \in ListMaskingServers(d, p)
       THEN <<Item("default", NameOf("masks", d, default), <<>>, FALSE, 0)>> ELSE <<>>

ExportedEntry(d, p, e) ==
  LET row == d.entries[e]
      target == d.routes[row.target]
      owner == RouteOwnerProfile(d, row.target)
      path == <<NameOf("proxies", d, target.proxy), target.name>>
  IN  IF row.target = None
      THEN Item("entry", NoName, <<NameOf("providers", d, row.provider)>>, FALSE, row.priority)
      ELSE Item("ref", NoName,
                IF owner = p THEN path ELSE <<NameOf("profiles", d, owner)>> \o path,
                FALSE, row.priority)

(* Proxies, under each its routes, under each its entries.                   *)
ExportedTree(d, p) ==
  LET entries(r) == SetToSeq({ExportedEntry(d, p, e) : e \in Chain(d, r)})
      route(r) == <<Item("route", d.routes[r].name, <<>>, FALSE, 0)>> \o entries(r)
      routes(x) == FlattenSeq([i \in DOMAIN SetToSeq(ListRoutes(d, x)) |->
                                 route(SetToSeq(ListRoutes(d, x))[i])])
      proxy(x) == <<Item("proxy", d.proxies[x].name, <<>>, FALSE, 0)>> \o routes(x)
  IN  FlattenSeq([i \in DOMAIN SetToSeq(ListProxies(d, p)) |-> proxy(SetToSeq(ListProxies(d, p))[i])])

(* What a profile is, by names: the ids and the sharing of routes, which no  *)
(* bundle carries, aside.                                                    *)
View(d, p) ==
  LET proxyName(r) == NameOf("proxies", d, d.routes[r].proxy)
  IN  [masks |-> {<<d.masks[m].name, d.masks[m].shared>> : m \in ListMaskingServers(d, p)},
       default |-> NameOf("masks", d, d.profiles[p].default),
       providers |-> {<<d.providers[v].name, NameOf("masks", d, EffectiveMask(d, v)),
                        d.providers[v].shared>> : v \in ListProviders(d, p)},
       proxies |-> {d.proxies[x].name : x \in ListProxies(d, p)},
       routes |-> {<<proxyName(r), d.routes[r].name>> : r \in RoutesOf(d, p)},
       entries |-> UNION {{<<proxyName(r), d.routes[r].name, ExportedEntry(d, p, e)>> :
                             e \in Chain(d, r)} : r \in RoutesOf(d, p)}]

(* Everything the profile binds to is its own.                               *)
Closed(d, p) ==
  /\ \A v \in ListProviders(d, p) : d.providers[v].mask \in ListMaskingServers(d, p) \cup {None}
  /\ d.profiles[p].default \in ListMaskingServers(d, p) \cup {None}
  /\ \A e \in DOMAIN d.entries : d.entries[e].route \in RoutesOf(d, p) =>
       /\ d.entries[e].provider \in ListProviders(d, p) \cup {None}
       /\ d.entries[e].target \in RoutesOf(d, p) \cup {None}

Export(p) ==
  /\ Begin(p, [kind |-> "export", default |-> db.profiles[p].default, view |-> View(db, p),
               closed |-> Closed(db, p), providers |-> ExportedProviders(db, p), masks |-> <<>>],
           {db})
  /\ UNCHANGED bundle

ExportMasks ==
  /\ job.kind = "export" /\ job.masks = <<>>
  /\ Go([job EXCEPT !.masks = <<ExportedMasks(db, job.profile, job.default)>>], db)
  /\ UNCHANGED bundle

(* The order import_bundle recreates a bundle in, so that each call finds    *)
(* the names it binds to: masks, the default, providers, the tree.           *)
ProvidersFirst(masks, providers, tree) == providers \o masks \o tree

ImportOrder(masks, providers, tree) == masks \o providers \o tree

ExportTree ==
  /\ job.kind = "export" /\ job.masks # <<>>
  /\ bundle' = [items |-> ImportOrder(job.masks[1], job.providers, ExportedTree(db, job.profile)),
                view |-> job.view, exact |-> job.alone /\ job.closed]
  /\ Go(Idle, db)

(* ----------------- config import and bootstrap ------------------------- *)

Script(kind, name, p, items, view) ==
  [kind |-> kind, name |-> name, profile |-> p, alone |-> TRUE, todo |-> items, refs |-> <<>>, view |-> view,
   was |-> db, masks |-> <<>>, providers |-> <<>>, proxy |-> None, route |-> None]

Write(kind, name, items, view) ==
  /\ job = Idle
  /\ db' \in CreateProfile(db, name)
  /\ caller' = db.next
  /\ job' = Script(kind, name, db.next, items, view)

(* Import checks the name first; the unique index says the same.  The bound  *)
(* lets every exported file be imported once.                                *)
Import(name) ==
  /\ bundle # NoBundle /\ ProfileNamed(db, name) = {}
  /\ bundle' = NoBundle /\ UNCHANGED budget
  /\ Write("import", name, bundle.items, IF bundle.exact THEN <<bundle.view>> ELSE <<>>)

Bootstrap(name) ==
  /\ budget.jobs > 0 /\ budget' = [budget EXCEPT !.jobs = @ - 1]
  /\ UNCHANGED bundle
  /\ \E items \in Setups : Write("seed", name, items, <<>>)

Known(ids, name) == name \in DOMAIN ids
IdOf(ids, name) == IF Known(ids, name) THEN ids[name] ELSE None

(* The outcomes of the item's call: none when it is refused, or when a name  *)
(* it needs is unknown.  An unknown mask name only leaves the mask out.      *)
Outcomes(d, item) ==
  CASE item.op = "mask" -> CreateMaskingServer(d, job.profile, item.name, item.shared)
    [] item.op = "default" ->
         IF Known(job.masks, item.name)
         THEN SetProfileDefaultMasking(d, job.profile, job.masks[item.name]) ELSE {d}
    [] item.op = "provider" ->
         CreateProvider(d, job.profile, item.name, IdOf(job.masks, item.to[1]), item.shared)
    [] item.op = "proxy" -> CreateProxy(d, job.profile, item.name)
    [] item.op = "route" -> CreateRoute(d, job.proxy, item.name)
    [] item.op = "entry" ->
         IF Known(job.providers, item.to[1])
         THEN AddRouteEntry(d, job.route, job.providers[item.to[1]], item.priority) ELSE {}
    [] OTHER ->   \* a reference to a route: for the second pass
         IF job.kind = "import" /\ Len(item.to) = 3 THEN {} ELSE {d}

(* What the command remembers of the call it just made.                      *)
Remember(item, id) ==
  LET rest == [job EXCEPT !.todo = Tail(@)]
  IN  CASE item.op = "mask" -> [rest EXCEPT !.masks = With(@, item.name, id)]
        [] item.op = "provider" -> [rest EXCEPT !.providers = With(@, item.name, id)]
        [] item.op = "proxy" -> [rest EXCEPT !.proxy = id]
        [] item.op = "route" -> [rest EXCEPT !.route = id]
        [] item.op = "ref" -> [rest EXCEPT !.refs = Append(@, <<job.route, item>>)]
        [] OTHER -> rest

(* The second pass.  An import searches the profile it made.  A setup        *)
(* document may name another profile, whose route must be shared; where it   *)
(* names none, bootstrap searches by the name it gave its own.               *)
PathOwners(d, path) ==
  IF job.kind = "import" THEN {job.profile} \cap DOMAIN d.profiles
  ELSE ProfileNamed(d, IF Len(path) = 2 THEN job.name ELSE path[1])

PathTargets(d, path) ==
  LET owners == PathOwners(d, path)
      proxies == UNION {GetProxyNamed(d, o, path[Len(path) - 1]) : o \in owners}
  IN  {r \in UNION {GetRouteNamed(d, x, path[Len(path)]) : x \in proxies} :
         RouteOwnerProfile(d, r) = job.profile \/ d.routes[r].shared}

ResolvedRef(d, ref) ==
  UNION {AddRouteEntryRef(d, ref[1], r, ref[2].priority) : r \in PathTargets(d, ref[2].to)}

Refused == /\ Go(IF job.kind = "seed" THEN [job EXCEPT !.kind = "cleanup"] ELSE Idle, db)
           /\ UNCHANGED bundle

ScriptStep ==
  /\ job.kind \in {"import", "seed"} /\ job.todo # <<>>
  /\ LET item == Head(job.todo)
         done == Outcomes(db, item)
     IN  \/ done = {} /\ Refused
         \/ \E d \in done : Go(Remember(item, db.next), d) /\ UNCHANGED bundle

RefStep ==
  /\ job.kind \in {"import", "seed"} /\ job.todo = <<>> /\ job.refs # <<>>
  /\ LET done == ResolvedRef(db, Head(job.refs))
     IN  \/ done = {} /\ Refused
         \/ \E d \in done : Go([job EXCEPT !.refs = Tail(@)], d) /\ UNCHANGED bundle

ScriptDone ==
  /\ job.kind \in {"import", "seed"} /\ job.todo = <<>> /\ job.refs = <<>>
  /\ Go(Idle, db) /\ UNCHANGED bundle

CompensateByName ==
  /\ job.kind = "cleanup"
  /\ LET named == ProfileNamed(db, job.name)
     IN  \E d \in IF named = {} THEN {db} ELSE UNION {DeleteProfile(db, p) : p \in named} : Go(Idle, d)
  /\ UNCHANGED bundle

(* Bootstrap takes the profile away again before it reports the error.       *)
Compensate ==
  /\ job.kind = "cleanup"
  /\ \E d \in DeleteProfile(db, job.profile) : Go(Idle, d)
  /\ UNCHANGED bundle
=============================================================================
