------------------------------ MODULE Console ------------------------------
(***************************************************************************)
(* The command line at work on the store.  A command that asks nothing     *)
(* between reading and writing is one action; one that reads, prompts and  *)
(* writes what it read is a job, and other commands run in between.        *)
(* A failing command changes nothing.                                      *)
(***************************************************************************)
EXTENDS Store

CONSTANTS
  Names,        \* the names profiles, masks, providers, proxies and routes are given
  Start,        \* the store the commands find
  MaxCommands,  \* bound: commands run besides the jobs
  MaxJobs,      \* bound: jobs begun
  MaxChain      \* bound: entries of a chain

ASSUME ConsoleAssumption ==
  /\ IsStore(Start) /\ Consistent(Start) /\ NoName \notin Names
  /\ MaxCommands \in Nat /\ MaxJobs \in Nat /\ MaxChain \in Nat

VARIABLES
  db,      \* the store
  job,     \* the command that is between its reads and its writes
  caller,  \* the profile the last command acted for
  budget   \* what the bounds leave

consoleVars == <<db, job, caller, budget>>

Idle == [kind |-> "idle"]

ConsoleInit ==
  /\ db = Start /\ job = Idle /\ caller = None
  /\ budget = [commands |-> MaxCommands, jobs |-> MaxJobs]

(* A command for profile p whose statement has the given outcomes.           *)
Run(p, outcomes) ==
  /\ budget.commands > 0
  /\ db' \in outcomes
  /\ caller' = p
  /\ budget' = [budget EXCEPT !.commands = @ - 1]
  /\ job' = IF job = Idle THEN Idle ELSE [job EXCEPT !.alone = FALSE]

(* A job for profile p starts; its first statement may already write.       *)
Begin(p, j, outcomes) ==
  /\ job = Idle /\ budget.jobs > 0
  /\ db' \in outcomes
  /\ caller' = p
  /\ job' = With(With(j, "profile", p), "alone", TRUE)
  /\ budget' = [budget EXCEPT !.jobs = @ - 1]

Go(j, d) == /\ db' = d /\ job' = j /\ caller' = job.profile /\ UNCHANGED budget

(* The job's last statement: done, or refused and nothing written.          *)
Finish(outcomes) == \E d \in IF outcomes = {} THEN {db} ELSE outcomes : Go(Idle, d)

Profiles == DOMAIN db.profiles

(* The providers or routes a name can stand for: the caller's own first.    *)
ProviderByName(d, p, name) ==
  LET named(S) == {v \in S : d.providers[v].name = name}
  IN  IF named(ListProviders(d, p)) # {} THEN named(ListProviders(d, p))
                                         ELSE named(ListProvidersFor(d, p))

MaskByName(d, p, name) ==
  LET named(S) == {m \in S : d.masks[m].name = name}
  IN  IF named(ListMaskingServers(d, p)) # {} THEN named(ListMaskingServers(d, p))
                                              ELSE named(ListMaskingServersFor(d, p))

-----------------------------------------------------------------------------
(* profile ... *)

ProfileCreate == \E n \in Names : Run(db.next, CreateProfile(db, n))

ProfileEdit(p) == \E n \in Names : Run(p, RenameProfile(db, p, n))

ProfileDelete(p) == Run(p, DeleteProfile(db, p))

TokenRotate(p) == Run(p, RotateProfileToken(db, p))

(* mask ...: its own masks only, whoever may use them. *)

MaskAdd(p) == \E n \in Names : Run(p, CreateMaskingServer(db, p, n, FALSE))

MaskSetDefault(p) ==
  \E m \in ListMaskingServers(db, p) \cup {None} : Run(p, SetProfileDefaultMasking(db, p, m))

MaskDelete(p) == \E m \in ListMaskingServers(db, p) : Run(p, DeleteMaskingServer(db, m))

(* `mask set` writes back the name it read and, unless told otherwise, the  *)
(* sharing flag it read before it asked for the URL.                        *)
MaskSet(p) ==
  \E m \in ListMaskingServers(db, p), s \in BOOLEAN :
     Begin(p, [kind |-> "mask", id |-> m, name |-> db.masks[m].name, shared |-> s], {db})

MaskSetWrites ==
  job.kind = "mask" /\ Finish(UpdateMaskingServer(db, job.id, job.name, job.shared))

(* provider ... *)

ProviderAdd(p) ==
  \E n \in Names, s \in BOOLEAN, m \in {None} \cup UNION {MaskByName(db, p, k) : k \in Names} :
     Run(p, CreateProvider(db, p, n, m, s))

SetupProvider(p) == \E n \in Names : Run(p, CreateProvider(db, p, n, None, FALSE))

ProviderShare(p) ==
  \E v \in ListProviders(db, p), s \in BOOLEAN : Run(p, SetProviderShared(db, v, s))

ProviderDeleteShared(p) == \E v \in ListProvidersFor(db, p) : Run(p, DeleteProvider(db, v))

ProviderDelete(p) == \E v \in ListProviders(db, p) : Run(p, DeleteProvider(db, v))

(* The mask the operator picks, or the one the provider's traffic used when  *)
(* it was read: its own binding or else the default of its profile.         *)
PickedMask(d, v, picked) == picked

MaskToWrite(d, v, picked) == IF picked # None THEN picked ELSE EffectiveMask(d, v)

ProviderEdit(p) ==
  \E v \in ListProviders(db, p), n \in Names, s \in BOOLEAN,
     picked \in {None} \cup ListMaskingServersFor(db, p) :
     Begin(p, [kind |-> "provider", id |-> v, name |-> n, shared |-> s, picked |-> picked,
               mask |-> MaskToWrite(db, v, picked)], {db})

ProviderEditWrites ==
  job.kind = "provider" /\ Finish(UpdateProvider(db, job.id, job.name, job.mask, job.shared))

(* proxy ... *)

ProxyCreate(p) == \E n \in Names : Run(p, CreateProxy(db, p, n))

ProxyEdit(p) == \E x \in ListProxies(db, p), n \in Names : Run(p, UpdateProxy(db, x, n))

ProxyDelete(p) == \E x \in ListProxies(db, p) : Run(p, DeleteProxy(db, x))

(* route ... *)

RouteEdit(p) == \E r \in RoutesOf(db, p), n \in Names : Run(p, UpdateRoute(db, r, n))

RouteDelete(p) == \E r \in RoutesOf(db, p) : Run(p, DeleteRoute(db, r))

RouteShare(p) == \E r \in RoutesOf(db, p), s \in BOOLEAN : Run(p, SetRouteShared(db, r, s))

(* The route is written, then the wizard asks for one model after another,   *)
(* counting priorities on its own.                                          *)
RouteCreate(p) ==
  \E x \in ListProxies(db, p), n \in Names :
     Begin(p, [kind |-> "wizard", route |-> db.next, priority |-> 1], CreateRoute(db, x, n))

RouteWizard ==
  /\ job.kind = "wizard"
  /\ \/ Go(Idle, db)
     \/ \E v \in ListProviders(db, job.profile) :
          /\ job.priority <= MaxChain
          /\ LET added == AddRouteEntry(db, job.route, v, job.priority)
             IN  IF added = {} THEN Go(Idle, db)
                 ELSE \E d \in added : Go([job EXCEPT !.priority = @ + 1], d)

(* route model ... *)

(* A route reference: the caller's own route, or a shared one of another.    *)
ResolveRouteRef(d, p) == {r \in DOMAIN d.routes : RouteOwnerProfile(d, r) = p \/ d.routes[r].shared}

(* The new entry's priority is one more than the entries the chain has now.  *)
NextPriority(d, r) == Cardinality(Chain(d, r)) + 1

ModelAdd(p) ==
  \E r \in RoutesOf(db, p) :
    /\ NextPriority(db, r) <= MaxChain
    /\ \/ \E v \in UNION {ProviderByName(db, p, n) : n \in Names} :
            Begin(p, [kind |-> "entry", route |-> r, provider |-> v, target |-> None,
                      priority |-> NextPriority(db, r)], {db})
       \/ \E target \in ResolveRouteRef(db, p) :
            Begin(p, [kind |-> "entry", route |-> r, provider |-> None, target |-> target,
                      priority |-> NextPriority(db, r)], {db})

ModelAddWrites ==
  /\ job.kind = "entry"
  /\ Finish(IF job.target = None
            THEN AddRouteEntry(db, job.route, job.provider, job.priority)
            ELSE AddRouteEntryRef(db, job.route, job.target, job.priority))

ModelRemove(p) ==
  \E r \in RoutesOf(db, p) : \E e \in Chain(db, r) : Run(p, DeleteRouteEntry(db, e))

(* The writes of a move, in order: everything from the wanted position on    *)
(* goes one further than its index, then the entry takes the position.      *)
Behind(chain, i, first) ==
  LET all == [j \in DOMAIN chain |-> <<chain[j], j + 1>>]
  IN  IF i < first THEN SubSeq(all, first, Len(all))
                   ELSE SubSeq(all, first, i - 1) \o SubSeq(all, i + 1, Len(all))

ShiftFromNext(chain, i, position) == Behind(chain, i, position + 1)

Shift(chain, i, position) == Behind(chain, i, position)

ModelMove(p) ==
  \E r \in RoutesOf(db, p) : \E chain \in RouteEntries(db, r) :
    \E i, position \in DOMAIN chain :
       Begin(p, [kind |-> "move", was |-> db, route |-> r, before |-> chain, entry |-> chain[i],
                 position |-> position,
                 todo |-> Append(Shift(chain, i, position), <<chain[i], position>>)], {db})

ModelMoveWrites ==
  /\ job.kind = "move"
  /\ \E d \in SetRouteEntryPriority(db, Head(job.todo)[1], Head(job.todo)[2]) :
       Go(IF Len(job.todo) = 1 THEN Idle ELSE [job EXCEPT !.todo = Tail(@)], d)

(* The operator interrupts the command, or its process dies.                *)
Interrupt == job # Idle /\ Go(Idle, db)

(* The gateway logs an attempt for whoever called.                           *)
LogUsage(p) == \E e \in DOMAIN db.entries : Run(p, RecordUsage(db, p, e))
=============================================================================
