------------------------------ MODULE Catalog ------------------------------
(***************************************************************************)
(* Everything that edits the store together, and what must come of it.     *)
(***************************************************************************)
EXTENDS Portable

Init == ConsoleInit /\ bundle = NoBundle

ProfileCommand(p) ==
  \/ ProfileEdit(p) \/ ProfileDelete(p) \/ TokenRotate(p)
  \/ MaskAdd(p) \/ MaskSetDefault(p) \/ MaskDelete(p) \/ MaskSet(p)
  \/ ProviderAdd(p) \/ SetupProvider(p) \/ ProviderShare(p) \/ ProviderDelete(p) \/ ProviderEdit(p)
  \/ ProxyCreate(p) \/ ProxyEdit(p) \/ ProxyDelete(p)
  \/ RouteEdit(p) \/ RouteDelete(p) \/ RouteShare(p) \/ RouteCreate(p)
  \/ ModelAdd(p) \/ ModelRemove(p) \/ ModelMove(p) \/ LogUsage(p)

JobStep ==
  MaskSetWrites \/ ProviderEditWrites \/ RouteWizard \/ ModelAddWrites \/ ModelMoveWrites

Next ==
  \/ (ProfileCreate \/ JobStep \/ Interrupt) /\ UNCHANGED bundle
  \/ \E p \in Profiles : ProfileCommand(p) /\ UNCHANGED bundle
  \/ \E p \in Profiles : Export(p)
  \/ ExportMasks \/ ExportTree
  \/ \E n \in Names : Import(n) \/ Bootstrap(n)
  \/ ScriptStep \/ RefStep \/ ScriptDone \/ Compensate

Spec == Init /\ [][Next]_vars

-----------------------------------------------------------------------------
(* No command, finished, interrupted or failed, leaves a row SQLite would    *)
(* refuse: a reference to a row that is gone, a duplicate name, an entry     *)
(* with two targets or none, a usage row without its entry.                  *)
TypeOK ==
  /\ Consistent(db)
  /\ job.kind \in {"idle", "mask", "provider", "wizard", "entry", "move",
                   "export", "import", "seed", "cleanup"}
  /\ caller \in Nat /\ budget \in [commands : Nat, jobs : Nat]

Owner(d, t, i) ==
  CASE t = "profiles" -> i
    [] t = "routes" -> RouteOwnerProfile(d, i)
    [] t = "entries" -> RouteOwnerProfile(d, d.entries[i].route)
    [] OTHER -> d[t][i].profile

GoneOf(d, e, t, p) == {i \in DOMAIN d[t] \ DOMAIN e[t] : Owner(d, t, i) = p}

(* What becomes of rows of others when rows of profile p go, from d to e.    *)
Collateral(d, e, t, i, p) ==
  \/ /\ t = "entries" /\ i \notin DOMAIN e.entries
     /\ \/ d.entries[i].provider \in GoneOf(d, e, "providers", p)
        \/ d.entries[i].target \in GoneOf(d, e, "routes", p)
  \/ /\ t = "providers" /\ i \in DOMAIN e.providers
     /\ d.providers[i].mask \in GoneOf(d, e, "masks", p)
     /\ e.providers[i] = [d.providers[i] EXCEPT !.mask = None]
  \/ /\ t = "profiles" /\ i \in DOMAIN e.profiles
     /\ d.profiles[i].default \in GoneOf(d, e, "masks", p)
     /\ e.profiles[i] = [d.profiles[i] EXCEPT !.default = None]

OthersKeep(d, e, p) ==
  \A t \in Tables : \A i \in DOMAIN d[t] :
    \/ i \in DOMAIN e[t] /\ e[t][i] = d[t][i]
    \/ Owner(d, t, i) = p
    \/ Collateral(d, e, t, i, p)

(* A command changes and removes rows of the profile it acts for only.       *)
(* Others lose the chain entries that lead to what it deleted, and their     *)
(* providers the masks it deleted, nothing more.                             *)
OthersKeepTheirRows == [][OthersKeep(db, db', caller')]_vars

Contiguous(d, chain) == \A i \in DOMAIN chain : d.entries[chain[i]].priority = i

(* Moving an entry up a contiguous chain that nobody else edits: whatever    *)
(* order a request reads between two writes, the entries before the wanted   *)
(* position come first and as they were; after the last write the order is   *)
(* the wanted one, and the only one that can be read.                        *)
UpwardMoveIsExact ==
  [][job.kind = "move" /\ job.alone /\ ModelMoveWrites /\ Contiguous(job.was, job.before)
     => \A i \in job.position .. Len(job.before) : job.before[i] = job.entry =>
          \A chain \in RouteEntries(db', job.route) :
            /\ \A k \in 1 .. job.position - 1 : chain[k] = job.before[k]
            /\ job' = Idle =>
                 chain = InsertAt(RemoveAt(job.before, i), job.position, job.entry)]_vars

(* While nobody else edits, `provider edit` keeps the mask a provider's      *)
(* traffic leaves by unless the operator picks another one.                  *)
EditKeepsEgress ==
  [][job.kind = "provider" /\ job.alone /\ ProviderEditWrites /\ db' # db
     => EffectiveMask(db', job.id) = IF job.picked = None THEN EffectiveMask(db, job.id)
                                                          ELSE job.picked]_vars

(* A profile that binds only to what is its own, exported and imported while *)
(* nobody else edits, is by all its names the profile it was.                *)
ImportIsFaithful ==
  [][job.kind = "import" /\ job.alone /\ job.view # <<>> /\ ScriptDone
     => View(db, job.profile) = job.view[1]]_vars

(* A bootstrap that reports an error leaves the store as it found it, and    *)
(* whatever others did meanwhile, nothing under the token it made.  (A new   *)
(* token given to its profile before the first child makes it another's; a   *)
(* compensation that itself fails, which the code ignores, is no Compensate: *)
(* like an interruption before it, it leaves what there was.)                *)
FailedSeedLeavesNothing ==
  [][job.kind = "cleanup" /\ Compensate
     => /\ \A t \in Tables : \A i \in DOMAIN db'[t] : Owner(db', t, i) # job.profile
        /\ job.alone => [db' EXCEPT !.next = job.was.next] = job.was]_vars
=============================================================================
