------------------------------ MODULE Routing -------------------------------
(***************************************************************************)
(* scheduler.pick against everything that runs beside it.                    *)
(*                                                                         *)
(* A pick (Service.Pick and Selector.Pick) is a sequence of steps, one per   *)
(* lock it takes or shared value it reads: readiness, the settings snapshot, *)
(* one registry read per candidate, one or two calls on the binding table.   *)
(* Between any two of them other picks run, fetch results and 429s arrive,   *)
(* a config sync replaces the table, forgets the removed credentials one by  *)
(* one and only then publishes new settings, and the poll loop prunes.       *)
(*                                                                         *)
(* "watch" is a history variable: what has been true without interruption    *)
(* since a pick took its snapshot.  It says what the pick owes its caller    *)
(* whatever the interleaving was.                                           *)
(***************************************************************************)
EXTENDS Sessions, Selection

CONSTANTS Request,       \* concurrent scheduler.pick calls
          NoSession,     \* a request without the session header
          Offers,        \* the candidate lists the host may send
          Listings,      \* what config.yaml may list (\subseteq Config)
          PluginConfigs, \* the plugin's own configuration, as it may be set
          PruneStreak,   \* pruneFailStreak: failures that make a credential fit to prune
          PruneAfter,    \* three poll intervals: how long it must not have been offered
          MaxEvents      \* bound: changes of the surroundings

ASSUME ListingsAssumption == Listings \subseteq Config
ASSUME OffersAssumption == \A offered \in Offers : offered \subseteq Token /\ IsFiniteSet(offered)
ASSUME NoSessionAssumption == NoSession \notin Session
ASSUME PruneAssumption == PruneStreak \in Nat /\ PruneAfter \in Nat \ {0}
ASSUME MaxEventsAssumption == MaxEvents \in Nat

(* Settings: what a pick sees.  PluginConfig: what the operator wrote;       *)
(* problems holds when Config.Problems() reports something.                 *)
Settings == [exclude : SUBSET Token,
             pins : UNION {[S -> Token] : S \in SUBSET Session},
             staleAfter : Nat]
PluginConfig == [exclude : SUBSET Token,
                 pins : UNION {[S -> Token] : S \in SUBSET Session},
                 staleAfter : Nat \ {0},
                 ttl : TTLs,
                 max : Maxes,
                 problems : BOOLEAN]

ASSUME PluginConfigAssumption == PluginConfigs \subseteq PluginConfig

VARIABLES cfg,           \* Service.cfg and .problems
          healthy,       \* Service.configHealthy
          settings,      \* Service.settings: the published snapshot
          sync,          \* the holder of Service.fileMu: its step, what it still
                         \* has to forget, the listing it read
          pruning,       \* the poll loop's sweep: what it found fit to prune, and
                         \* what it has removed and not yet forgotten
          picks,         \* the scheduler.pick calls
          watch,         \* history, per pick
          events         \* bound: changes so far

serviceVars  == <<cfg, healthy, settings, sync>>
registryVars == <<keys>>
sessionsVars == <<items, newer, ttl, max>>
RoutingVars  == <<now, keys, items, newer, ttl, max, cfg, healthy, settings, sync,
                  pruning, picks, watch, events>>

Outcome == {"unhandled", "mapping_failed", "pinned", "bound", "assigned",
            "rebound", "fallback"}
Handled == Outcome \ {"unhandled", "mapping_failed"}

-----------------------------------------------------------------------------
(* rebuildSettings: references resolved against the live table, so one that  *)
(* names no tracked credential is left out.                                 *)
Resolved(config, table) ==
    [exclude    |-> config.exclude \cap DOMAIN table,
     pins       |-> [s \in {s \in DOMAIN config.pins : config.pins[s] \in DOMAIN table}
                       |-> config.pins[s]],
     staleAfter |-> config.staleAfter]

Idle == [step |-> "idle", session |-> NoSession, offered |-> {}, todo |-> {}, at |-> Never,
         set |-> [exclude |-> {}, pins |-> [s \in {} |-> Never], staleAfter |-> 0],
         seen |-> [t \in {} |-> Never], outcome |-> "unhandled", token |-> Never]

SyncIdle == [step |-> "idle", removed |-> {}]

PruneIdle == [due |-> {}, half |-> {}]

-----------------------------------------------------------------------------
(* What is true of the surroundings now, as far as pick p is concerned.      *)
Dead == {t \in Token : t \in Tracked => keys[t].revoked}
Unfit == {t \in Token : \/ t \in Dead
                        \/ Unavailable(keys[t].usage)
                        \/ Suspected429(keys[t], now)}
Fit == {t \in Tracked : Usable(t, keys[t], settings, now)}

(* The live bindings of the pick's session: provider group and token.        *)
Holds(p) == {b \in Provider \X Token : LET k == <<picks[p].session, b[1]>>
                                       IN  Live(k) /\ items[k].token = b[2]}

Elsewhere(p) == {q \in Request \ {p} : picks[q].session # picks[p].session}

Facts(p) == [dead |-> Dead, unfit |-> Unfit, fit |-> Fit,
             holds |-> Holds(p), elsewhere |-> Elsewhere(p)]

Nothing == [dead |-> {}, unfit |-> {}, fit |-> {}, holds |-> {}, elsewhere |-> {}]

Both(a, b) == [f \in DOMAIN a |-> a[f] \cap b[f]]

(* A pick is watched from the step that takes its snapshot up to the step    *)
(* that decides its answer, whose own effects do not count.                  *)
Observe ==
    watch' = [p \in Request |->
                IF picks[p].step = "load" /\ picks'[p].step = "read"
                  THEN Facts(p)'
                ELSE IF picks'[p].step \in {"read", "bind"}
                  THEN Both(watch[p], Facts(p)')
                ELSE IF picks'[p].step = "done"
                  THEN watch[p]
                ELSE Nothing]

-----------------------------------------------------------------------------
(* Register has run: the plugin configuration is applied, the table synced   *)
(* and the settings published.                                               *)
RoutingInit ==
    /\ ClockInit
    /\ cfg \in PluginConfigs
    /\ \E listing \in Listings :
          keys = [t \in DOMAIN listing |-> Fresh(listing[t])]
    /\ items = [k \in {} |-> Never]
    /\ newer = {}
    /\ ttl = cfg.ttl
    /\ max = cfg.max
    /\ healthy = TRUE
    /\ settings = Resolved(cfg, keys)
    /\ sync = SyncIdle
    /\ pruning = PruneIdle
    /\ picks = [p \in Request |-> Idle]
    /\ watch = [p \in Request |-> Nothing]
    /\ events = 0

-----------------------------------------------------------------------------
(* scheduler.pick                                                           *)

At(p, step) == picks[p].step = step

Becomes(p, changed) == picks' = [picks EXCEPT ![p] = changed]

Finish(p, outcome, t) ==
    Becomes(p, [picks[p] EXCEPT !.step = "done", !.outcome = outcome, !.token = t])

Ready == healthy /\ ~cfg.problems

(* The host calls; a plugin that is not ready declines at once.             *)
PickBegin(p) ==
    /\ At(p, "idle")
    /\ \E s \in Session \cup {NoSession}, offered \in Offers :
          /\ Becomes(p, [Idle EXCEPT !.step = IF Ready THEN "load" ELSE "done",
                                     !.session = s, !.offered = offered, !.todo = offered])
    /\ UNCHANGED <<keys, sessionsVars>>

(* currentSettings, and the time everything in this pick is judged at.       *)
PickLoad(p) ==
    /\ At(p, "load")
    /\ Becomes(p, [picks[p] EXCEPT !.step = "read", !.set = settings, !.at = now])
    /\ UNCHANGED <<keys, sessionsVars>>

(* Registry.Get for one candidate, and Touch when it is tracked.  The host's *)
(* list may have the candidates in any order.                               *)
PickRead(p) ==
    /\ At(p, "read")
    /\ \E t \in picks[p].todo :
          /\ Becomes(p, [picks[p] EXCEPT
                !.todo = @ \ {t},
                !.seen = [u \in DOMAIN @ \cup ({t} \cap Tracked) |->
                            IF u = t
                              THEN Appraise(t, keys[t], picks[p].set, picks[p].at)
                              ELSE @[u]]])
          /\ Touch(t, picks[p].at)
    /\ UNCHANGED sessionsVars

(* From here on a pick works on its appraisals alone.                       *)
Judged(p) == Eligible(picks[p].seen)
Groups(p) == {picks[p].seen[t].provider : t \in DOMAIN picks[p].seen}
Judging(p) == At(p, "read") /\ picks[p].todo = {}
Routable(p) == picks[p].session # NoSession /\ Cardinality(Groups(p)) = 1
KeyOf(p) == <<picks[p].session, CHOOSE g \in Groups(p) : TRUE>>

(* No credential of the pool among the candidates, none that is known, no    *)
(* session, candidates of several providers, or nothing that may ever be     *)
(* released.                                                                *)
PickDecline(p) ==
    /\ Judging(p)
    /\ Routable(p) => Releasable(picks[p].seen) = {}
    /\ Finish(p, IF picks[p].offered # {} /\ DOMAIN picks[p].seen = {}
                   THEN "mapping_failed" ELSE "unhandled", Never)
    /\ UNCHANGED <<keys, sessionsVars>>

(* Every credential is held out: release the least exhausted one.           *)
PickFallback(p) ==
    /\ Judging(p) /\ Routable(p) /\ Judged(p) = {}
    /\ \E t \in Token :
          /\ BestReleasable(t, picks[p].seen)
          /\ Bind(KeyOf(p), t)
          /\ Finish(p, "fallback", t)
    /\ UNCHANGED keys

(* Mutant of PinOf: a pin counts for a session without a binding only.       *)
PinOfUnbound(p) ==
    {picks[p].set.pins[s] : s \in {s \in {picks[p].session} \cap DOMAIN picks[p].set.pins :
                                   ~Live(KeyOf(p))}}

PinOf(p) == {picks[p].set.pins[s] : s \in {picks[p].session} \cap DOMAIN picks[p].set.pins}

PickPinned(p) ==
    /\ Judging(p) /\ Routable(p)
    /\ \E t \in PinOf(p) \cap Judged(p) :
          /\ Bind(KeyOf(p), t)
          /\ Finish(p, "pinned", t)
    /\ UNCHANGED keys

(* Mutant of Sticks: a binding holds while its credential also ranks first.  *)
SticksToBest(p) == Live(KeyOf(p)) /\ BestRanked(items[KeyOf(p)].token, picks[p].seen)

(* The live binding is to a credential that is eligible.                     *)
Sticks(p) == Live(KeyOf(p)) /\ items[KeyOf(p)].token \in Judged(p)

(* Sessions.Get: the bound credential if it is eligible, else a choice that  *)
(* a second call will bind.                                                 *)
PickLookup(p) ==
    LET k == KeyOf(p) IN
    /\ Judging(p) /\ Routable(p)
    /\ Judged(p) # {} /\ PinOf(p) \cap Judged(p) = {}
    /\ Get(k)
    /\ IF Sticks(p)
         THEN Finish(p, "bound", items[k].token)
         ELSE Becomes(p, [picks[p] EXCEPT
                 !.step = "bind",
                 !.outcome = IF Live(k) THEN "rebound" ELSE "assigned"])
    /\ UNCHANGED keys

PickBind(p) ==
    /\ At(p, "bind")
    /\ \E t \in Judged(p) :
          /\ BestRanked(t, picks[p].seen)
          /\ Bind(KeyOf(p), t)
          /\ Finish(p, picks[p].outcome, t)
    /\ UNCHANGED keys

(* The answer reaches the host.                                             *)
PickReturn(p) ==
    /\ At(p, "done")
    /\ Becomes(p, Idle)
    /\ UNCHANGED <<keys, sessionsVars>>

Pick(p) == \/ PickBegin(p) \/ PickLoad(p) \/ PickRead(p)
           \/ PickDecline(p) \/ PickFallback(p) \/ PickPinned(p)
           \/ PickLookup(p) \/ PickBind(p) \/ PickReturn(p)

-----------------------------------------------------------------------------
(* Mutant of SyncTable: what has left is worked out after the swap.          *)
SyncTableDiffsLate(listing) ==
    /\ sync = SyncIdle
    /\ Sync(listing)
    /\ healthy' = TRUE
    /\ sync' = [step |-> "forget", removed |-> DOMAIN keys' \ DOMAIN listing]
    /\ UNCHANGED <<sessionsVars, cfg, settings>>

(* syncConfigFile, under fileMu: the table first, then the bindings of what  *)
(* left it, then the settings.                                              *)
SyncTable(listing) ==
    /\ sync = SyncIdle
    /\ Sync(listing)
    /\ healthy' = TRUE
    /\ sync' = [step |-> "forget", removed |-> Tracked \ DOMAIN listing]
    /\ UNCHANGED <<sessionsVars, cfg, settings>>

(* The file cannot be read, or no path is configured.                       *)
SyncFails ==
    /\ sync = SyncIdle
    /\ healthy' = FALSE
    /\ UNCHANGED <<keys, sessionsVars, cfg, settings, sync>>

SyncForget(t) ==
    /\ t \in sync.removed
    /\ DropToken(t)
    /\ sync' = [sync EXCEPT !.removed = @ \ {t}]
    /\ UNCHANGED <<keys, cfg, healthy, settings>>

SyncPublish ==
    /\ sync.step = "forget" /\ sync.removed = {}
    /\ settings' = Resolved(cfg, keys)
    /\ sync' = SyncIdle
    /\ UNCHANGED <<keys, sessionsVars, cfg, healthy>>

(* applyConfig of a plugin.reconfigure; the sync it starts is any later one. *)
Reconfigure(config) ==
    /\ cfg' = config
    /\ Configure(config.ttl, config.max)
    /\ UNCHANGED <<keys, healthy, settings, sync>>

(* A worker stores what the usage endpoint answered.                        *)
Answer(t) ==
    /\ \/ \E reading \in Reading : StoreUsage(t, reading, now)
       \/ keys[t].failStreak < MaxStreak /\ StoreFetchFailure(t)
       \/ StoreRevoked(t)
    /\ UNCHANGED <<sessionsVars, serviceVars>>

(* usage.handle reports a 429 on a tracked credential.                      *)
Note429(t) == MarkSuspected429(t, now) /\ UNCHANGED <<sessionsVars, serviceVars>>

(* The poll loop, and the resource page, expire bindings.                   *)
SweepSessions == Sweep /\ UNCHANGED <<keys, serviceVars>>

(* What sweep finds, after Sessions.Sweep, in the copy of the table it takes: *)
(* credentials once offered, not lately, whose usage endpoint kept failing.  *)
PruneBegin ==
    LET fit == {t \in Tracked : /\ keys[t].lastSeenAt # Never
                                /\ keys[t].lastSeenAt + PruneAfter <= now
                                /\ keys[t].failStreak >= PruneStreak}
    IN  /\ pruning = PruneIdle
        /\ fit # {}
        /\ pruning' = [PruneIdle EXCEPT !.due = fit]
        /\ UNCHANGED <<keys, sessionsVars>>

(* It drops them one by one, without fileMu: Registry.Remove, and then, in    *)
(* forgetCredential, the bindings.  Whatever was learnt since the copy was   *)
(* taken, and a sync that lists the token again in between, do not stop it.  *)
PruneRemove(t) ==
    /\ t \in pruning.due /\ pruning.half = {}
    /\ Remove(t)
    /\ pruning' = [due |-> pruning.due \ {t}, half |-> {t}]
    /\ UNCHANGED sessionsVars

PruneForget(t) ==
    /\ t \in pruning.half
    /\ DropToken(t)
    /\ pruning' = [pruning EXCEPT !.half = @ \ {t}]
    /\ UNCHANGED keys

Prune == PruneBegin \/ \E t \in Token : PruneRemove(t) \/ PruneForget(t)

(* What happens at most MaxEvents times, and what follows from it.          *)
Event == \/ \E listing \in Listings : SyncTable(listing)
         \/ SyncFails
         \/ \E config \in PluginConfigs : Reconfigure(config)
         \/ \E t \in Tracked : Answer(t) \/ Note429(t)
         \/ SweepSessions

Aftermath == (\E t \in Token : SyncForget(t)) \/ SyncPublish

RoutingStep ==
    \/ UNCHANGED <<now, serviceVars, pruning, events>> /\ \E p \in Request : Pick(p)
    \/ /\ events < MaxEvents /\ events' = events + 1
       /\ Event
       /\ UNCHANGED <<now, pruning, picks>>
    \/ Aftermath /\ UNCHANGED <<now, pruning, picks, events>>
    \/ Prune /\ UNCHANGED <<now, serviceVars, picks, events>>
    \/ Tick /\ UNCHANGED <<registryVars, sessionsVars, serviceVars, pruning, picks, events>>

RoutingNext == RoutingStep /\ Observe

RoutingSpec == RoutingInit /\ [][RoutingNext]_RoutingVars

-----------------------------------------------------------------------------
(* The type invariant of the composition.                                   *)
RoutingTypeOK ==
    /\ RegistryTypeOK
    /\ SessionsTypeOK
    /\ cfg \in PluginConfigs /\ healthy \in BOOLEAN
    /\ settings \in Settings
    /\ sync.step \in {"idle", "forget"} /\ sync.removed \subseteq Token
    /\ pruning \in [due : SUBSET Token, half : SUBSET Token]
    /\ \A p \in Request :
          /\ picks[p].step \in {"idle", "load", "read", "bind", "done"}
          /\ picks[p].session \in Session \cup {NoSession}
          /\ picks[p].todo \subseteq picks[p].offered
          /\ picks[p].seen \in [DOMAIN picks[p].seen -> Appraisal]
          /\ picks[p].outcome \in Outcome

Answered(p) == At(p, "done") /\ picks[p].outcome \in Handled

(* A credential that was dead all through a pick (revoked or gone from the   *)
(* table), or that the settings it took exclude, is never its answer, and    *)
(* one that was unfit all through it is only ever a last resort              *)
(* (select.go:151-164, 217-235, 266-310).                                   *)
NeverRoutesDead ==
    \A p \in Request : Answered(p) =>
        /\ picks[p].token \notin watch[p].dead \cup picks[p].set.exclude
        /\ picks[p].outcome # "fallback" => picks[p].token \notin watch[p].unfit

(* The last resort is the last: neither a fallback nor a refusal happens to  *)
(* a request that had a candidate which stayed usable throughout             *)
(* (select.go:104-164).                                                     *)
FallbackIsLastResort ==
    \A p \in Request :
        /\ At(p, "done")
        /\ \/ picks[p].outcome \in {"fallback", "mapping_failed"}
           \/ picks[p].outcome = "unhandled" /\ Routable(p)
        => picks[p].offered \cap watch[p].fit = {}

(* A pin wins over the sticky binding and the ranking whenever the pinned    *)
(* credential stayed usable (select.go:166-180).                            *)
PinHonoured ==
    \A p \in Request :
        Answered(p) =>
            \A s \in {picks[p].session} \cap DOMAIN picks[p].set.pins :
                picks[p].set.pins[s] \in picks[p].offered \cap watch[p].fit =>
                    picks[p].token = picks[p].set.pins[s]

(* Stickiness: a session whose live binding stayed on one credential, which  *)
(* stayed usable and was offered, is answered with that credential, however  *)
(* the load moved meanwhile and whoever else is picking (select.go:182-193). *)
(* The binding is that of the provider group the pick read the credential    *)
(* in: a sync may move the credential to another group while it picks.       *)
StickyWhileFit ==
    \A p \in Request :
        Answered(p) /\ picks[p].outcome # "pinned" =>
            \A t \in picks[p].offered \cap watch[p].fit :
                <<picks[p].seen[t].provider, t>> \in watch[p].holds =>
                    picks[p].token = t

(* The step answers pick p, which is of the session bound by k; and p had    *)
(* cause to move the binding: it found the bound credential ineligible, or   *)
(* it was pinned elsewhere.                                                 *)
Answers(p, k) ==
    /\ ~At(p, "done") /\ picks'[p].step = "done"
    /\ picks[p].session = k[1]

HasCause(p, k) == picks'[p].outcome = "pinned" \/ items[k].token \notin Judged(p)

Drifts(k) == Live(k) /\ items'[k].token # items[k].token

(* No drift while the requests of a session come one after the other: a live *)
(* binding moves to another credential only in a pick that had cause, or     *)
(* while another pick of the same session overlaps (select.go:182-214).      *)
DriftNeedsOverlap ==
    [][\A k \in Bound \cap DOMAIN items' : Drifts(k) =>
          \E p \in Request :
             /\ Answers(p, k)
             /\ HasCause(p, k) \/ watch[p].elsewhere # Request \ {p}]_RoutingVars

(* "The same x-opencode-session always reuses the same key, it never drifts" *)
(* (README.md:6): no binding moves without cause, also under overlap.        *)
NoDrift ==
    [][\A k \in Bound \cap DOMAIN items' : Drifts(k) =>
          \E p \in Request : Answers(p, k) /\ HasCause(p, k)]_RoutingVars

(* "A token that disappeared: remove the key and all of its bindings"        *)
(* (SPEC.md:131): once a sync is over, and no prune is between its two       *)
(* deletes, every binding is to a tracked credential.                       *)
NoOrphanBinding ==
    sync = SyncIdle /\ pruning.half = {} => \A k \in Bound : items[k].token \in Tracked

(* A binding nothing will clear any more: its credential is neither tracked  *)
(* nor about to be forgotten, by a sync or by a prune.                      *)
Orphan(k) ==
    k \in Bound /\ items[k].token \notin Tracked \cup sync.removed \cup pruning.half

(* What is left of it: a binding is orphaned only by a pick that answers     *)
(* with a credential it had read before the sync or the prune removed it,    *)
(* never by their own steps or those of anything else, also when a sync      *)
(* lists a credential again while it is being pruned (service.go:349-361,    *)
(* poller.go:183-184).                                                      *)
OrphansNeedPicks ==
    [][\A k \in DOMAIN items' :
          Orphan(k)' /\ ~(Orphan(k) /\ items'[k].token = items[k].token) =>
              \E p \in Request :
                 Answers(p, k) /\ items'[k].token \in DOMAIN picks[p].seen]_RoutingVars

(* The tokens whose bindings this step drops.                               *)
Forgotten == (sync.removed \ sync'.removed) \cup (pruning.half \ pruning'.half)

(* How a binding ends.  A live one disappears only when its credential is    *)
(* forgotten or the table is full of more recent ones: no reload, answer,    *)
(* reconfiguration or other pick takes it.  And one that has expired never   *)
(* comes back, whatever touches it: only the answer of a pick of its session *)
(* binds the session anew (sessions.go:71-94, 115-225).                      *)
BindingsEndForCause ==
    [][\A k \in Bound :
          IF k \in DOMAIN items'
            THEN Expired(items[k]) /\ items'[k] # items[k] => \E p \in Request : Answers(p, k)
            ELSE Expired(items[k]) \/ LostToPressure(k) \/ items[k].token \in Forgotten]_RoutingVars

(* "One the operator explicitly excluded must never be released" (select.go: *)
(* 269-271).  For a configuration that never changes: no answer is a         *)
(* credential it excludes.                                                  *)
NeverRoutesExcluded ==
    \A p \in Request : Answered(p) => picks[p].token \notin cfg.exclude
=============================================================================
