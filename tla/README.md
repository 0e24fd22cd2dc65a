# opencodego-pool in TLA+

A verification development of the CLIProxyAPI plugin in `src/`: it routes the
requests of one session to one opencode api-key, chosen by real upstream usage,
and keeps its table of keys in step with the host's `config.yaml`. The modules
are translated from the Go source; `PROJECT.json` ties every definition to the
lines it stands for.

## 1. The system

The host calls the plugin (`scheduler.pick`, `usage.handle`, management and
lifecycle calls, any number at once, each on a goroutine of its own). The plugin
runs goroutines beside them: workers that fetch usage, a poll loop, and the sync a
reconfiguration starts. They share what is below; each part has its own lock.

| Component | State | Operations | Interacts by |
|---|---|---|---|
| Credential table, `internal/pool/registry.go` | token -> provider, last reading, revoked, time of the last 429, failures | `Sync`, `Touch`, `StoreUsage`, `StoreFetchFailure`, `StoreRevoked`, `MarkSuspected429`, `Remove` | called by sync, picks, workers, 429 reports, sweep |
| Session bindings, `internal/pool/sessions.go` | (session, provider) -> token with sliding expiry; a recency list; ttl and capacity | `Configure`, `Bind`, `Get`, `DropToken`, `Sweep`, `Len`, `Reset` | called by picks, sync, reconfigure, poll loop, management page |
| Selection policy, `internal/pool/select.go` | none (copies of states) | `Pick`: exclusion, pin, stickiness, ranking, last resort | reads the table, writes bindings |
| `scheduler.pick`, `internal/service/handlers.go` | readiness, published settings | `Service.Pick` | runs the policy on a settings snapshot |
| Usage refresh, `internal/service/poller.go`, `fetch.go` | bounded queue, in-flight marks, two throttle maps, stop signal | `requestRefresh`, `worker`, `refreshOne`, `refreshAll`, `note429`, `forgetCredential`, `Stop`, `sweep` | stores answers in the table |
| Config sync, `internal/service/service.go`, `internal/keysource/configfile.go` | file stamp, health, plugin configuration, `fileMu` | `syncConfigFile`, `rebuildSettings`, `applyConfig`, `sweep` | run by the poll loop and by each reconfiguration; replaces the table, forgets, publishes settings, requests refreshes |
| Plugin lifecycle, `service.go`, `poller.go`, `main.go` | once-guards, stop channel, wait groups of workers and of fetches | `Register`, `Reconfigure`, `Quiesce`, `Shutdown` | starts and joins the goroutines |
| Key discovery, `internal/keysource/configfile.go`, `stableid.go` | duplicate counters, for the length of one load | `LoadKeys`, `Generator.Next`: the host's token recipe | feeds the sync |
| Usage payload, `internal/usage` | none | `Parse`, `Unavailable`, `SortPercent`, `MaxPercent` | made by workers, read by the policy |
| Plugin configuration, `internal/pluginconfig` | none | defaults, validation | `applyConfig` |
| Quota answers, management page, statistics, host bridge, ABI checker | counters only | rendering, marshalling | read-only for the rest |

What is hard here, and what makes each part correct:

* **Picks.** A pick is not atomic. It reads readiness, settings, the clock, then one
  credential after the other, and calls the binding table once or twice, taking and
  giving up a lock each time. Reloads, answers, 429s and other picks of the same
  session happen in between. Correct: no answer is a credential that was dead all
  along, the last resort is the last, a pin wins, a session sticks to a fit binding.
* **Reloads.** A sync replaces the table, then forgets removed credentials one by
  one, then publishes settings. Correct: surviving credentials keep what was learnt,
  returning ones start clean, nothing of a removed one is left.
* **429s.** A hold has to outlive the healthy reading that the 429 itself requests.
* **Refreshes.** A mark left behind silences a credential for ever; a mark dropped
  early refreshes it twice. Answers may never come; the stop may find workers
  anywhere.
* **Bindings.** Capacity shrinks under live bindings, ttl changes under them, and
  map and list must stay in step.
* **The file.** `config.yaml` is rewritten, half written, moved away and back while two
  kinds of goroutine read it and a third path prunes the table. Correct: no write is
  skipped for good, the table never goes back, the settings end up with the
  configuration sent last.
* **The end.** The host frees its context after `Shutdown`; fetches may never return.
  Correct: every call returns, and what could still call the host is gone or reported.
* **Duplicates.** The tokens are counters over the file; one entry counted too much or too
  little shifts every later duplicate, and candidates no longer match keys.

The `hazards` of `PROJECT.json` list these at their lines, with the properties that
would catch each going wrong.

## 2. The modules

| Module | Models |
|---|---|
| `Base` | tokens, providers, the injected clock |
| `Usage` | parsing an answer of the endpoint, and the derived values; no state |
| `Defaults` | the defaults of the knobs the bindings depend on; no state |
| `StableIds` | `LoadKeys` with its generator, one entry a step |
| `Ranking` | the preference order of the policy; no state |
| `Registry` | the credential table, on its own and for `Routing` |
| `Sessions` | the binding table, on its own and for `Routing` |
| `Selection` | exclusion, ranking key and last resort as functions of a credential's state |
| `FallbackScan` | the loop of `fallbackPick`, one iteration a step |
| `Routing` | `scheduler.pick` composed with table, bindings, sync, prune, answers, 429s, reconfiguration, clock |
| `Refresh` | queue, workers, verdicts and late answers, poll loop with its prune, 429 path, forgetting and stop |
| `RefreshCycle` | abstract: each credential goes through one refresh at a time |
| `ConfigSync` | `syncConfigFile` in every goroutine that runs it, the sweep's prune, the file and the configuration |
| `ConfigMirror` | abstract: the table is what one version of the file lists under a configured prefix, in order, less what was pruned since |
| `Lifecycle` | the lifecycle calls against workers, poll loop, syncs and host calls |
| `MCTables`, `MCRouting`, `MCRefresh`, `MCConfigSync` | the instances TLC checks; `Lifecycle` is checked as it is |
| `RankingProofs`, `RegistryProofs`, `SessionsProofs`, `RoutingProofs`, `RefreshProofs`, `ConfigSyncProofs`, `LifecycleProofs` | theorems about the module of that name (`RefreshProofs` has the refinement of `RefreshCycle` too) |
| `LoopProofs` | theorems about the two loops, `FallbackScan` and `StableIds` |

`Routing` extends `Sessions` and `Selection`, and through the latter `Registry`: their
actions are its building blocks, with the same variables. `Refresh`, `ConfigSync` and
`Lifecycle` stand alone: each keeps of the others what its questions need (`Refresh` of the
table membership and verdicts, `ConfigSync` membership and who is lost, `Lifecycle` of the
queue its length). `MCTables` joins the parts that one lock or one goroutine guards; an
initial state picks the one that runs.

How state and actions correspond to the code:

* **One lock, one action.** Every method of the table and of the bindings holds its
  mutex from start to end, so it is one action (`Sessions.Reset` is left out: only a test
  calls it). A time argument was read before the
  lock: `Registry` lets it lag by `MaxLag`; bindings read the clock under the lock.
* **The recency list** (`container/list`) is kept as the order it stands in,
  `<<a, b>> \in newer` when a is before b; `MoveToFront` and `Remove` are what they do to that
  order. Eviction from the back is `Trimmed`.
* **A pick** is `PickBegin` (readiness), `PickLoad` (settings and clock), one `PickRead` per
  candidate (`Get` and `Touch`), then the decision: `PickDecline`, `PickFallback`, `PickPinned` or
  `PickLookup`, the last followed by `PickBind` when there is nothing to reuse, and
  `PickReturn`. Of the copied state a pick keeps the appraisal it will use.
* **A sync** is `SyncTable`, one `SyncForget` per removed credential, `SyncPublish`. In `Refresh`
  forgetting is two steps, as `forgetCredential` takes `queueMu` and then `suspectMu`, and new
  credentials are requested after it.
* **A worker** is its loop: the first select (`CheckStop`), the second (`Quit` or `Take`),
  `refreshOne` (`Begin`, `Conclude`, `Finish`). The answer and the deadline are two ways of
  `Conclude`, which stores what `Says` makes of it. A call that outlived the deadline stays in `late`
  until `ReturnsLate`: its answer lands in a channel nobody reads.
* **The poll loop** of `Refresh` is its select (`LoopQuit`, or `PollTick`, also when both are ready), the prune
  and `refreshAll` (`RefreshAll`, one `PollRequest` per credential). **The prune** takes a snapshot and, for each
  credential it found fit, removes it from the table and forgets it, without `fileMu`. Three
  modules have it, each with its part of `forgetCredential`: `Refresh` the mark and the throttle entries
  (`PruneRemove`, `PruneUnmark`, `PruneUnsuspect`), `Routing` the bindings (`PruneBegin`, `PruneRemove`,
  `PruneForget`), `ConfigSync` the table against the file (`PollTick`, `Remove`, `Drop`). A sync may list the
  credential again between any two of these steps.
* **Syncs in full** are in `ConfigSync`: `ReadConfig` (before the lock), `CheckPath`, `Lock`, `Stat`
  (missing, unchanged or to be read), `Load`, `Table` (with stamp and health), `Forget`,
  `Resolve` and `Publish` (`rebuildSettings` reads the configuration again and then stores the
  settings). The poll loop and each reconfiguration run these steps.
* **The lifecycle**: a call is its steps (`Register`, `RegisterSync`, `Start`; `Stop`, `Await`, and
  for a shutdown `Join`), and `host` holds the one under way, since the host serializes them. A
  fetch is a slot that belongs to a worker, then perhaps to nobody (`GiveUp` at the deadline),
  until the host call is over (`Answered`, `ReturnsLate`).
* **Key discovery**: `Skip` for an entry of a disabled provider, `Resolve` for any other, which
  advances the generator and appends what is reported.
* **History variables**: `watch` (what has been true without interruption since a pick
  took its snapshot: which credentials were dead, unfit or fit, which bindings its session
  held, which other picks were of other sessions), `unmarked` (how many refreshes under way a forgetting
  left without a mark), `afterStop` (refreshes begun after the stop), `view` and `pruned` (the
  configuration and file version the table shows, and what the sweep took from it), `written` (what each
  version of the file listed), `version` in a goroutine of `ConfigSync`, and in `Lifecycle` `joined` and
  `late` (`Stop` has returned; `Shutdown` gave up). No guard reads them.

Simplifications, each merging steps that nothing can tell apart or leaving out data:

* one candidate stands for each token; names, IDs, keys, URLs and headers are left out;
* `Registry.Get` and the `Touch` after it are one step (`lastSeenAt` decides nothing but the prune, which
  works on a copy);
  so are readiness's two reads, the settings snapshot and the clock, and
  `applyConfig`'s assignment and its `Configure`;
* the host's order of candidates is a free choice, the table's order is not kept;
* `RoutingInit` is the state after `Register`; the sync that a reconfiguration starts is any
  later sync. In `Refresh` the workers wait beside the first sync too, which adds only
  interleavings that later syncs have anyway;
* `Refresh` has no clock: a throttle entry is recent until its window passes, and any credential
  of `Prunable` may be found fit to prune (`Routing` has the condition, with `lastSeenAt`, the failures and
  the clock);
* percentages are integers (the code compares them and nothing else);
* a stamp stands for the file's time and size, and two writes differ in it;
* the digest of a token is ideal: it stands for the kind and parts it is made of;
* in `ConfigSync` time and failed fetches are one step (`Lose`: fit to prune) that a candidate
  undoes (`Seen`); a sync that ends under `Lifecycle` may request any number of refreshes.

## 3. What is checked

Seven runs pass and five exhibit disagreements between code and documentation.

| Run | Question | Bounds |
|---|---|---|
| `MCTables` | Does each part that one lock guards keep its promises under every sequence of calls? | table: 2 tokens, times 1 to 4, hold of 2, lag of 1, what `Parse` makes of four answers; bindings: 3 sessions, 2 tokens, ttl and capacity 1 or 2 from written and unwritten knobs; loop: up to 4 candidates, unmeasured or at 0 or 50 percent; ids: every file of up to 4 entries over 2 kinds, 3 keys (one empty, one foreign), enabled or not |
| `MCRoutingReload` | What does one pick owe its caller while everything else moves? | 2 tokens, 1 session, every offer, 3 listings, 3 configurations (ttl 1 or 2, pin, exclusion), 2 events, one tick at any moment; fit to prune after one failure and one tick |
| `MCRoutingOverlap` | Do two picks of a session stick, and what moves a binding? | 2 picks, 2 tokens, 2 events |
| `MCRefreshOne` | Are refreshes single, are marks never stuck, is the cycle implemented, and does each answer lead to its verdict and nothing else to any? | 1 token that comes, goes and may be pruned at any poll, 2 workers, 1 handler, queue of 1, fetches that end with 401, with 404 or at the deadline, which may leave a call behind |
| `MCRefreshLive` | Does everything accepted end, is everybody polled, and does `Stop` return? | 2 tokens, 2 workers, queue of 2, fetches that time out |
| `MCConfigSync` | Does the file reach the table and the configuration the settings, however syncs overlap, and does the watch alone read a change and notice a loss? | 2 tokens, the poll loop and two reconfigure syncs, 2 changes of file or configuration, 3 configurations (wide prefix, narrow prefix, no path) |
| `MCLifecycle` | Does every lifecycle call return, and what outlives the last? | 2 workers, 3 host calls at once, 2 reconfigure syncs, 2 waiting refreshes, 4 lifecycle calls |

*Why these bounds are enough.* `MaxTime` lets a hold and a binding expire between any two
steps (in `MCRoutingReload` both may last one tick; the overlap run keeps the clock still,
since its question is what the picks do to each other). Readings do not grow stale within
these bounds: staleness moves a credential in the ranking and nothing else, and no
property of these runs depends on the ranking but through changing answers. Two credentials are the least for which ranking, rebinding and
fallback differ; a third adds no new comparison to a pick, and the loop that compares
more is checked on four and proved for any number. In `Sessions` three keys against a
capacity of one or two give evictions in bulk and one at a time. `MaxEvents` is 2: one change
before a pick's read and one between its read and its write, which is what its races
consist of (the forget and publish steps that follow a sync are not counted, nor is the prune, which one
failed fetch and one tick make possible: one event, and one left for the sync that lists the
credential again); the theorems about
`Routing` hold for any number. For
`Refresh` two workers are the least for a double refresh, and sync, poll loop and handler are
three sources of requests for it; the queue of one is full as soon as a request waits, and with one credential
a second place would hold the same token again. The three ways a fetch may end stand for an answer that changes a verdict, one that
does not, and a call left behind; the theorem about verdicts covers all eight. In `ConfigSync` two changes are enough for a write
and a reconfiguration, two of either, or a loss and a return, at any two steps of a sync; three goroutines give a lock two
waiters and let one reconfigure's sync overtake another's; the proofs cover any number of both. Four lifecycle calls hold every order of
register, reconfigure, quiesce and shutdown, repeated ones included, with a third host call for one that
is left behind. Four entries give three duplicates with one entry of any sort
between them. `MaxStreak` bounds a counter that
no decision reads. Symmetry is used for picks, workers and handlers in safety runs only.

The properties, beside one type invariant per module:

* `ReadingsCoherent`, `HoldIsAFloor`, `ReloadIsClean` (`Registry`): whatever the
  order of answers, 429s and reloads, a credential shows no usage it does not
  have and a hold is never shortened. `ReloadIsClean` holds of every step, reloads of the same tokens
  included: a credential that stays keeps all that was learnt, or the step is a call
  about it alone, which supersedes by an answer and never turns knowledge into ignorance (so a revocation
  ends only by a reading); one that comes back starts with nothing.
* `RecencyIsOrder`, `WithinCapacity`, `LiveBindingsSurvive` (`Sessions`): list and map agree; the
  bound holds at every moment; a live binding disappears only in a step that drops exactly the bindings
  of its token, or under real pressure: the table is full without it and everything that stays was used more
  recently. So a reload that makes the table anew is no excuse.
* `ReleasesTheFirst` (`FallbackScan`): the loop implements the declarative choice `IsFirst`.
* `NeverRoutesDead`, `FallbackIsLastResort`, `PinHonoured`, `StickyWhileFit` (`Routing`): stated
  against `watch`, so each says exactly what a pick on stale copies can still promise. The
  promises are per cause: a credential that was dead for one part of a pick, and excluded by newer
  settings for the rest, may be the answer, since each fact was false at the moment the
  pick looked at it. `StickyWhileFit` speaks of the provider group in which the pick
  read the credential, since a sync may move it to another while the pick runs; TLC checks it
  with overlapping picks, the theorem covers everything else that moves.
* `OrphansNeedPicks` (`Routing`): only a pick that had read a credential before the sync, or the prune,
  removed it can leave a binding to it. It is the part of SPEC.md:131 that the code keeps.
* `BindingsEndForCause` (`Routing`): under all that runs beside the picks, a live binding disappears only
  when its credential is forgotten or under pressure, and an expired one is never revived by the
  access that finds it: only a pick's answer binds the session anew.
* `DriftNeedsOverlap` (`Routing`): a live binding moves without cause only while two picks of
  its session overlap. It is the part of "never drifts" that the code keeps.
* `TokensMatchHost` (`StableIds`): exactly the usable entries are reported, each
  under the token that the host's declarative recipe gives it.
* `NoStuckInflight`, `StopBoundsWork` (`Refresh`): no mark without a refresh behind it; at most one begun
  after the stop. `SingleFlight` counts: the refreshes of a credential that are queued or under way are
  one that is marked, and one for each whose mark a forgetting took (`unmarked`). So the case
  service.go:395 is exposed to, a credential that returns at once or a prune that is late, costs
  a second refresh and not a third, although the first to finish lifts the other's mark.
  `ImplementsCycle`: the machinery refines `RefreshCycle` under the mapping `StageOf`, save for that case.
* `VerdictsAreEarned` (`Refresh`): a reading comes of a readable success and a revocation of 401 and 403 alone,
  each by the answer that concluded the fetch; late answers, and answers for
  credentials that left, change nothing.
* `StopTerminates`, `MarkIsLifted`, `EveryKeyIsPolled` (`Refresh`): liveness, below.
* `NoLostUpdate` (`ConfigSync`): while the remembered stamp is the file's, the table lists what the
  file lists less what the sweep pruned, so a skipped poll misses nothing. `SyncForgetsTheGone`: no sync forgets what another has
  added. `SettingsFollow` and `OnlyOvertakingStaysBehind`: the settings end up with the configuration
  sent last, and the table too unless a sync was overtaken by a reconfiguration between reading
  the configuration and taking the lock. `ImplementsMirror`: the machinery refines `ConfigMirror`, with
  the history variables `written` and `view.version` as the versions of the file and the one shown: the table is
  replaced only by exactly what one version lists under a configured prefix, that version is no earlier
  than the one before, and else the table only loses a pruned credential. No mixture, no half, no relapse.
* `ChangeIsRead`, `LossIsNoticed` (`ConfigSync`), `CallsReturn` (`Lifecycle`): liveness, below.
* `NothingOutlivesShutdown`, `StopIsForGood` (`Lifecycle`): no goroutine that `Shutdown` joins is left, and
  no fetch unless it said so; after `Stop` no fetch begins, also when the plugin is registered
  again.

**Fairness** (`FairSpec`): every step of a worker is weakly fair, since goroutines that can
run do, and the deadline of a fetch always fires; the poll loop and the passing of the throttle
windows are weakly fair, since the tickers keep firing. Nothing is assumed of 429s, of the
configuration file or of the host's stop. In `MCRefreshLive` no fetch is ever answered:
the deadline alone carries the liveness. `FairConfigSyncSpec`: every goroutine's steps are weakly fair; taking the
lock is strongly fair, since a Go mutex is handed to a waiter that starves; and so is the watch,
since the loop's select picks at random among the tickers that are ready. Nothing is assumed of
the file. `FairLifecycleSpec`: goroutines, timers and the steps of a call under way are weakly fair,
the loop's stop case strongly (the same select); nothing is assumed of the host's answers or of
further calls. The host's log callback is taken to return.

`CHECK_DEADLOCK FALSE` is set where the system may really stop: after `Stop` nothing is left
to do in `Refresh`, `Lifecycle` ends with the shutdown, and in `MCTables` the last-resort loop and the
load end with their answers.

**Mutants.** Each property of each passing run has a mutant of the code's definition, defined just
before it, that a plausible bug would produce and that violates the property. Two stand for
`VerdictsAreEarned`: a 404 that revokes, as README.md:193 has it, and a late answer that is applied.

### Where code and documents disagree

| Run | Statement | What the code does |
|---|---|---|
| `FindDrift` | README.md:6: a session always reuses its key and never drifts | `Pick` calls `Get` and `Bind` in two critical sections: two overlapping first picks of a session, with an answer in between, bind two different credentials |
| `FindOrphan` | SPEC.md:131: a token that disappears takes all its bindings with it | a pick that read the credential before the sync binds it after `DropToken` ran |
| `FindExcluded` | select.go:269-270: an excluded key is never released | exclusions resolve against the live table only at the end of a sync; a new credential that `exclude_keys` names is routable until then |
| `FindUnhealthy` | poller.go:67-69: the watch is a safety net; service.go:50-51: `configHealthy` is false when the most recent attempt failed | when one watch cannot stat the file and it is then back with its old stamp, every later watch returns early (service.go:334) and `configHealthy` stays false: all picks are declined until the file changes or a reconfiguration comes |
| `FindUnjoined` | service.go:277, SPEC.md:202-204: `Shutdown` waits for every goroutine this plugin started | the sync that `Reconfigure` starts (service.go:268) is counted by no wait group |

The first three need a window of a few instructions and cost little: a binding renews
elsewhere or expires, one request goes to a key. The fourth needs no race, only a file that is
away at the moment of one watch.

Seen while modelling, and not run:

* service.go:379-382 says throttle entries are pruned with their credential. A 429 report that
  passed its check before the sync stamps the maps after it (poller.go:157), and the entry stays.
* README.md:193 says a 404 revokes; `applyFetchResult` (fetch.go:93) revokes on 401 and 403, as
  SPEC.md:76 says. `VerdictsAreEarned` states what the code does, and the README's reading violates it.
* poller.go:11-12 says nothing dropped by a full queue is lost permanently. `refreshAll` requests in
  config order, so with more keys than `queueDepth` (1024) and a slow endpoint the last ones may be
  dropped in every cycle; `EveryKeyIsPolled` fails when the queue is shorter than the table.
* SPEC.md:156-162 says the prune runs only while the configuration cannot be read; `sweep` never looks
  at `configHealthy`. A pruned key stays out until the file changes or a
  reconfiguration comes, since the stamp is the same.
* poller.go:17-19 prunes what never appears as a candidate; `sweep` skips tokens that never did.
* SPEC.md:164 says a revoked key is never pruned so; three later failures make it fit to be.
* service.go:384-386 says the registry entry is gone when a credential is forgotten; a forced sync may
  add it again between the sweep's `Remove` and its `forgetCredential`.
* `Register` after `Quiesce` never starts the poller again (poller.go:25).
* An overtaken sync leaves the table with the older prefix until the file changes (service.go:314), and a
  sync without a path that is late enough clears the health a newer one has set (service.go:316).
* SPEC.md:104-105 and `fallbackPick` describe the last-resort set differently; registry.go:40-41 says a
  successful fetch clears the 429 mark, which `StoreUsage` does only after the hold.

## 4. What is proved

TLAPS checks these for every value of the constants that satisfies the named
assumptions (`TokenAssumption`, `ReadingAssumption`, `HoldAssumption`, `LagAssumption`, ...: tokens are
naturals, bounds are positive, and a clock reading is never older than the hold).

* **Table.** `RegistryTypeCorrect` and `RegistryCoherent` from `RegistryInvariant`: `RegistryInv` is the
  type invariant with `ReadingsCoherent`, which is inductive with it (a reading is dated
  because the clock is never zero, and that is a fact of the type invariant). `HoldHolds` proves the
  action property `HoldIsAFloor`; it needs that the lag is shorter than the hold,
  without which a second 429 with an old time could shorten the first. `ReloadsAreClean` proves
  `ReloadIsClean`, method by method, and `RevocationsStick` that only a reading lifts a revocation.
* **Bindings.** `SessionsTypeCorrect`, `SessionsOrdered`, `SessionsBounded` from `SessionsInvariant`. Capacity is
  not inductive alone: that `Bind` evicts enough rests on the set of keys being finite, and that
  what is evicted is a suffix of the list rests on recency being a total order; so
  `SessionsInv` carries type, order, finiteness and bound. `SessionsSurvive` derives
  `LiveBindingsSurvive` from it, operation by operation; that an eviction is pressure (`BindPresses`) is
  where the order is needed.
* **Ranking and last resort.** `FirstIsUnique`: the preference is total, so at most one candidate comes
  first. `FirstExists`: one does, among finitely many (what precedes a candidate shrinks along the
  preference, and strict inclusion of finite sets is well founded).
  `ScanReleasesTheFirst`: the loop returns it, for any number of candidates in any order, by the
  loop invariant `BestSoFar` (the candidate kept comes before all seen so far).
* **Routing.** `RoutingTypeCorrect`, `RoutingNeverDead`, `RoutingLastResort`, `RoutingPinned`, `RoutingSticky`, all
  from `RoutingInvariant`, for any number of concurrent picks, sessions, tokens, groups,
  configurations and events. None of the five is inductive: an answer is decided from copies, so the
  invariant must say how the copies relate to what has held since. `RoutingInv` is, for each pick:
  `Witnessed` (what the history says held throughout holds now), `Informed` (what was read
  agrees with what held throughout, and what is still to be read will: a credential that stays fit
  carries no 429 mark younger than the pick), `Undecided` (a pick between `Get` and `Bind` has found no
  pin and no binding to honour, and one that is there by now was made by an overlapping pick of
  its session) and `Settled` (what its answer owes). A step is first reduced to what it can do
  to a pick that does not act: a 429 mark stays, is lifted or is set to the present (`MarksMove`), a
  binding stays or goes (`Rests`), or one key is bound by a pick of its session (`Binds`); a prune is one of these
  (`PruneAround`). So the four parts are
  preserved by one lemma for bystanders (`Bystander`) and one lemma for each step of the pick itself.
  The one assumption on the host is that a list of candidates is finite (`OffersAssumption`).
  The proof showed an earlier form of the history to be too coarse: it kept one fact "barred for
  whatever reason", which is not what a pick can promise once three changes fall into it.
* **What moves or orphans a binding.** `RoutingDrift` and `RoutingOrphans` prove the two action properties from the
  same invariant: by `Rests` and `Binds` only the answering pick comes into question, and
  `Undecided` gives its cause. `RoutingBindingsEnd` proves `BindingsEndForCause` step by step: whatever
  keeps some bindings and drops the rest must name the cause of each it drops (`KeepEnds`), a `Bind` must
  show pressure (`BindEnds`).
* **One answer.** `RoutingHasOneAnswer`: at every moment each pick has exactly one best candidate among those it may
  choose, one among those it may release, and its branches leave nothing out; so no pick is
  stuck on its decision, and its copies determine the answer.
* **Routing uses the tables as they allow.** `RoutingUsesSessions`: the composition implements the
  specification of the binding table, so `LiveBindingsSurvive` holds in it (`RoutingKeepsSessions`).
  Of the credential table it takes every step but one as specified; the exception is the `Touch` of a pick that is older
  than `MaxLag`, which changes no more than `lastSeenAt`. `RoutingKeepsRegistry` carries the
  three action properties over, `RoutingTables` the invariants of both tables.
* **Refresh.** `RefreshTypeCorrect`; `RefreshNeverStuck`; `RefreshSingleFlight`; `RefreshStopsSoon`;
  `RefreshVerdictsEarned`. The
  argument first reduces every step to one of four effects (nothing, take from the queue,
  finish, accept a request), so that the invariants are argued over four cases and not over all
  interleavings. `StopInv` adds to the bound that a worker still waiting has begun nothing.
* **Refinement.** `RefreshImplementsCycle`: `Refresh` implements `RefreshCycle`. `CycleInv` joins the invariants
  above with `OnRecord` (no more is on record as unmarked than is under way), so that every step moves
  one credential one stage on, or none.

* **Key discovery.** `IdsTypeCorrect`, `TokensAreTheHosts`, `TokensAreDistinct`, for files of any length. The
  loop invariant: a counter is the number of enabled entries with its digest before the one the
  loop looks at, so the suffix it gives is the one the host's recipe counts; what is loaded is in file
  order, which makes equal tokens the same entry.
* **Config sync.** `ConfigSyncTypeCorrect`, `NoUpdateIsLost`, `ForgottenAreGone`, `SettingsCatchUp`, `TableCatchesUp`, for any
  number of overlapping syncs. `MirrorInv` adds to the two properties about the table the mutex
  (one goroutine between lock and publish), that no stamp is newer than the file's (`StampsLag`), and
  that what a sync is about to store is no older than what is there and is the file's content
  unless the file has moved on (`ReadingsFit`); without the last, `NoLostUpdate` does not survive `Table`.
  `FollowInv` adds `PublishersBehind`: whoever is about to publish an older configuration has a forced
  sync with the current one still waiting outside of the lock. Every step of a sync is first
  reduced to where it goes and what becomes of its configuration (`SyncHops`).
  `SyncImplementsMirror`: a store of the table is the mirror's `Adopt`, a write its `Write`, a prune its
  `Shrink`, all else a stutter. It needs `HistoryFits`: every version is on record, the newest last, and
  what a sync is about to store is what the version it read lists under a prefix that was configured.
* **Lifecycle.** `LifecycleTypeCorrect`, `ShutdownJoins`, `StopHolds`, for any number of workers, host calls and
  lifecycle calls. The invariant adds `StopOrder`: which steps of a call imply that the stop channel is
  closed and the goroutines are gone, and that a worker that starts after the stop is
  at the top of its loop, where it leaves.

Only model-checked: liveness, which is out of the prover's reach under fairness (`StopTerminates`,
`MarkIsLifted`, `EveryKeyIsPolled`, `ChangeIsRead`, `LossIsNoticed`, `CallsReturn`). Every invariant and every
action property of a passing run is a theorem. `TokensAreDistinct` and `RevocationsStick` are proved and have no
run of their own: `TokensMatchHost` and `ReloadIsClean` are checked in their place.

## 5. What is not modelled, and the plan

Not modelled for good: rendering (management page, quota formatting), counters, cgo marshalling, the
ABI checker, log output. They decide nothing. Of the plugin configuration only the defaults that
the bindings depend on are modelled; durations, path expansion and metadata are string handling.

What is left, in order:

1. `Pool`: `Routing` with `Refresh` in one specification, for what needs a clock in both (a
   reading that predates the 429 it is meant to answer; `HoldIsAFloor` has it without the queue).
2. `ConfigSync` and `Routing` joined by proof: that the sync `Routing` takes for granted is one of those
   `ConfigSync` allows.

## 6. Running

In this directory: `tlc -config MCRoutingReload.cfg MCRouting` checks a run (module and
configuration of each are in `PROJECT.json`; the longest takes a few minutes), and
`tlapm RefreshProofs.tla` checks the proofs of a module.
