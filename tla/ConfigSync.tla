----------------------------- MODULE ConfigSync -----------------------------
(***************************************************************************)
(* How config.yaml reaches the credential table (internal/service/service.go *)
(* syncConfigFile, poller.go pollLoop and sweep).  Two kinds of goroutine    *)
(* sync: the poll loop, every 30 seconds and only when the file's stamp has  *)
(* changed, and one that each plugin.reconfigure starts, always.  They meet  *)
(* at fileMu; the plugin's own configuration is read outside of it.  The     *)
(* poll loop also prunes credentials, without fileMu.                       *)
(*                                                                         *)
(* What a sync and a prune do to bindings and refreshes is in Routing and    *)
(* Refresh.                                                                 *)
(***************************************************************************)
EXTENDS Integers

CONSTANTS Token,       \* credentials that may be configured
          Loop,        \* the goroutine of the poll loop; first, of Register
          Async,       \* bound: reconfigure syncs that may run at once
          Contents,    \* what config.yaml may list
          Configs,     \* configurations the host may hand to the plugin
          MaxChanges   \* bound: changes of the file or the configuration

(* The plugin's configuration: is config_path set, and the tokens of which   *)
(* providers base_url_prefix matches.                                       *)
PluginConfig == [path : BOOLEAN, prefix : SUBSET Token]

ASSUME LoopAssumption == Loop \notin Async
ASSUME ContentsAssumption == Contents \subseteq SUBSET Token
ASSUME ConfigsAssumption == Configs \subseteq PluginConfig
ASSUME MaxChangesAssumption == MaxChanges \in Nat

VARIABLES file,        \* config.yaml
          changes,     \* bound: how often file or cfg changed
          cfg,         \* Service.cfg
          tracked,     \* the tokens of Service.registry
          lost,        \* those seen long ago with enough failed fetches
          lastStat,    \* Service.lastStat, Invalid before the first table
          healthy,     \* Service.configHealthy
          published,   \* the configuration Service.settings came from
          run,         \* what each goroutine is doing
          view,        \* history: configuration and file version the table shows
          pruned,      \* history: tokens the sweep removed since then
          written      \* history: what each version of config.yaml listed

registryVars  == <<tracked, lost, view, pruned>>
ConfigSyncVars == <<file, changes, cfg, tracked, lost, lastStat, healthy, published, run,
                    view, pruned, written>>

Goroutine == {Loop} \cup Async

(* A stamp stands for modification time and size: two writes differ in it.   *)
Invalid == 0
Stamps  == 0..(MaxChanges + 1)
File == [access : {"readable", "denied", "missing"}, parses : BOOLEAN,
         lists : SUBSET Token, stamp : Stamps]

Loads == file.access = "readable" /\ file.parses

(* The steps of syncConfigFile, in order, and those of sweep.                *)
Critical  == {"stat", "load", "table", "forget", "resolve", "publish"}
SyncStep  == {"start", "path", "lock"} \cup Critical
SweepStep == {"remove", "drop"}

(* "version" is history: the stamp the file had when it was read.            *)
Working == [step : {"idle"} \cup SyncStep \cup SweepStep, forced : BOOLEAN,
            cfg : PluginConfig, stamp : Stamps, listed : SUBSET Token, version : Stamps,
            gone : SUBSET Token]

Unread == [path |-> FALSE, prefix |-> {}]
Idle == [step |-> "idle", forced |-> FALSE, cfg |-> Unread, stamp |-> Invalid,
         listed |-> {}, version |-> Invalid, gone |-> {}]
Starting(forced) == [Idle EXCEPT !.step = "start", !.forced = forced]

-----------------------------------------------------------------------------
(* Register has applied a configuration and is about to run the first sync.  *)
(* The poll loop starts when that sync returns, so one goroutine does both.  *)
ConfigSyncInit ==
    /\ \E lists \in Contents :
          file = [access |-> "readable", parses |-> TRUE, lists |-> lists, stamp |-> 1]
    /\ changes = 0
    /\ cfg \in Configs
    /\ tracked = {} /\ lost = {}
    /\ lastStat = Invalid
    /\ healthy = FALSE
    /\ published = Unread
    /\ run = [g \in Goroutine |-> IF g = Loop THEN Starting(TRUE) ELSE Idle]
    /\ view = [cfg |-> Unread, version |-> Invalid, overtaken |-> FALSE]
    /\ pruned = {}
    /\ written = [version \in {file.stamp} |-> file.lists]

At(g, step) == run[g].step = step
Goes(g, step) == run' = [run EXCEPT ![g].step = step]
Ends(g) == run' = [run EXCEPT ![g] = Idle]

(* fileMu is held from the lock to the deferred unlock.                      *)
Holds(g) == run[g].step \in Critical

-----------------------------------------------------------------------------
(* syncConfigFile                                                           *)

ReadConfig(g) ==
    /\ At(g, "start")
    /\ run' = [run EXCEPT ![g].step = "path", ![g].cfg = cfg]
    /\ UNCHANGED <<lastStat, healthy, published, registryVars>>

(* Without a config_path nothing can be read: unhealthy, and no lock taken.  *)
CheckPath(g) ==
    /\ At(g, "path")
    /\ IF run[g].cfg.path
         THEN Goes(g, "lock") /\ UNCHANGED healthy
         ELSE Ends(g) /\ healthy' = FALSE
    /\ UNCHANGED <<lastStat, published, registryVars>>

(* Mutant of Lock: no fileMu.                                               *)
LockFreely(g) ==
    /\ At(g, "lock")
    /\ Goes(g, "stat")
    /\ UNCHANGED <<lastStat, healthy, published, registryVars>>

Lock(g) ==
    /\ At(g, "lock")
    /\ \A other \in Goroutine : ~Holds(other)
    /\ Goes(g, "stat")
    /\ UNCHANGED <<lastStat, healthy, published, registryVars>>

(* Mutant of UpToDate: the stamp counts for forced syncs too.                *)
UpToDateForced(g) == lastStat # Invalid /\ lastStat = file.stamp

(* Mutant of UpToDate: any earlier success will do.                          *)
UpToDateOnce(g) == ~run[g].forced /\ lastStat # Invalid

UpToDate(g) == ~run[g].forced /\ lastStat # Invalid /\ lastStat = file.stamp

(* Mutant of Stat: a missing file is taken for an unchanged one.             *)
StatIgnoresMissing(g) ==
    /\ At(g, "stat")
    /\ UNCHANGED healthy
    /\ IF file.access = "missing" \/ UpToDate(g)
         THEN Ends(g)
         ELSE run' = [run EXCEPT ![g].step = "load", ![g].stamp = file.stamp]
    /\ UNCHANGED <<lastStat, published, registryVars>>

(* A file that is there and unchanged ends an unforced sync, and leaves      *)
(* healthy as it is.                                                        *)
Stat(g) ==
    /\ At(g, "stat")
    /\ \/ /\ file.access = "missing"
          /\ healthy' = FALSE
          /\ Ends(g)
       \/ /\ file.access # "missing"
          /\ UpToDate(g)
          /\ Ends(g)
          /\ UNCHANGED healthy
       \/ /\ file.access # "missing"
          /\ ~UpToDate(g)
          /\ run' = [run EXCEPT ![g].step = "load", ![g].stamp = file.stamp]
          /\ UNCHANGED healthy
    /\ UNCHANGED <<lastStat, published, registryVars>>

(* LoadKeys reads the file as it is now, with the configuration read before  *)
(* the lock.                                                                *)
Load(g) ==
    /\ At(g, "load")
    /\ IF Loads
         THEN /\ run' = [run EXCEPT ![g].step = "table",
                                    ![g].listed = file.lists \cap run[g].cfg.prefix,
                                    ![g].version = file.stamp]
              /\ UNCHANGED healthy
         ELSE Ends(g) /\ healthy' = FALSE
    /\ UNCHANGED <<lastStat, published, registryVars>>

(* Mutant of Table: the stamp is taken after the file was read.              *)
TableStampsLate(g) ==
    /\ At(g, "table")
    /\ tracked' = run[g].listed
    /\ lost' = lost \cap run[g].listed
    /\ lastStat' = file.stamp
    /\ healthy' = TRUE
    /\ view' = [cfg |-> run[g].cfg, version |-> run[g].version, overtaken |-> run[g].cfg # cfg]
    /\ pruned' = {}
    /\ run' = [run EXCEPT ![g].step = "forget", ![g].gone = tracked \ run[g].listed]
    /\ UNCHANGED published

(* Mutant of Table: a credential that left keeps its failed fetches.         *)
TableKeepsLost(g) ==
    /\ At(g, "table")
    /\ tracked' = run[g].listed
    /\ UNCHANGED <<lost, published>>
    /\ lastStat' = run[g].stamp
    /\ healthy' = TRUE
    /\ view' = [cfg |-> run[g].cfg, version |-> run[g].version, overtaken |-> run[g].cfg # cfg]
    /\ pruned' = {}
    /\ run' = [run EXCEPT ![g].step = "forget", ![g].gone = tracked \ run[g].listed]

(* Mutant of Table: what is listed is added, and nothing leaves.             *)
TableMerges(g) ==
    /\ At(g, "table")
    /\ tracked' = tracked \cup run[g].listed
    /\ UNCHANGED <<lost, published>>
    /\ lastStat' = run[g].stamp
    /\ healthy' = TRUE
    /\ view' = [cfg |-> run[g].cfg, version |-> run[g].version, overtaken |-> run[g].cfg # cfg]
    /\ pruned' = {}
    /\ run' = [run EXCEPT ![g].step = "forget", ![g].gone = {}]

(* Registry.Sync, lastStat and configHealthy.  A token that stays keeps its  *)
(* history, a new one starts fresh.                                         *)
Table(g) ==
    /\ At(g, "table")
    /\ tracked' = run[g].listed
    /\ lost' = lost \cap run[g].listed
    /\ lastStat' = run[g].stamp
    /\ healthy' = TRUE
    /\ view' = [cfg |-> run[g].cfg, version |-> run[g].version, overtaken |-> run[g].cfg # cfg]
    /\ pruned' = {}
    /\ run' = [run EXCEPT ![g].step = "forget", ![g].gone = tracked \ run[g].listed]
    /\ UNCHANGED published

(* forgetCredential for each token that left.                               *)
Forget(g) ==
    /\ At(g, "forget")
    /\ run' = [run EXCEPT ![g].step = "resolve", ![g].gone = {}]
    /\ UNCHANGED <<lastStat, healthy, published, registryVars>>

(* Mutant of Resolve: with the configuration the sync started with.          *)
ResolveFromStart(g) ==
    /\ At(g, "resolve")
    /\ Goes(g, "publish")
    /\ UNCHANGED <<lastStat, healthy, published, registryVars>>

(* rebuildSettings reads the configuration again.                           *)
Resolve(g) ==
    /\ At(g, "resolve")
    /\ run' = [run EXCEPT ![g].step = "publish", ![g].cfg = cfg]
    /\ UNCHANGED <<lastStat, healthy, published, registryVars>>

Publish(g) ==
    /\ At(g, "publish")
    /\ published' = run[g].cfg
    /\ Ends(g)
    /\ UNCHANGED <<lastStat, healthy, registryVars>>

-----------------------------------------------------------------------------
(* sweep: a snapshot, then each lost token is removed and forgotten without  *)
(* another look at it.                                                      *)
Remove ==
    /\ At(Loop, "remove")
    /\ \E t \in run[Loop].gone :
          /\ tracked' = tracked \ {t}
          /\ lost' = lost \ {t}
          /\ pruned' = pruned \cup (tracked \cap {t})
          /\ run' = [run EXCEPT ![Loop].step = "drop", ![Loop].listed = {t}]
    /\ UNCHANGED <<lastStat, healthy, published, view>>

(* forgetCredential of the pruned one: its marks and throttles are in        *)
(* Refresh, its bindings in Routing, each against a sync that lists it anew. *)
Drop ==
    /\ At(Loop, "drop")
    /\ LET rest == run[Loop].gone \ run[Loop].listed
       IN  run' = [run EXCEPT ![Loop] = IF rest = {} THEN Idle
                                        ELSE [Idle EXCEPT !.step = "remove", !.gone = rest]]
    /\ UNCHANGED <<lastStat, healthy, published, registryVars>>

(* The poll loop's select.                                                  *)
ConfigTick ==
    /\ At(Loop, "idle")
    /\ run' = [run EXCEPT ![Loop] = Starting(FALSE)]
    /\ UNCHANGED <<lastStat, healthy, published, registryVars>>

PollTick ==
    /\ At(Loop, "idle") /\ lost # {}
    /\ run' = [run EXCEPT ![Loop] = [Idle EXCEPT !.step = "remove", !.gone = lost]]
    /\ UNCHANGED <<lastStat, healthy, published, registryVars>>

-----------------------------------------------------------------------------
(* A candidate is offered, or time and failed fetches make it fit to prune.  *)
Seen(t) == t \in lost /\ lost' = lost \ {t}
Lose(t) == t \in tracked \ lost /\ lost' = lost \cup {t}

(* plugin.reconfigure stores the configuration and starts a sync.  The host  *)
(* sends it after plugin.register has returned.                             *)
Reconfigure(new, a) ==
    /\ changes < MaxChanges
    /\ ~run[Loop].forced
    /\ At(a, "idle")
    /\ cfg' = new
    /\ run' = [run EXCEPT ![a] = Starting(TRUE)]
    /\ changes' = changes + 1

(* Somebody writes config.yaml, perhaps only half of it.                     *)
WriteFile ==
    /\ changes < MaxChanges
    /\ changes' = changes + 1
    /\ \E parses \in BOOLEAN, lists \in Contents :
          /\ file' = [access |-> "readable", parses |-> parses, lists |-> lists,
                      stamp |-> changes + 2]
          /\ written' = [version \in DOMAIN written \cup {changes + 2} |->
                            IF version = changes + 2 THEN lists ELSE written[version]]

(* It is moved away or made unreadable, and comes back as it was.            *)
DisturbFile ==
    /\ changes < MaxChanges
    /\ changes' = changes + 1
    /\ \E access \in {"readable", "denied", "missing"} \ {file.access} :
          file' = [file EXCEPT !.access = access]
    /\ UNCHANGED written

Advance(g) ==
    /\ \/ ReadConfig(g) \/ CheckPath(g) \/ Stat(g) \/ Load(g) \/ Table(g)
       \/ Forget(g) \/ Resolve(g) \/ Publish(g)
       \/ g = Loop /\ (Remove \/ Drop)
    /\ UNCHANGED <<file, written, changes, cfg>>

Acquire(g) == Lock(g) /\ UNCHANGED <<file, written, changes, cfg>>

Watch == ConfigTick /\ UNCHANGED <<file, written, changes, cfg>>
Prune == PollTick /\ UNCHANGED <<file, written, changes, cfg>>

Fate(t) ==
    /\ Seen(t) \/ Lose(t)
    /\ UNCHANGED <<file, written, changes, cfg, tracked, lastStat, healthy, published, run, view, pruned>>

Outside ==
    \/ /\ \E new \in Configs, a \in Async : Reconfigure(new, a)
       /\ UNCHANGED <<file, written, lastStat, healthy, published, registryVars>>
    \/ /\ WriteFile \/ DisturbFile
       /\ UNCHANGED <<cfg, lastStat, healthy, published, run, registryVars>>

ConfigSyncNext ==
    \/ \E g \in Goroutine : Advance(g) \/ Acquire(g)
    \/ Watch
    \/ Prune
    \/ \E t \in Token : Fate(t)
    \/ Outside

ConfigSyncSpec == ConfigSyncInit /\ [][ConfigSyncNext]_ConfigSyncVars

(* Fairness.  A goroutine that can run does.  A mutex is only free now and   *)
(* then, and Go hands it to a waiter that starves: strong fairness.  The     *)
(* loop's select picks among the ready tickers at random, so the config      *)
(* ticker is served again and again however often the other one is.         *)
FairConfigSyncSpec ==
    /\ ConfigSyncSpec
    /\ \A g \in Goroutine : WF_ConfigSyncVars(Advance(g)) /\ SF_ConfigSyncVars(Acquire(g))
    /\ SF_ConfigSyncVars(Watch)

-----------------------------------------------------------------------------
(* The type invariant of the sync machinery.                                *)
ConfigSyncTypeOK ==
    /\ file \in File
    /\ changes \in 0..MaxChanges
    /\ cfg \in PluginConfig
    /\ tracked \subseteq Token
    /\ lost \subseteq tracked
    /\ lastStat \in Stamps
    /\ healthy \in BOOLEAN
    /\ published \in PluginConfig
    /\ run \in [Goroutine -> Working]
    /\ view \in [cfg : PluginConfig, version : Stamps, overtaken : BOOLEAN]
    /\ pruned \subseteq Token
    /\ DOMAIN written \subseteq Stamps /\ written \in [DOMAIN written -> SUBSET Token]

(* A remembered stamp is never newer than the table: while it equals the     *)
(* file's, which makes every poll skip the file, the table lists what the    *)
(* file lists under the prefix it was read with, less what the sweep pruned. *)
(* A stamp taken after the read could skip a write for good                 *)
(* (service.go:323-350; pruned tokens are not listed again, poller.go:183).  *)
NoLostUpdate ==
    lastStat = file.stamp => tracked \cup pruned = file.lists \cap view.cfg.prefix

(* The credentials a sync is about to forget are not in the table: no other  *)
(* sync re-adds them meanwhile, which would cost a live credential its       *)
(* bindings and marks (service.go:319-320, 349-356).                        *)
SyncForgetsTheGone ==
    \A g \in Goroutine : At(g, "forget") => run[g].gone \cap tracked = {}

(* The table shows config.yaml as it was at some moment.                     *)
Mirror == INSTANCE ConfigMirror WITH Prefixes <- {config.prefix : config \in Configs},
                                     contents <- written, shown <- view.version,
                                     table <- tracked

(* However syncs, writes, reconfigurations and prunes overlap: whenever the  *)
(* table gains a credential or loses more than a pruned one, it becomes      *)
(* exactly what one version of the file lists under a configured prefix, and *)
(* that version is no earlier than the one it showed; so no mixture of two   *)
(* versions, no older one, and no half of one (service.go:320-350,           *)
(* poller.go:175-188).                                                      *)
ImplementsMirror == Mirror!MirrorSpec

(* A sync that will still publish the current configuration.                 *)
WillPublish ==
    \E g \in Goroutine : \/ run[g].forced /\ At(g, "start")
                         \/ run[g].forced /\ run[g].step \in SyncStep /\ run[g].cfg = cfg
                         \/ run[g].step \in {"forget", "resolve"}
                         \/ At(g, "publish") /\ run[g].cfg = cfg

(* However syncs overlap, the settings that picks route by end up with the   *)
(* configuration the host sent last: a sync that waited for the lock does    *)
(* not bring an older one back (service.go:362, 408).                       *)
SettingsFollow == published = cfg \/ WillPublish \/ ~healthy

(* A sync that will still read the table with the current configuration.     *)
WillRead ==
    \E g \in Goroutine :
        /\ run[g].forced
        /\ \/ At(g, "start")
           \/ run[g].step \in {"path", "lock", "stat", "load", "table"} /\ run[g].cfg = cfg

(* The table's own prefix is only as good when syncs do not overtake each    *)
(* other: it is read before the lock (service.go:314), and a sync that was   *)
(* overtaken by a reconfiguration while it waited brings its older prefix.   *)
(* By no other way does the table stay behind the configuration.            *)
OnlyOvertakingStaysBehind ==
    view.cfg = cfg \/ view.overtaken \/ WillRead \/ ~healthy

(* The 30 s watch is a safety net: once the file stays put and readable, its *)
(* content reaches the table although no reconfigure announces it           *)
(* (poller.go:64-69, 84-85).                                                *)
ChangeIsRead == []<>(lastStat = file.stamp \/ ~Loads \/ ~cfg.path)

(* And once it stays away, routing is refused, with no reconfigure to say so *)
(* (service.go:323-331).                                                    *)
LossIsNoticed == []<>(~healthy \/ file.access # "missing" \/ ~cfg.path)

(* "configHealthy is ... false again whenever the most recent attempt        *)
(* failed" (service.go:50-51): a file that can be read again, and stays so,  *)
(* is healthy again after the next watch of a well-configured plugin.       *)
HealthReturns == []<>(healthy \/ ~Loads \/ ~cfg.path)
=============================================================================
