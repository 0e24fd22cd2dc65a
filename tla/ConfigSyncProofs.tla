-------------------------- MODULE ConfigSyncProofs ---------------------------
(***************************************************************************)
(* The config sync, for any number of overlapping syncs, any credentials,    *)
(* and any file contents and configurations.                                *)
(***************************************************************************)
EXTENDS ConfigSync, TLAPS

Step == {"idle"} \cup SyncStep \cup SweepStep

(* One goroutine is inside of fileMu at a time.                              *)
MutualExclusion == \A g, h \in Goroutine : Holds(g) /\ Holds(h) => g = h

(* Nothing is newer than the file.                                          *)
StampsLag ==
    /\ file.stamp \in 1..(changes + 1)
    /\ lastStat <= file.stamp
    /\ view.version <= file.stamp
    /\ \A g \in Goroutine : run[g].stamp <= file.stamp /\ run[g].version <= file.stamp

(* What a sync is about to put into the table is no older than what is there,*)
(* and it is the file's content unless the file has changed since the stamp. *)
ReadingsFit ==
    \A g \in Goroutine :
        At(g, "table") =>
            /\ run[g].version >= view.version
            /\ run[g].stamp = file.stamp => run[g].listed = file.lists \cap run[g].cfg.prefix

(* Every version of the file is on record, the newest one last, and what a   *)
(* sync is about to put into the table is what the version it read lists     *)
(* under a configured prefix.                                               *)
HistoryFits ==
    /\ file.stamp \in DOMAIN written /\ written[file.stamp] = file.lists
    /\ \A version \in DOMAIN written : version <= file.stamp
    /\ cfg \in Configs
    /\ \A g \in Goroutine :
          /\ run[g].step \in {"path", "lock", "stat", "load", "table"} => run[g].cfg \in Configs
          /\ At(g, "table") =>
                /\ run[g].version \in DOMAIN written
                /\ run[g].listed = written[run[g].version] \cap run[g].cfg.prefix

MirrorInv == MutualExclusion /\ StampsLag /\ ReadingsFit /\ NoLostUpdate /\ SyncForgetsTheGone

(* A sync with the current configuration that has not taken the lock yet.    *)
Coming ==
    \E g \in Goroutine : /\ run[g].forced
                         /\ \/ At(g, "start")
                            \/ run[g].step \in {"path", "lock"} /\ run[g].cfg = cfg

(* Settings of an older configuration are never the last to be published.    *)
PublishersBehind ==
    \A g \in Goroutine : At(g, "publish") => run[g].cfg = cfg \/ Coming \/ ~healthy

FollowInv == PublishersBehind /\ SettingsFollow /\ OnlyOvertakingStaysBehind

ConfigSyncInv == ConfigSyncTypeOK /\ HistoryFits /\ MirrorInv /\ FollowInv

-----------------------------------------------------------------------------
(* The steps of syncs and prunes, by name.                                   *)
SyncMove(g) ==
    \/ ReadConfig(g) \/ CheckPath(g) \/ Lock(g) \/ Stat(g) \/ Load(g) \/ Table(g)
    \/ Forget(g) \/ Resolve(g) \/ Publish(g)

SweepMove == Remove \/ Drop \/ ConfigTick \/ PollTick

LEMMA MovesOrNot ==
    ASSUME [ConfigSyncNext]_ConfigSyncVars
    PROVE  \/ \E g \in Goroutine : SyncMove(g) /\ UNCHANGED <<file, written, changes, cfg>>
           \/ SweepMove /\ UNCHANGED <<file, written, changes, cfg>>
           \/ \E t \in Token : Fate(t)
           \/ Outside
           \/ UNCHANGED ConfigSyncVars
BY DEF ConfigSyncNext, Advance, Acquire, Watch, Prune, SyncMove, SweepMove

LEMMA FieldsFit ==
    ASSUME NEW w \in Working
    PROVE  /\ \A s \in Step : [w EXCEPT !.step = s] \in Working
           /\ \A f \in BOOLEAN : [w EXCEPT !.forced = f] \in Working
BY DEF Working, Step

LEMMA IdleWorks ==
    Idle \in Working /\ \A f \in BOOLEAN : Starting(f) \in Working
<1>1. Idle \in Working
  BY MaxChangesAssumption DEF Idle, Working, PluginConfig, Unread, Invalid, Stamps
<1>2. [Idle EXCEPT !.step = "start"] \in Working
  BY <1>1, FieldsFit DEF Step, SyncStep
<1>3. \A f \in BOOLEAN : [[Idle EXCEPT !.step = "start"] EXCEPT !.forced = f] \in Working
  BY <1>2, FieldsFit
<1> QED
  BY <1>1, <1>3 DEF Starting

(* A sync touches no goroutine but its own.                                  *)
LEMMA SyncFrame ==
    ASSUME ConfigSyncTypeOK, NEW g \in Goroutine, SyncMove(g)
    PROVE  run' = [run EXCEPT ![g] = run'[g]]
BY DEF ConfigSyncTypeOK, SyncMove, ReadConfig, CheckPath, Lock, Stat, Load, Table, Forget, Resolve,
       Publish, Goes, Ends

LEMMA SyncTypes ==
    ASSUME ConfigSyncTypeOK, NEW g \in Goroutine, SyncMove(g), UNCHANGED <<file, written, changes, cfg>>
    PROVE  ConfigSyncTypeOK'
<1> USE IdleWorks DEF ConfigSyncTypeOK, Goes, Ends, registryVars
<1>1. run[g] \in Working
  OBVIOUS
<1>2. run'[g] \in Working
  <2> USE <1>1 DEF SyncStep, SweepStep, Critical
  <2>1. CASE ReadConfig(g)
    BY <2>1 DEF ReadConfig, Working
  <2>2. CASE CheckPath(g)
    BY <2>2 DEF CheckPath, Working
  <2>3. CASE Lock(g)
    BY <2>3 DEF Lock, Working
  <2>4. CASE Stat(g)
    BY <2>4 DEF Stat, Working, File
  <2>5. CASE Load(g)
    BY <2>5 DEF Load, Working, File
  <2>6. CASE Table(g)
    BY <2>6 DEF Table, Working
  <2>7. CASE Forget(g)
    BY <2>7 DEF Forget, Working
  <2>8. CASE Resolve(g)
    BY <2>8 DEF Resolve, Working
  <2>9. CASE Publish(g)
    BY <2>9 DEF Publish
  <2> QED
    BY <2>1, <2>2, <2>3, <2>4, <2>5, <2>6, <2>7, <2>8, <2>9 DEF SyncMove
<1>3. run' \in [Goroutine -> Working]
  BY <1>2, SyncFrame
<1>4. CASE Table(g)
  <2>1. /\ tracked' \subseteq Token /\ lost' \subseteq tracked' /\ lastStat' \in Stamps
        /\ view' \in [cfg : PluginConfig, version : Stamps, overtaken : BOOLEAN]
    BY <1>1, <1>4 DEF Table, Working
  <2> QED
    BY <1>3, <1>4, <2>1 DEF Table
<1>5. CASE Publish(g)
  <2>1. published' \in PluginConfig
    BY <1>1, <1>5 DEF Publish, Working
  <2> QED
    BY <1>3, <1>5, <2>1 DEF Publish
<1>6. CASE ~Table(g) /\ ~Publish(g)
  <2>1. /\ UNCHANGED <<lastStat, published, registryVars>>
        /\ healthy' \in BOOLEAN
    BY <1>6 DEF SyncMove, ReadConfig, CheckPath, Lock, Stat, Load, Forget, Resolve
  <2> QED
    BY <1>3, <2>1
<1> QED
  BY <1>4, <1>5, <1>6

LEMMA SweepTypes ==
    ASSUME ConfigSyncTypeOK, SweepMove, UNCHANGED <<file, written, changes, cfg>>
    PROVE  ConfigSyncTypeOK'
<1> USE IdleWorks DEF ConfigSyncTypeOK, registryVars, SweepStep
<1>1. Loop \in Goroutine /\ run[Loop] \in Working
  BY DEF Goroutine
<1>2. CASE Remove
  <2>1. PICK t \in run[Loop].gone :
            /\ tracked' = tracked \ {t} /\ lost' = lost \ {t}
            /\ pruned' = pruned \cup (tracked \cap {t})
            /\ run' = [run EXCEPT ![Loop].step = "drop", ![Loop].listed = {t}]
    BY <1>2 DEF Remove
  <2>2. run' \in [Goroutine -> Working]
    BY <1>1, <2>1 DEF Working
  <2> QED
    BY <1>2, <2>1, <2>2 DEF Remove
<1>3. CASE Drop
  <2>1. run'[Loop] \in Working
    <3>1. \A ts \in SUBSET Token : [Idle EXCEPT !.step = "remove", !.gone = ts] \in Working
      BY DEF Working, Idle
    <3>2. run[Loop].gone \ run[Loop].listed \in SUBSET Token
      BY <1>1 DEF Working
    <3> QED
      BY <1>1, <1>3, <3>1, <3>2 DEF Drop
  <2>2. run' = [run EXCEPT ![Loop] = run'[Loop]]
    BY <1>1, <1>3 DEF Drop
  <2> QED
    BY <1>1, <1>3, <2>1, <2>2 DEF Drop
<1>4. CASE ConfigTick
  <2>1. run' \in [Goroutine -> Working]
    BY <1>1, <1>4 DEF ConfigTick
  <2> QED
    BY <1>4, <2>1 DEF ConfigTick
<1>5. CASE PollTick
  <2>1. [Idle EXCEPT !.step = "remove", !.gone = lost] \in Working
    BY DEF Working, Idle
  <2>2. run' \in [Goroutine -> Working]
    BY <1>1, <1>5, <2>1 DEF PollTick
  <2> QED
    BY <1>5, <2>2 DEF PollTick
<1> QED
  BY <1>2, <1>3, <1>4, <1>5 DEF SweepMove

LEMMA OutsideTypes ==
    ASSUME ConfigSyncTypeOK, (\E t \in Token : Fate(t)) \/ Outside
    PROVE  ConfigSyncTypeOK'
<1> USE IdleWorks, ContentsAssumption, ConfigsAssumption, MaxChangesAssumption
    DEF ConfigSyncTypeOK, registryVars
<1>1. CASE \E t \in Token : Fate(t)
  BY <1>1 DEF Fate, Seen, Lose
<1>2. CASE \E new \in Configs, a \in Async :
             Reconfigure(new, a) /\ UNCHANGED <<file, written, lastStat, healthy, published, registryVars>>
  <2>1. PICK new \in Configs, a \in Async :
            Reconfigure(new, a) /\ UNCHANGED <<file, written, lastStat, healthy, published, registryVars>>
    BY <1>2
  <2>2. run' \in [Goroutine -> Working]
    BY <2>1 DEF Reconfigure, Goroutine
  <2>3. cfg' \in PluginConfig
    BY <2>1 DEF Reconfigure
  <2>4. changes' \in 0..MaxChanges
    BY <2>1 DEF Reconfigure
  <2> QED
    BY <2>1, <2>2, <2>3, <2>4
<1>3. CASE /\ WriteFile \/ DisturbFile
           /\ UNCHANGED <<cfg, lastStat, healthy, published, run, registryVars>>
  <2>1. changes' \in 0..MaxChanges
    BY <1>3 DEF WriteFile, DisturbFile
  <2>2. file' \in File
    BY <1>3 DEF WriteFile, DisturbFile, File, Stamps
  <2>3. DOMAIN written' \subseteq Stamps /\ written' \in [DOMAIN written' -> SUBSET Token]
    <3>1. CASE DisturbFile
      BY <3>1 DEF DisturbFile
    <3>2. CASE WriteFile
      <4>1. changes + 2 \in Stamps
        BY <3>2 DEF WriteFile, Stamps
      <4>2. PICK lists \in Contents :
                written' = [version \in DOMAIN written \cup {changes + 2} |->
                               IF version = changes + 2 THEN lists ELSE written[version]]
        BY <3>2 DEF WriteFile
      <4> QED
        BY <4>1, <4>2
    <3> QED
      BY <1>3, <3>1, <3>2
  <2> QED
    BY <1>3, <2>1, <2>2, <2>3
<1> QED
  BY <1>1, <1>2, <1>3 DEF Outside

-----------------------------------------------------------------------------
(* The mutex: a sync that moves is inside afterwards only if it was, or if   *)
(* it has just taken the lock, with nobody inside.                          *)
LEMMA SyncExcludes ==
    ASSUME ConfigSyncTypeOK, MutualExclusion, NEW g \in Goroutine, SyncMove(g)
    PROVE  MutualExclusion'
<1>1. run' = [run EXCEPT ![g] = run'[g]] /\ DOMAIN run = Goroutine
  BY SyncFrame DEF ConfigSyncTypeOK
<1>2. \A h \in Goroutine : h # g => Holds(h)' = Holds(h)
  BY <1>1 DEF Holds
<1>3. Holds(g)' => Holds(g) \/ \A h \in Goroutine : ~Holds(h)
  <2>1. CASE Lock(g)
    BY <2>1 DEF Lock
  <2>2. CASE ReadConfig(g) \/ CheckPath(g)
    <3>1. run'[g].step \in {"path", "lock", "idle"}
      BY <1>1, <2>2 DEF ReadConfig, CheckPath, Goes, Ends, Idle, ConfigSyncTypeOK, Working
    <3> QED
      BY <3>1 DEF Holds, Critical
  <2>3. CASE Stat(g) \/ Load(g) \/ Table(g) \/ Forget(g) \/ Resolve(g) \/ Publish(g)
    BY <2>3 DEF Stat, Load, Table, Forget, Resolve, Publish, At, Holds, Critical
  <2> QED
    BY <2>1, <2>2, <2>3 DEF SyncMove
<1> QED
  BY <1>2, <1>3 DEF MutualExclusion

LEMMA SyncStamps ==
    ASSUME ConfigSyncTypeOK, StampsLag, NEW g \in Goroutine, SyncMove(g),
           UNCHANGED <<file, written, changes, cfg>>
    PROVE  StampsLag'
<1> USE DEF ConfigSyncTypeOK, StampsLag
<1>1. run' = [run EXCEPT ![g] = run'[g]] /\ run[g] \in Working /\ file.stamp \in Nat
  BY SyncFrame, MaxChangesAssumption DEF File, Stamps
<1>2. run'[g].stamp <= file.stamp /\ run'[g].version <= file.stamp
  <2>1. /\ run'[g].stamp \in {run[g].stamp, file.stamp, 0}
        /\ run'[g].version \in {run[g].version, file.stamp, 0}
    <3> USE <1>1 DEF Goes, Ends, Idle, Invalid, Working
    <3>1. CASE ReadConfig(g) \/ Lock(g) \/ Forget(g) \/ Resolve(g) \/ Table(g)
      BY <3>1 DEF ReadConfig, Lock, Forget, Resolve, Table
    <3>2. CASE CheckPath(g) \/ Publish(g)
      BY <3>2 DEF CheckPath, Publish
    <3>3. CASE Stat(g)
      BY <3>3 DEF Stat
    <3>4. CASE Load(g)
      BY <3>4 DEF Load
    <3> QED
      BY <3>1, <3>2, <3>3, <3>4 DEF SyncMove
  <2> QED
    BY <1>1, <2>1
<1>3. lastStat' <= file.stamp /\ view'.version <= file.stamp
  <2>1. CASE Table(g)
    BY <1>1, <2>1 DEF Table
  <2>2. CASE ~Table(g)
    BY <2>2 DEF SyncMove, ReadConfig, CheckPath, Lock, Stat, Load, Forget, Resolve, Publish, registryVars
  <2> QED
    BY <2>1, <2>2
<1> QED
  BY <1>1, <1>2, <1>3

LEMMA SyncReads ==
    ASSUME ConfigSyncTypeOK, MirrorInv, NEW g \in Goroutine, SyncMove(g),
           UNCHANGED <<file, written, changes, cfg>>
    PROVE  ReadingsFit'
<1> USE DEF ConfigSyncTypeOK, MirrorInv
<1>1. run' = [run EXCEPT ![g] = run'[g]] /\ run[g] \in Working /\ file.stamp \in Nat
      /\ view.version \in Nat
  BY SyncFrame, MaxChangesAssumption DEF File, Stamps
<1>2. ASSUME NEW h \in Goroutine, h # g, At(h, "table")'
      PROVE  At(h, "table") /\ run'[h] = run[h] /\ UNCHANGED view
  <2>1. At(h, "table") /\ run'[h] = run[h]
    BY <1>1, <1>2 DEF At
  <2>2. ~Holds(g)
    BY <1>2, <2>1 DEF MutualExclusion, Holds, At, Critical
  <2> QED
    BY <2>1, <2>2
       DEF Holds, Critical, At, SyncMove, ReadConfig, CheckPath, Lock, Stat, Load, Table, Forget,
           Resolve, Publish, registryVars
<1>3. ASSUME At(g, "table")'
      PROVE  /\ UNCHANGED view
             /\ run'[g].version = file.stamp
             /\ run'[g].listed = file.lists \cap run'[g].cfg.prefix
  BY <1>1, <1>3
     DEF At, SyncMove, ReadConfig, CheckPath, Lock, Stat, Load, Table, Forget, Resolve, Publish,
         Goes, Ends, Idle, registryVars, Working
<1> QED
  BY <1>1, <1>2, <1>3 DEF ReadingsFit, StampsLag

LEMMA SyncMirrors ==
    ASSUME ConfigSyncTypeOK, MirrorInv, NEW g \in Goroutine, SyncMove(g),
           UNCHANGED <<file, written, changes, cfg>>
    PROVE  MirrorInv'
<1> USE DEF ConfigSyncTypeOK, MirrorInv
<1>1. MutualExclusion' /\ StampsLag' /\ ReadingsFit'
  BY SyncExcludes, SyncStamps, SyncReads
<1>2. run' = [run EXCEPT ![g] = run'[g]] /\ run[g] \in Working
  BY SyncFrame
<1>3. CASE Table(g)
  <2>1. /\ At(g, "table") /\ tracked' = run[g].listed /\ lastStat' = run[g].stamp
        /\ view'.cfg = run[g].cfg /\ pruned' = {}
        /\ run'[g].gone = tracked \ run[g].listed
    BY <1>2, <1>3 DEF Table
  <2>2. NoLostUpdate'
    BY <2>1 DEF NoLostUpdate, ReadingsFit
  <2>3. ASSUME NEW h \in Goroutine, At(h, "forget")'
        PROVE  h = g
    <3>1. CASE h # g
      BY <1>2, <2>1, <2>3, <3>1 DEF MutualExclusion, Holds, At, Critical
    <3> QED
      BY <3>1
  <2>4. SyncForgetsTheGone'
    BY <2>1, <2>3 DEF SyncForgetsTheGone
  <2> QED
    BY <1>1, <2>2, <2>4
<1>4. CASE ~Table(g)
  <2>1. UNCHANGED <<tracked, view, pruned, lastStat>>
    BY <1>4 DEF SyncMove, ReadConfig, CheckPath, Lock, Stat, Load, Forget, Resolve, Publish, registryVars
  <2>2. ~At(g, "forget")'
    BY <1>2, <1>4
       DEF At, SyncMove, ReadConfig, CheckPath, Lock, Stat, Load, Forget, Resolve, Publish, Goes,
           Ends, Idle, Working
  <2>3. SyncForgetsTheGone'
    BY <1>2, <2>1, <2>2 DEF SyncForgetsTheGone, At
  <2>4. NoLostUpdate'
    BY <2>1 DEF NoLostUpdate
  <2> QED
    BY <1>1, <2>3, <2>4
<1> QED
  BY <1>3, <1>4

(* The prune only shrinks the table, and writes down what it takes.          *)
LEMMA SweepMirrors ==
    ASSUME ConfigSyncTypeOK, MirrorInv, SweepMove, UNCHANGED <<file, written, changes, cfg>>
    PROVE  MirrorInv'
<1> USE DEF ConfigSyncTypeOK, MirrorInv
<1>1. Loop \in Goroutine /\ run[Loop] \in Working
  BY DEF Goroutine
<1>2. /\ run' = [run EXCEPT ![Loop] = run'[Loop]]
      /\ run'[Loop].step \in {"idle", "start", "remove", "drop"}
      /\ run'[Loop].stamp \in {run[Loop].stamp, Invalid}
      /\ run'[Loop].version \in {run[Loop].version, Invalid}
  <2> USE <1>1
  <2>1. CASE Remove
    <3>1. PICK t : run' = [run EXCEPT ![Loop].step = "drop", ![Loop].listed = {t}]
      BY <2>1 DEF Remove
    <3>2. run' = [run EXCEPT ![Loop] = run'[Loop]]
      BY <3>1
    <3>3. run'[Loop].step = "drop" /\ run'[Loop].stamp = run[Loop].stamp
      BY <3>1 DEF Working
    <3>4. run'[Loop].version = run[Loop].version
      BY <3>1 DEF Working
    <3> QED
      BY <3>2, <3>3, <3>4
  <2>2. CASE Drop
    BY <2>2 DEF Drop, Idle
  <2>3. CASE ConfigTick
    <3>1. /\ Starting(FALSE).step = "start" /\ Starting(FALSE).stamp = Invalid
          /\ Starting(FALSE).version = Invalid
      BY DEF Starting, Idle
    <3> QED
      BY <2>3, <3>1 DEF ConfigTick
  <2>4. CASE PollTick
    BY <2>4 DEF PollTick, Idle
  <2> QED
    BY <2>1, <2>2, <2>3, <2>4 DEF SweepMove
<1>3. /\ UNCHANGED <<lastStat, view>>
      /\ tracked' \subseteq tracked
      /\ tracked' \cup pruned' = tracked \cup pruned
  BY DEF SweepMove, Remove, Drop, ConfigTick, PollTick, registryVars
<1>4. MutualExclusion'
  BY <1>1, <1>2 DEF MutualExclusion, Holds, Critical
<1>5. StampsLag'
  BY <1>1, <1>2, <1>3, MaxChangesAssumption DEF StampsLag, Invalid, File, Stamps
<1>6. ReadingsFit'
  BY <1>1, <1>2, <1>3 DEF ReadingsFit, At
<1>7. NoLostUpdate' /\ SyncForgetsTheGone'
  BY <1>1, <1>2, <1>3 DEF NoLostUpdate, SyncForgetsTheGone, At
<1> QED
  BY <1>4, <1>5, <1>6, <1>7

LEMMA OutsideMirrors ==
    ASSUME ConfigSyncTypeOK, MirrorInv, (\E t \in Token : Fate(t)) \/ Outside
    PROVE  MirrorInv'
<1> USE DEF ConfigSyncTypeOK, MirrorInv
<1>1. CASE \E t \in Token : Fate(t)
  <2>1. UNCHANGED <<file, changes, tracked, lastStat, run, view, pruned>>
    BY <1>1 DEF Fate
  <2> QED
    BY <2>1 DEF MutualExclusion, Holds, StampsLag, ReadingsFit, NoLostUpdate, SyncForgetsTheGone, At
<1>2. CASE \E new \in Configs, a \in Async :
             Reconfigure(new, a) /\ UNCHANGED <<file, written, lastStat, healthy, published, registryVars>>
  <2>1. PICK a \in Async : run' = [run EXCEPT ![a] = Starting(TRUE)]
    BY <1>2 DEF Reconfigure
  <2>2. /\ a \in Goroutine
        /\ run'[a].step = "start" /\ run'[a].stamp = Invalid /\ run'[a].version = Invalid
        /\ \A h \in Goroutine : h # a => run'[h] = run[h]
    BY <2>1 DEF Goroutine, Starting, Idle
  <2>3. UNCHANGED <<file, lastStat, tracked, view, pruned>> /\ changes' = changes + 1
    BY <1>2 DEF Reconfigure, registryVars
  <2>4. MutualExclusion'
    BY <2>2 DEF MutualExclusion, Holds, Critical
  <2>5. StampsLag'
    BY <2>2, <2>3, MaxChangesAssumption DEF StampsLag, Invalid, File, Stamps
  <2>6. ReadingsFit' /\ NoLostUpdate' /\ SyncForgetsTheGone'
    BY <2>2, <2>3 DEF ReadingsFit, NoLostUpdate, SyncForgetsTheGone, At
  <2> QED
    BY <2>4, <2>5, <2>6
<1>3. CASE WriteFile /\ UNCHANGED <<cfg, lastStat, healthy, published, run, registryVars>>
  <2>1. /\ file'.stamp = changes + 2 /\ changes' = changes + 1
        /\ UNCHANGED <<lastStat, run, tracked, view, pruned>>
    BY <1>3 DEF WriteFile, registryVars
  <2>2. /\ changes \in Nat /\ file.stamp \in Nat /\ lastStat \in Nat /\ view.version \in Nat
        /\ \A g \in Goroutine : run[g].stamp \in Nat /\ run[g].version \in Nat
    BY MaxChangesAssumption DEF File, Stamps, Working
  <2>3. StampsLag'
    BY <2>1, <2>2 DEF StampsLag
  <2>4. ReadingsFit' /\ NoLostUpdate'
    BY <2>1, <2>2 DEF ReadingsFit, NoLostUpdate, StampsLag, At
  <2>5. MutualExclusion' /\ SyncForgetsTheGone'
    BY <2>1 DEF MutualExclusion, Holds, SyncForgetsTheGone, At
  <2> QED
    BY <2>3, <2>4, <2>5
<1>4. CASE DisturbFile /\ UNCHANGED <<cfg, lastStat, healthy, published, run, registryVars>>
  <2>1. /\ file'.stamp = file.stamp /\ file'.lists = file.lists /\ changes' = changes + 1
        /\ UNCHANGED <<lastStat, run, tracked, view, pruned>>
    BY <1>4 DEF DisturbFile, registryVars, File
  <2>2. StampsLag'
    BY <2>1, MaxChangesAssumption DEF StampsLag, File, Stamps
  <2>3. ReadingsFit' /\ NoLostUpdate' /\ MutualExclusion' /\ SyncForgetsTheGone'
    BY <2>1 DEF ReadingsFit, NoLostUpdate, MutualExclusion, Holds, SyncForgetsTheGone, At
  <2> QED
    BY <2>2, <2>3
<1> QED
  BY <1>1, <1>2, <1>3, <1>4 DEF Outside

-----------------------------------------------------------------------------
(* What a step of a sync does, without the records: where it comes from and   *)
(* goes to, and what becomes of its configuration.                          *)
Keeps(g, to) == run'[g].step = to /\ run'[g].forced = run[g].forced /\ run'[g].cfg = run[g].cfg

Hop(g) ==
    \/ run[g].step = "start" /\ run'[g].step = "path"
       /\ run'[g].forced = run[g].forced /\ run'[g].cfg = cfg
    \/ run[g].step = "path" /\ Keeps(g, "lock")
    \/ run[g].step = "lock" /\ Keeps(g, "stat") /\ \A h \in Goroutine : ~Holds(h)
    \/ run[g].step = "stat" /\ Keeps(g, "load")
    \/ run[g].step = "stat" /\ ~run[g].forced /\ run'[g].step = "idle"
    \/ run[g].step = "load" /\ Keeps(g, "table")
    \/ run[g].step = "forget" /\ run'[g].step = "resolve"
    \/ run[g].step = "resolve" /\ run'[g].step = "publish" /\ run'[g].cfg = cfg

SyncHop(g) ==
    \/ Hop(g) /\ UNCHANGED <<healthy, published, view>>
    \/ run[g].step \in {"path", "stat", "load"} /\ run'[g].step = "idle" /\ ~healthy'
    \/ /\ run[g].step = "table" /\ run'[g].step = "forget" /\ UNCHANGED published
       /\ view'.cfg = run[g].cfg /\ view'.overtaken = (run[g].cfg # cfg)
    \/ /\ run[g].step = "publish" /\ run'[g].step = "idle"
       /\ published' = run[g].cfg /\ UNCHANGED <<healthy, view>>

LEMMA SyncHops ==
    ASSUME ConfigSyncTypeOK, NEW g \in Goroutine, SyncMove(g)
    PROVE  SyncHop(g)
<1> USE DEF SyncHop, At, Goes, Ends, registryVars
<1>1. run[g] \in Working /\ run \in [Goroutine -> Working] /\ Idle.step = "idle"
  BY DEF ConfigSyncTypeOK, Idle
<1>2. CASE ReadConfig(g)
  <2>1. run'[g].step = "path" /\ run'[g].cfg = cfg /\ run'[g].forced = run[g].forced
    BY <1>1, <1>2 DEF ReadConfig, Working
  <2> QED
    BY <1>2, <2>1 DEF ReadConfig, Hop
<1>3. CASE CheckPath(g)
  <2>1. CASE run[g].cfg.path
    <3>1. Keeps(g, "lock")
      BY <1>1, <1>3, <2>1 DEF CheckPath, Keeps, Working
    <3> QED
      BY <1>3, <2>1, <3>1 DEF CheckPath, Hop
  <2>2. CASE ~run[g].cfg.path
    BY <1>1, <1>3, <2>2 DEF CheckPath
  <2> QED
    BY <2>1, <2>2
<1>4. CASE Lock(g)
  <2>1. Keeps(g, "stat")
    BY <1>1, <1>4 DEF Lock, Keeps, Working
  <2> QED
    BY <1>4, <2>1 DEF Lock, Hop
<1>5. CASE Stat(g)
  <2>1. CASE file.access = "missing"
    BY <1>1, <1>5, <2>1 DEF Stat
  <2>2. CASE file.access # "missing" /\ UpToDate(g)
    <3>1. run'[g].step = "idle" /\ ~run[g].forced
      BY <1>1, <1>5, <2>2 DEF Stat, UpToDate
    <3> QED
      BY <1>5, <2>2, <3>1 DEF Stat, Hop
  <2>3. CASE file.access # "missing" /\ ~UpToDate(g)
    <3>1. Keeps(g, "load")
      BY <1>1, <1>5, <2>3 DEF Stat, Keeps, Working
    <3> QED
      BY <1>5, <2>3, <3>1 DEF Stat, Hop
  <2> QED
    BY <2>1, <2>2, <2>3
<1>6. CASE Load(g)
  <2>1. CASE Loads
    <3>1. Keeps(g, "table")
      BY <1>1, <1>6, <2>1 DEF Load, Keeps, Working
    <3> QED
      BY <1>6, <2>1, <3>1 DEF Load, Hop
  <2>2. CASE ~Loads
    BY <1>1, <1>6, <2>2 DEF Load
  <2> QED
    BY <2>1, <2>2
<1>7. CASE Table(g)
  <2>1. run'[g].step = "forget"
    BY <1>1, <1>7 DEF Table, Working
  <2> QED
    BY <1>7, <2>1 DEF Table
<1>8. CASE Forget(g)
  <2>1. run'[g].step = "resolve"
    BY <1>1, <1>8 DEF Forget, Working
  <2> QED
    BY <1>8, <2>1 DEF Forget, Hop
<1>9. CASE Resolve(g)
  <2>1. run'[g].step = "publish" /\ run'[g].cfg = cfg
    BY <1>1, <1>9 DEF Resolve, Working
  <2> QED
    BY <1>9, <2>1 DEF Resolve, Hop
<1>10. CASE Publish(g)
  BY <1>1, <1>10 DEF Publish
<1> QED
  BY <1>2, <1>3, <1>4, <1>5, <1>6, <1>7, <1>8, <1>9, <1>10 DEF SyncMove

(* A forced sync that has, or will have, the current configuration gets on   *)
(* to the table with it, unless it finds that nothing can be read.           *)
Bound(g) ==
    /\ run[g].forced
    /\ \/ At(g, "start")
       \/ run[g].step \in {"path", "lock", "stat", "load", "table"} /\ run[g].cfg = cfg

LEMMA ForcedGoesOn ==
    ASSUME NEW g \in Goroutine, SyncHop(g), cfg' = cfg, Bound(g), run[g].step # "table", healthy'
    PROVE  Bound(g)'
BY DEF SyncHop, Hop, Keeps, Bound, At

LEMMA SyncPublishes ==
    ASSUME ConfigSyncTypeOK, MutualExclusion, PublishersBehind, NEW g \in Goroutine, SyncMove(g),
           UNCHANGED <<file, written, changes, cfg>>
    PROVE  PublishersBehind'
<1>1. run' = [run EXCEPT ![g] = run'[g]] /\ DOMAIN run = Goroutine /\ SyncHop(g)
  BY SyncFrame, SyncHops DEF ConfigSyncTypeOK
<1>2. SUFFICES ASSUME NEW h \in Goroutine, At(h, "publish")', run'[h].cfg # cfg, healthy'
               PROVE  Coming'
  BY DEF PublishersBehind
<1>3. h # g
  BY <1>1, <1>2 DEF SyncHop, Hop, Keeps, At
<1>4. At(h, "publish") /\ run[h].cfg # cfg /\ Holds(h)
  BY <1>1, <1>2, <1>3 DEF At, Holds, Critical
<1>5. ~Holds(g)
  BY <1>3, <1>4 DEF MutualExclusion
<1>6. run[g].step \in {"start", "path"} /\ healthy' = healthy
      /\ run'[g].step \in {"path", "lock"} /\ run'[g].forced = run[g].forced
      /\ (run'[g].cfg = cfg \/ (run'[g].cfg = run[g].cfg /\ run[g].step = "path"))
  BY <1>1, <1>2, <1>4, <1>5 DEF SyncHop, Hop, Keeps, Holds, Critical
<1>7. PICK w \in Goroutine :
          /\ run[w].forced
          /\ At(w, "start") \/ (run[w].step \in {"path", "lock"} /\ run[w].cfg = cfg)
  BY <1>2, <1>4, <1>6 DEF PublishersBehind, Coming
<1>8. CASE w # g
  <2>1. run'[w] = run[w]
    BY <1>1, <1>8
  <2> QED
    BY <1>7, <2>1 DEF Coming, At
<1>9. CASE w = g
  <2>1. run'[g].forced /\ run'[g].step \in {"path", "lock"} /\ run'[g].cfg = cfg
    BY <1>6, <1>7, <1>9 DEF At
  <2> QED
    BY <2>1 DEF Coming
<1> QED
  BY <1>8, <1>9

LEMMA SyncSettles ==
    ASSUME ConfigSyncTypeOK, PublishersBehind, SettingsFollow, NEW g \in Goroutine, SyncMove(g),
           UNCHANGED <<file, written, changes, cfg>>
    PROVE  SettingsFollow'
<1>1. run' = [run EXCEPT ![g] = run'[g]] /\ DOMAIN run = Goroutine /\ SyncHop(g)
  BY SyncFrame, SyncHops DEF ConfigSyncTypeOK
<1>2. SUFFICES ASSUME healthy', published' # cfg
               PROVE  WillPublish'
  BY DEF SettingsFollow
<1>3. CASE run[g].step \in {"table", "forget", "resolve"}
  <2>1. run'[g].step \in {"forget", "resolve"} \/ (run'[g].step = "publish" /\ run'[g].cfg = cfg)
    BY <1>1, <1>3 DEF SyncHop, Hop, Keeps
  <2> QED
    BY <2>1 DEF WillPublish, At
<1>4. CASE run[g].step = "publish"
  <2>1. published' = run[g].cfg /\ healthy
    BY <1>1, <1>2, <1>4 DEF SyncHop, Hop
  <2>2. PICK w \in Goroutine :
            /\ run[w].forced
            /\ At(w, "start") \/ (run[w].step \in {"path", "lock"} /\ run[w].cfg = cfg)
    BY <1>2, <1>4, <2>1 DEF PublishersBehind, Coming, At
  <2>3. run'[w] = run[w]
    BY <1>1, <1>4, <2>2 DEF At
  <2> QED
    BY <2>2, <2>3 DEF WillPublish, At, SyncStep
<1>5. CASE run[g].step \notin {"table", "forget", "resolve", "publish"}
  <2>1. published' = published /\ healthy
        /\ run[g].step \in {"start", "path", "lock", "stat", "load"}
    BY <1>1, <1>2, <1>5 DEF SyncHop, Hop
  <2>2. PICK w \in Goroutine : \/ run[w].forced /\ At(w, "start")
                               \/ run[w].forced /\ run[w].step \in SyncStep /\ run[w].cfg = cfg
                               \/ run[w].step \in {"forget", "resolve"}
                               \/ At(w, "publish") /\ run[w].cfg = cfg
    BY <1>2, <2>1 DEF SettingsFollow, WillPublish
  <2>3. CASE w # g
    <3>1. run'[w] = run[w]
      BY <1>1, <2>3
    <3> QED
      BY <2>2, <3>1 DEF WillPublish, At
  <2>4. CASE w = g
    <3>1. Bound(g)
      BY <2>1, <2>2, <2>4 DEF Bound, At
    <3>2. Bound(g)'
      BY <1>1, <1>2, <1>5, <3>1, ForcedGoesOn
    <3> QED
      BY <3>2 DEF Bound, WillPublish, SyncStep, Critical, At
  <2> QED
    BY <2>3, <2>4
<1> QED
  BY <1>3, <1>4, <1>5

LEMMA SyncCatchesUp ==
    ASSUME ConfigSyncTypeOK, OnlyOvertakingStaysBehind, NEW g \in Goroutine, SyncMove(g),
           UNCHANGED <<file, written, changes, cfg>>
    PROVE  OnlyOvertakingStaysBehind'
<1>1. run' = [run EXCEPT ![g] = run'[g]] /\ DOMAIN run = Goroutine /\ SyncHop(g)
  BY SyncFrame, SyncHops DEF ConfigSyncTypeOK
<1>2. SUFFICES ASSUME healthy', view'.cfg # cfg, ~view'.overtaken
               PROVE  WillRead'
  BY DEF OnlyOvertakingStaysBehind
<1>3. view' = view /\ healthy /\ run[g].step # "table"
  BY <1>1, <1>2 DEF SyncHop, Hop
<1>4. PICK w \in Goroutine : Bound(w)
  BY <1>2, <1>3 DEF OnlyOvertakingStaysBehind, WillRead, Bound
<1>5. CASE w # g
  <2>1. run'[w] = run[w]
    BY <1>1, <1>5
  <2> QED
    BY <1>4, <2>1 DEF WillRead, Bound, At
<1>6. CASE w = g
  <2>1. Bound(g)'
    BY <1>1, <1>2, <1>3, <1>4, <1>6, ForcedGoesOn
  <2> QED
    BY <2>1 DEF WillRead, Bound
<1> QED
  BY <1>5, <1>6

LEMMA SyncFollows ==
    ASSUME ConfigSyncTypeOK, MutualExclusion, FollowInv, NEW g \in Goroutine, SyncMove(g),
           UNCHANGED <<file, written, changes, cfg>>
    PROVE  FollowInv'
BY SyncPublishes, SyncSettles, SyncCatchesUp DEF FollowInv

(* The poll loop moves on its own only when it is not in a sync: what the    *)
(* other goroutines are about to do stays.                                  *)
LEMMA SweepFollows ==
    ASSUME ConfigSyncTypeOK, FollowInv, SweepMove, UNCHANGED <<file, written, changes, cfg>>
    PROVE  FollowInv'
<1>1. DOMAIN run = Goroutine /\ Loop \in Goroutine
  BY DEF ConfigSyncTypeOK, Goroutine
<1>2. /\ run[Loop].step \in {"idle", "remove", "drop"}
      /\ UNCHANGED <<healthy, published, view, cfg>>
      /\ \A h \in Goroutine : h # Loop => run'[h] = run[h]
  BY <1>1 DEF SweepMove, Remove, Drop, ConfigTick, PollTick, At, registryVars
<1>3. run'[Loop].step \in {"idle", "start", "remove", "drop"}
  <2>1. run[Loop] \in Working /\ Starting(FALSE).step = "start"
    BY <1>1 DEF ConfigSyncTypeOK, Starting, Idle
  <2>2. CASE Remove
    BY <1>1, <2>1, <2>2 DEF Remove, Working
  <2>3. CASE ConfigTick
    BY <1>1, <2>1, <2>3 DEF ConfigTick
  <2>4. CASE PollTick
    BY <1>1, <2>4 DEF PollTick, Idle
  <2>5. CASE Drop
    BY <1>1, <2>5 DEF Drop, Idle
  <2> QED
    BY <2>2, <2>3, <2>4, <2>5 DEF SweepMove
<1>4. Coming => Coming'
  BY <1>2 DEF Coming, At
<1>5. WillPublish => WillPublish'
  <2>1. run[Loop].step \notin SyncStep \cup {"publish"}
    BY <1>2 DEF SyncStep, Critical
  <2> QED
    BY <1>2, <2>1 DEF WillPublish, At, SyncStep, Critical
<1>6. WillRead => WillRead'
  BY <1>2 DEF WillRead, At
<1>7. PublishersBehind'
  BY <1>2, <1>3, <1>4 DEF FollowInv, PublishersBehind, At
<1>8. SettingsFollow' /\ OnlyOvertakingStaysBehind'
  BY <1>2, <1>5, <1>6 DEF FollowInv, SettingsFollow, OnlyOvertakingStaysBehind
<1> QED
  BY <1>7, <1>8 DEF FollowInv

(* A new configuration comes with a sync of its own.                         *)
LEMMA OutsideFollows ==
    ASSUME ConfigSyncTypeOK, FollowInv, (\E t \in Token : Fate(t)) \/ Outside
    PROVE  FollowInv'
<1>1. CASE UNCHANGED <<cfg, healthy, published, run, view>>
  BY <1>1 DEF FollowInv, PublishersBehind, SettingsFollow, OnlyOvertakingStaysBehind, Coming,
              WillPublish, WillRead, At
<1>2. CASE \E new \in Configs, a \in Async : Reconfigure(new, a)
  <2>1. PICK a \in Async : run' = [run EXCEPT ![a] = Starting(TRUE)]
    BY <1>2 DEF Reconfigure
  <2>2. a \in Goroutine /\ run'[a].step = "start" /\ run'[a].forced
    BY <2>1 DEF Goroutine, Starting, Idle, ConfigSyncTypeOK
  <2>3. Coming' /\ WillPublish' /\ WillRead'
    BY <2>2 DEF Coming, WillPublish, WillRead, At
  <2> QED
    BY <2>3 DEF FollowInv, PublishersBehind, SettingsFollow, OnlyOvertakingStaysBehind
<1> QED
  BY <1>1, <1>2 DEF Fate, Outside, registryVars

-----------------------------------------------------------------------------
(* The record of the versions: a sync reads one that is on it, and a write   *)
(* only adds one.                                                           *)
LEMMA SyncRecords ==
    ASSUME ConfigSyncTypeOK, HistoryFits, NEW g \in Goroutine, SyncMove(g),
           UNCHANGED <<file, written, changes, cfg>>
    PROVE  HistoryFits'
<1>1. run' = [run EXCEPT ![g] = run'[g]] /\ DOMAIN run = Goroutine /\ run[g] \in Working
  BY SyncFrame DEF ConfigSyncTypeOK
<1>2. ASSUME run'[g].step \in {"path", "lock", "stat", "load", "table"}
      PROVE  /\ run'[g].cfg \in Configs
             /\ At(g, "table")' => /\ run'[g].version = file.stamp
                                  /\ run'[g].listed = file.lists \cap run'[g].cfg.prefix
  <2> USE <1>1, <1>2 DEF HistoryFits, At, Working
  <2>1. CASE ReadConfig(g)
    BY <2>1 DEF ReadConfig
  <2>2. CASE CheckPath(g)
    BY <2>2 DEF CheckPath, Goes, Ends, Idle
  <2>3. CASE Lock(g)
    BY <2>3 DEF Lock, Goes
  <2>4. CASE Stat(g)
    BY <2>4 DEF Stat, Ends, Idle
  <2>5. CASE Load(g)
    BY <2>5 DEF Load, Ends, Idle
  <2>6. CASE Table(g) \/ Forget(g) \/ Resolve(g) \/ Publish(g)
    BY <2>6 DEF Table, Forget, Resolve, Publish, Ends, Idle
  <2> QED
    BY <2>1, <2>2, <2>3, <2>4, <2>5, <2>6 DEF SyncMove
<1> QED
  BY <1>1, <1>2 DEF HistoryFits, At

LEMMA SweepRecords ==
    ASSUME ConfigSyncTypeOK, HistoryFits, SweepMove, UNCHANGED <<file, written, changes, cfg>>
    PROVE  HistoryFits'
<1>1. DOMAIN run = Goroutine /\ Loop \in Goroutine
  BY DEF ConfigSyncTypeOK, Goroutine
<1>2. \A h \in Goroutine : h # Loop => run'[h] = run[h]
  BY <1>1 DEF SweepMove, Remove, Drop, ConfigTick, PollTick
<1>3. run'[Loop].step \in {"idle", "start", "remove", "drop"}
  <2>1. run[Loop] \in Working /\ Starting(FALSE).step = "start"
    BY <1>1 DEF ConfigSyncTypeOK, Starting, Idle
  <2>2. CASE Remove
    BY <1>1, <2>1, <2>2 DEF Remove, Working
  <2>3. CASE ConfigTick
    BY <1>1, <2>1, <2>3 DEF ConfigTick
  <2>4. CASE PollTick
    BY <1>1, <2>4 DEF PollTick, Idle
  <2>5. CASE Drop
    BY <1>1, <2>5 DEF Drop, Idle
  <2> QED
    BY <2>2, <2>3, <2>4, <2>5 DEF SweepMove
<1> QED
  BY <1>2, <1>3 DEF HistoryFits, At

(* A new version of config.yaml is newer than every one on record, and the   *)
(* record of the others stays.                                              *)
LEMMA WritesAreNew ==
    ASSUME ConfigSyncTypeOK, HistoryFits, StampsLag, WriteFile
    PROVE  \E lists \in SUBSET Token :
               /\ file'.stamp = changes + 2 /\ file'.lists = lists
               /\ \A version \in DOMAIN written : changes + 2 > version
               /\ written' = [version \in DOMAIN written \cup {changes + 2} |->
                                 IF version = changes + 2 THEN lists ELSE written[version]]
<1>1. PICK parses \in BOOLEAN, lists \in Contents :
          /\ file' = [access |-> "readable", parses |-> parses, lists |-> lists,
                      stamp |-> changes + 2]
          /\ written' = [version \in DOMAIN written \cup {changes + 2} |->
                            IF version = changes + 2 THEN lists ELSE written[version]]
  BY DEF WriteFile
<1>2. ASSUME NEW version \in DOMAIN written
      PROVE  changes + 2 > version
  <2>1. version \in Nat /\ file.stamp \in Nat /\ changes \in Nat
    BY MaxChangesAssumption DEF ConfigSyncTypeOK, File, Stamps
  <2> QED
    BY <2>1 DEF HistoryFits, StampsLag
<1> QED
  BY <1>1, <1>2, ContentsAssumption

LEMMA OutsideRecords ==
    ASSUME ConfigSyncTypeOK, HistoryFits, StampsLag, (\E t \in Token : Fate(t)) \/ Outside
    PROVE  HistoryFits'
<1>1. CASE UNCHANGED <<file.stamp, file.lists, written, cfg, run>>
  BY <1>1 DEF HistoryFits, At
<1>2. CASE \E new \in Configs, a \in Async :
             Reconfigure(new, a) /\ UNCHANGED <<file, written>>
  <2>1. PICK new \in Configs, a \in Async : Reconfigure(new, a)
    BY <1>2
  <2>2. /\ cfg' \in Configs /\ run'[a].step = "start"
        /\ \A h \in Goroutine : h # a => run'[h] = run[h]
    BY <2>1 DEF Reconfigure, Starting, Idle, Goroutine, ConfigSyncTypeOK
  <2> QED
    BY <1>2, <2>2 DEF HistoryFits, At
<1>3. CASE WriteFile /\ UNCHANGED <<cfg, run>>
  <2>1. PICK lists \in SUBSET Token :
            /\ file'.stamp = changes + 2 /\ file'.lists = lists
            /\ \A version \in DOMAIN written : changes + 2 > version
            /\ written' = [version \in DOMAIN written \cup {changes + 2} |->
                              IF version = changes + 2 THEN lists ELSE written[version]]
    BY <1>3, WritesAreNew
  <2>2. changes \in Nat /\ \A version \in DOMAIN written : version \in Nat
    BY MaxChangesAssumption DEF ConfigSyncTypeOK, Stamps
  <2>3. /\ file'.stamp \in DOMAIN written' /\ written'[file'.stamp] = file'.lists
        /\ \A version \in DOMAIN written' : version <= file'.stamp
    BY <2>1, <2>2
  <2>4. \A version \in DOMAIN written :
            version \in DOMAIN written' /\ written'[version] = written[version]
    BY <2>1, <2>2
  <2> QED
    BY <1>3, <2>3, <2>4 DEF HistoryFits, At
<1>4. CASE DisturbFile /\ UNCHANGED <<cfg, run>>
  <2>1. file'.stamp = file.stamp /\ file'.lists = file.lists /\ written' = written
    BY <1>4 DEF DisturbFile, ConfigSyncTypeOK, File
  <2> QED
    BY <1>1, <1>4, <2>1
<1>5. CASE \E t \in Token : Fate(t)
  BY <1>1, <1>5 DEF Fate
<1> QED
  BY <1>2, <1>3, <1>4, <1>5 DEF Outside

-----------------------------------------------------------------------------
(* The theorems.  The invariant: the types, the mutex, stamps that never run *)
(* ahead of the file, readings that fit it, and settings that follow.        *)
THEOREM ConfigSyncInvariant == ConfigSyncSpec => []ConfigSyncInv
<1>1. ConfigSyncInit => ConfigSyncInv
  <2> SUFFICES ASSUME ConfigSyncInit PROVE ConfigSyncInv
    OBVIOUS
  <2> USE DEF ConfigSyncInit
  <2>1. /\ Loop \in Goroutine /\ run[Loop] = Starting(TRUE)
        /\ \A g \in Goroutine : g # Loop => run[g] = Idle
    BY DEF Goroutine
  <2>2. /\ Starting(TRUE).step = "start" /\ Starting(TRUE).forced
        /\ Starting(TRUE).stamp = 0 /\ Starting(TRUE).version = 0
        /\ Idle.step = "idle" /\ Idle.stamp = 0 /\ Idle.version = 0
    BY DEF Starting, Idle, Invalid
  <2>3. ConfigSyncTypeOK
    <3>1. run \in [Goroutine -> Working]
      BY IdleWorks
    <3>2. file \in File /\ changes \in 0..MaxChanges /\ lastStat \in Stamps
      BY ContentsAssumption, MaxChangesAssumption DEF File, Stamps, Invalid
    <3>3. view \in [cfg : PluginConfig, version : Stamps, overtaken : BOOLEAN]
      BY MaxChangesAssumption DEF PluginConfig, Unread, Stamps, Invalid
    <3>4. cfg \in PluginConfig /\ published \in PluginConfig
      BY ConfigsAssumption DEF PluginConfig, Unread
    <3>5. DOMAIN written \subseteq Stamps /\ written \in [DOMAIN written -> SUBSET Token]
      BY ContentsAssumption, MaxChangesAssumption DEF Stamps
    <3> QED
      BY <3>1, <3>2, <3>3, <3>4, <3>5 DEF ConfigSyncTypeOK
  <2>4. MutualExclusion /\ ReadingsFit /\ SyncForgetsTheGone
    BY <2>1, <2>2 DEF MutualExclusion, Holds, Critical, ReadingsFit, SyncForgetsTheGone, At
  <2>5. StampsLag /\ NoLostUpdate
    <3>1. file.stamp = 1 /\ changes = 0 /\ lastStat = 0 /\ view.version = 0
      BY DEF Invalid
    <3>2. \A g \in Goroutine : run[g].stamp = 0 /\ run[g].version = 0
      BY <2>1, <2>2
    <3> HIDE DEF ConfigSyncInit
    <3> QED
      BY <3>1, <3>2 DEF StampsLag, NoLostUpdate
  <2>6. FollowInv
    BY <2>1, <2>2
       DEF FollowInv, PublishersBehind, SettingsFollow, OnlyOvertakingStaysBehind, At
  <2>7. HistoryFits
    <3>1. /\ file.stamp = 1 /\ cfg \in Configs
          /\ DOMAIN written = {file.stamp} /\ written[file.stamp] = file.lists
      OBVIOUS
    <3>2. \A g \in Goroutine : run[g].step \in {"start", "idle"}
      BY <2>1, <2>2
    <3> HIDE DEF ConfigSyncInit
    <3> QED
      BY <3>1, <3>2 DEF HistoryFits, At
  <2> QED
    BY <2>3, <2>4, <2>5, <2>6, <2>7 DEF ConfigSyncInv, MirrorInv
<1>2. ConfigSyncInv /\ [ConfigSyncNext]_ConfigSyncVars => ConfigSyncInv'
  <2> SUFFICES ASSUME ConfigSyncInv, [ConfigSyncNext]_ConfigSyncVars PROVE ConfigSyncInv'
    OBVIOUS
  <2> USE DEF ConfigSyncInv
  <2>1. MutualExclusion
    BY DEF MirrorInv
  <2>2. CASE \E g \in Goroutine : SyncMove(g) /\ UNCHANGED <<file, written, changes, cfg>>
    BY <2>1, <2>2, SyncTypes, SyncRecords, SyncMirrors, SyncFollows
  <2>3. CASE SweepMove /\ UNCHANGED <<file, written, changes, cfg>>
    BY <2>3, SweepTypes, SweepRecords, SweepMirrors, SweepFollows
  <2>4. CASE (\E t \in Token : Fate(t)) \/ Outside
    <3>1. HistoryFits'
      BY <2>4, OutsideRecords DEF MirrorInv
    <3> QED
      BY <2>4, <3>1, OutsideTypes, OutsideMirrors, OutsideFollows
  <2>5. CASE UNCHANGED ConfigSyncVars
    <3>1. ConfigSyncTypeOK'
      BY <2>5 DEF ConfigSyncVars, ConfigSyncTypeOK
    <3>2. MirrorInv'
      BY <2>5 DEF ConfigSyncVars, MirrorInv, MutualExclusion, Holds, StampsLag, ReadingsFit,
                  NoLostUpdate, SyncForgetsTheGone, At
    <3>3. FollowInv'
      BY <2>5 DEF ConfigSyncVars, FollowInv, PublishersBehind, SettingsFollow,
                  OnlyOvertakingStaysBehind, Coming, WillPublish, WillRead, At
    <3>4. HistoryFits'
      BY <2>5 DEF ConfigSyncVars, HistoryFits, At
    <3> QED
      BY <3>1, <3>2, <3>3, <3>4
  <2> QED
    BY <2>2, <2>3, <2>4, <2>5, MovesOrNot
<1> QED
  BY <1>1, <1>2, PTL DEF ConfigSyncSpec

(* The sync machinery stays well-typed.                                     *)
THEOREM ConfigSyncTypeCorrect == ConfigSyncSpec => []ConfigSyncTypeOK
<1>1. ConfigSyncInv => ConfigSyncTypeOK
  BY DEF ConfigSyncInv
<1> QED
  BY <1>1, ConfigSyncInvariant, PTL

(* An unchanged stamp never hides a change of config.yaml                    *)
(* (service.go:323-350).                                                    *)
THEOREM NoUpdateIsLost == ConfigSyncSpec => []NoLostUpdate
<1>1. ConfigSyncInv => NoLostUpdate
  BY DEF ConfigSyncInv, MirrorInv
<1> QED
  BY <1>1, ConfigSyncInvariant, PTL

(* A sync forgets only credentials that are out of the table                 *)
(* (service.go:349-356).                                                    *)
THEOREM ForgottenAreGone == ConfigSyncSpec => []SyncForgetsTheGone
<1>1. ConfigSyncInv => SyncForgetsTheGone
  BY DEF ConfigSyncInv, MirrorInv
<1> QED
  BY <1>1, ConfigSyncInvariant, PTL

(* Settings end up with the configuration sent last (service.go:362, 408).   *)
THEOREM SettingsCatchUp == ConfigSyncSpec => []SettingsFollow
<1>1. ConfigSyncInv => SettingsFollow
  BY DEF ConfigSyncInv, FollowInv
<1> QED
  BY <1>1, ConfigSyncInvariant, PTL

(* A healthy table stays behind the configuration only after a sync was      *)
(* overtaken (service.go:314).                                              *)
THEOREM TableCatchesUp == ConfigSyncSpec => []OnlyOvertakingStaysBehind
<1>1. ConfigSyncInv => OnlyOvertakingStaysBehind
  BY DEF ConfigSyncInv, FollowInv
<1> QED
  BY <1>1, ConfigSyncInvariant, PTL

-----------------------------------------------------------------------------
(* Every step is one of the mirror's, or leaves it alone: a sync that        *)
(* replaces the table adopts the version it read, a prune shrinks it by one, *)
(* a change of config.yaml writes a version.                                *)
LEMMA StepMirrors ==
    ASSUME ConfigSyncInv, [ConfigSyncNext]_ConfigSyncVars
    PROVE  [Mirror!MirrorNext]_<<written, view.version, tracked>>
<1> USE DEF ConfigSyncInv
<1>1. CASE \E g \in Goroutine : SyncMove(g) /\ UNCHANGED <<file, written, changes, cfg>>
  <2>1. PICK g \in Goroutine : SyncMove(g) /\ UNCHANGED <<file, written, changes, cfg>>
    BY <1>1
  <2>2. CASE Table(g)
    <3>1. /\ At(g, "table")
          /\ view'.version = run[g].version /\ tracked' = run[g].listed
      BY <2>2 DEF Table
    <3>2. /\ run[g].version >= view.version
          /\ run[g].version \in DOMAIN written /\ run[g].cfg \in Configs
          /\ run[g].listed = written[run[g].version] \cap run[g].cfg.prefix
      BY <3>1 DEF MirrorInv, ReadingsFit, HistoryFits, At
    <3>3. Mirror!Adopt(run[g].version, run[g].cfg.prefix)
      BY <2>1, <3>1, <3>2 DEF Mirror!Adopt
    <3> QED
      BY <3>2, <3>3 DEF Mirror!MirrorNext, Mirror!Versions
  <2>3. CASE ~Table(g)
    BY <2>1, <2>3
       DEF SyncMove, ReadConfig, CheckPath, Lock, Stat, Load, Forget, Resolve, Publish, registryVars
  <2> QED
    BY <2>2, <2>3
<1>2. CASE SweepMove /\ UNCHANGED <<file, written, changes, cfg>>
  <2>1. CASE Remove
    <3>1. PICK t \in run[Loop].gone : tracked' = tracked \ {t} /\ UNCHANGED view
      BY <2>1 DEF Remove
    <3>2. CASE t \in tracked
      BY <1>2, <3>1, <3>2 DEF Mirror!MirrorNext, Mirror!Shrink
    <3>3. CASE t \notin tracked
      BY <1>2, <3>1, <3>3
    <3> QED
      BY <3>2, <3>3
  <2>2. CASE Drop \/ ConfigTick \/ PollTick
    BY <1>2, <2>2 DEF Drop, ConfigTick, PollTick, registryVars
  <2> QED
    BY <1>2, <2>1, <2>2 DEF SweepMove
<1>3. CASE \E t \in Token : Fate(t)
  BY <1>3 DEF Fate
<1>4. CASE Outside
  <2>1. UNCHANGED <<view, tracked>>
    BY <1>4 DEF Outside, registryVars
  <2>2. CASE WriteFile
    <3>1. PICK lists \in SUBSET Token :
              /\ \A version \in DOMAIN written : changes + 2 > version
              /\ written' = [version \in DOMAIN written \cup {changes + 2} |->
                                IF version = changes + 2 THEN lists ELSE written[version]]
      BY <2>2, WritesAreNew DEF MirrorInv
    <3>2. Mirror!Write(changes + 2, lists)
      BY <2>1, <3>1 DEF Mirror!Write, Mirror!Versions
    <3>3. changes + 2 \in DOMAIN written'
      BY <3>1
    <3> QED
      BY <3>2, <3>3 DEF Mirror!MirrorNext
  <2>3. CASE ~WriteFile
    BY <1>4, <2>1, <2>3 DEF Outside, DisturbFile
  <2> QED
    BY <2>2, <2>3
<1>5. CASE UNCHANGED ConfigSyncVars
  BY <1>5 DEF ConfigSyncVars
<1> QED
  BY <1>1, <1>2, <1>3, <1>4, <1>5, MovesOrNot

(* However syncs, writes, reconfigurations and prunes overlap, the table is   *)
(* replaced only by what one version of config.yaml lists under a configured *)
(* prefix, versions come in order, and between two reads the table only      *)
(* loses pruned credentials (service.go:320-350, poller.go:175-188).         *)
THEOREM SyncImplementsMirror == ConfigSyncSpec => ImplementsMirror
<1>1. ConfigSyncInit => Mirror!MirrorInit
  <2> SUFFICES ASSUME ConfigSyncInit PROVE Mirror!MirrorInit
    OBVIOUS
  <2>1. PICK lists \in Contents :
            file = [access |-> "readable", parses |-> TRUE, lists |-> lists, stamp |-> 1]
    BY DEF ConfigSyncInit
  <2>2. written = [v \in {1} |-> lists] /\ lists \in SUBSET Token
    BY <2>1, ContentsAssumption DEF ConfigSyncInit
  <2> QED
    BY <2>2 DEF ConfigSyncInit, Mirror!MirrorInit, Invalid
<1>2. ConfigSyncInv /\ [ConfigSyncNext]_ConfigSyncVars
      => [Mirror!MirrorNext]_Mirror!MirrorVars
  BY StepMirrors DEF Mirror!MirrorVars
<1> QED
  BY <1>1, <1>2, ConfigSyncInvariant, PTL DEF ConfigSyncSpec, ImplementsMirror, Mirror!MirrorSpec
=============================================================================
