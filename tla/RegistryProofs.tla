--------------------------- MODULE RegistryProofs ---------------------------
(***************************************************************************)
(* What holds of the credential table for any tokens, providers, readings    *)
(* and hold.  The two invariants are inductive together with the clock.     *)
(***************************************************************************)
EXTENDS Registry, TLAPS

RegistryInv == RegistryTypeOK /\ ReadingsCoherent

(* A credential that has just appeared has a well-formed, coherent state.    *)
LEMMA FreshIsState ==
    ASSUME NEW g \in Provider
    PROVE  Fresh(g) \in State
  BY DEF Fresh, State, Usage, NoUsage, NoWindow, Window, Never

(* The initial table is empty.                                              *)
LEMMA RegistryInitInv == RegistryInit => RegistryInv
  BY DEF ClockInit, RegistryInit, RegistryInv, RegistryTypeOK, ReadingsCoherent, Tracked

(* Replacing one entry by a coherent state preserves the invariant: the form *)
(* every store method has.                                                  *)
Coherent(state) ==
    /\ state.hasUsage => state.fetchedAt # Never
    /\ ~state.hasUsage => state.usage = NoUsage
    /\ state.revoked => ~state.hasUsage

LEMMA UpdateInv ==
    ASSUME NEW t \in Token, NEW state, RegistryInv, now' = now,
           Update(t, state),
           t \in Tracked => state \in State /\ Coherent(state)
    PROVE  RegistryInv'
  BY DEF RegistryInv, RegistryTypeOK, ReadingsCoherent, Update, Coherent, Tracked

(* The type of one entry, spelled out for the store methods.                *)
LEMMA EntryType ==
    ASSUME RegistryInv, NEW t \in Tracked
    PROVE  /\ keys[t] \in State
           /\ Coherent(keys[t])
  BY DEF RegistryInv, RegistryTypeOK, ReadingsCoherent, Coherent, Tracked

LEMMA MutateInv ==
    ASSUME NEW t \in Token, RegistryInv, UNCHANGED now, Mutate(t)
    PROVE  RegistryInv'
<1> USE DEF ReadClock
<1>1. now \in Nat
  BY DEF RegistryInv, RegistryTypeOK
<1>2. CASE \E at \in ReadClock : Touch(t, at)
  <2>1. PICK at \in ReadClock : Touch(t, at)
    BY <1>2
  <2>2. t \in Tracked => LET s == [keys[t] EXCEPT !.lastSeenAt = at]
                         IN  s \in State /\ Coherent(s)
    BY EntryType, <1>1 DEF State, Coherent
  <2> QED
    BY <2>1, <2>2, UpdateInv DEF Touch
<1>3. CASE \E reading \in Reading, at \in ReadClock : StoreUsage(t, reading, at)
  <2>1. PICK reading \in Reading, at \in ReadClock : StoreUsage(t, reading, at)
    BY <1>3
  <2> DEFINE s == [keys[t] EXCEPT !.usage       = reading,
                                  !.hasUsage    = TRUE,
                                  !.fetchedAt   = at,
                                  !.failStreak  = 0,
                                  !.revoked     = FALSE,
                                  !.suspectedAt = IF at - @ >= SuspectHold
                                                    THEN Never
                                                    ELSE @]
  <2>2. at \in Nat /\ at # Never
    BY <1>1 DEF Never
  <2>3. ASSUME t \in Tracked PROVE s \in State
    <3>1. keys[t] \in State
      BY <2>3, EntryType
    <3>2. (IF at - keys[t].suspectedAt >= SuspectHold THEN Never ELSE keys[t].suspectedAt) \in Nat
      BY <3>1 DEF State, Never
    <3>3. reading \in Usage
      BY ReadingAssumption
    <3> QED
      BY <2>2, <3>1, <3>2, <3>3 DEF State
  <2>4. ASSUME t \in Tracked PROVE Coherent(s)
    <3>1. keys[t] \in State
      BY <2>4, EntryType
    <3>2. s.hasUsage = TRUE /\ s.fetchedAt = at /\ s.revoked = FALSE
      BY <3>1 DEF State
    <3> QED
      BY <2>2, <3>2 DEF Coherent
  <2> QED
    BY <2>1, <2>3, <2>4, UpdateInv DEF StoreUsage
<1>4. CASE t \in Tracked /\ keys[t].failStreak < MaxStreak /\ StoreFetchFailure(t)
  <2>1. LET s == [keys[t] EXCEPT !.failStreak = @ + 1] IN s \in State /\ Coherent(s)
    BY <1>4, EntryType DEF State, Coherent
  <2> QED
    BY <1>4, <2>1, UpdateInv DEF StoreFetchFailure
<1>5. CASE StoreRevoked(t)
  <2> DEFINE s == [keys[t] EXCEPT !.revoked    = TRUE,
                                  !.failStreak = 0,
                                  !.hasUsage   = FALSE,
                                  !.usage      = NoUsage]
  <2>1. NoUsage \in Usage
    BY DEF Usage, NoUsage, NoWindow, Window
  <2>2. ASSUME t \in Tracked PROVE s \in State
    BY <2>1, <2>2, EntryType DEF State
  <2>3. ASSUME t \in Tracked PROVE Coherent(s)
    <3>1. keys[t] \in State
      BY <2>3, EntryType
    <3>2. s.hasUsage = FALSE /\ s.usage = NoUsage
      BY <3>1 DEF State
    <3> QED
      BY <3>2 DEF Coherent
  <2> QED
    BY <1>5, <2>2, <2>3, UpdateInv DEF StoreRevoked
<1>6. CASE \E at \in ReadClock : MarkSuspected429(t, at)
  <2>1. PICK at \in ReadClock : MarkSuspected429(t, at)
    BY <1>6
  <2>2. t \in Tracked => LET s == [keys[t] EXCEPT !.suspectedAt = at]
                         IN  s \in State /\ Coherent(s)
    BY EntryType, <1>1 DEF State, Coherent
  <2> QED
    BY <2>1, <2>2, UpdateInv DEF MarkSuspected429
<1>7. CASE Remove(t)
  BY <1>7 DEF Remove, RegistryInv, RegistryTypeOK, ReadingsCoherent, Tracked
<1> QED
  BY <1>2, <1>3, <1>4, <1>5, <1>6, <1>7 DEF Mutate

LEMMA SyncInv ==
    ASSUME RegistryInv, UNCHANGED now, NEW config \in Config, Sync(config)
    PROVE  RegistryInv'
<1>1. DOMAIN config \subseteq Token /\ \A t \in DOMAIN config : config[t] \in Provider
  BY DEF Config
<1>2. \A t \in DOMAIN config : keys'[t] \in State /\ Coherent(keys'[t])
  <2> TAKE t \in DOMAIN config
  <2>1. CASE t \in Tracked
    <3>1. keys'[t] = [keys[t] EXCEPT !.provider = config[t]]
      BY <2>1 DEF Sync
    <3> QED
      BY <1>1, <2>1, <3>1, EntryType DEF State, Coherent
  <2>2. CASE t \notin Tracked
    <3>1. keys'[t] = Fresh(config[t])
      BY <2>2 DEF Sync
    <3>2. Coherent(Fresh(config[t]))
      BY DEF Coherent, Fresh
    <3> QED
      BY <1>1, <3>1, <3>2, FreshIsState
  <2> QED
    BY <2>1, <2>2
<1>3. DOMAIN keys' = DOMAIN config /\ keys' = [t \in DOMAIN keys' |-> keys'[t]]
  BY DEF Sync
<1> QED
  BY <1>1, <1>2, <1>3
  DEF RegistryInv, RegistryTypeOK, ReadingsCoherent, Coherent, Tracked

LEMMA RegistryNextInv == RegistryInv /\ [RegistryNext]_RegistryVars => RegistryInv'
<1> SUFFICES ASSUME RegistryInv, [RegistryNext]_RegistryVars
             PROVE  RegistryInv'
  OBVIOUS
<1>1. CASE Tick /\ UNCHANGED keys
  BY <1>1 DEF Tick, RegistryInv, RegistryTypeOK, ReadingsCoherent, Tracked
<1>2. CASE UNCHANGED now /\ \E config \in Config : Sync(config)
  BY <1>2, SyncInv
<1>3. CASE UNCHANGED now /\ \E t \in Token : Mutate(t)
  BY <1>3, MutateInv
<1>4. CASE UNCHANGED RegistryVars
  BY <1>4 DEF RegistryVars, RegistryInv, RegistryTypeOK, ReadingsCoherent, Tracked
<1> QED
  BY <1>1, <1>2, <1>3, <1>4 DEF RegistryNext

(* The table is well typed and its readings are coherent in every state.     *)
THEOREM RegistryInvariant == RegistrySpec => []RegistryInv
<1>1. RegistryInit => RegistryInv
  BY RegistryInitInv
<1>2. RegistryInv /\ [RegistryNext]_RegistryVars => RegistryInv'
  BY RegistryNextInv
<1> QED
  BY <1>1, <1>2, PTL DEF RegistrySpec

(* Type correctness of the table, for every constant.                       *)
THEOREM RegistryTypeCorrect == RegistrySpec => []RegistryTypeOK
<1>1. RegistryInv => RegistryTypeOK
  BY DEF RegistryInv
<1> QED
  BY <1>1, RegistryInvariant, PTL

(* No order of answers leaves a stale reading on a revoked or unmeasured     *)
(* credential, for every constant.                                          *)
THEOREM RegistryCoherent == RegistrySpec => []ReadingsCoherent
<1>1. RegistryInv => ReadingsCoherent
  BY DEF RegistryInv
<1> QED
  BY <1>1, RegistryInvariant, PTL

-----------------------------------------------------------------------------
(* The hold is a floor, whatever the store methods, the reloads and the      *)
(* clock do: no step brings a held credential back early.                   *)
LEMMA HeldAfterUpdate ==
    ASSUME NEW t \in Token, NEW state, NEW u \in Tracked, Update(t, state),
           Suspected429(keys[u], now),
           t \in Tracked => Suspected429(state, now)  \/ ~Suspected429(keys[t], now)
    PROVE  Suspected429(keys'[u], now)
  BY DEF Update, Tracked

LEMMA MutateHolds ==
    ASSUME NEW t \in Token, NEW u \in Tracked, RegistryInv, UNCHANGED now,
           Mutate(t), u \in DOMAIN keys', Suspected429(keys[u], now)
    PROVE  Suspected429(keys'[u], now)
<1> USE DEF ReadClock
<1>1. now \in Nat
  BY DEF RegistryInv, RegistryTypeOK
<1>2. t \in Tracked => keys[t] \in State
  BY EntryType
<1>3. CASE \E at \in ReadClock : Touch(t, at)
  <2>1. PICK at \in ReadClock : Touch(t, at)
    BY <1>3
  <2>2. t \in Tracked => [keys[t] EXCEPT !.lastSeenAt = at].suspectedAt = keys[t].suspectedAt
    BY <1>2 DEF State
  <2> QED
    BY <2>1, <2>2, HeldAfterUpdate DEF Touch, Suspected429
<1>4. CASE \E reading \in Reading, at \in ReadClock : StoreUsage(t, reading, at)
  <2>1. PICK reading \in Reading, at \in ReadClock : StoreUsage(t, reading, at)
    BY <1>4
  <2> DEFINE s == [keys[t] EXCEPT !.usage       = reading,
                                  !.hasUsage    = TRUE,
                                  !.fetchedAt   = at,
                                  !.failStreak  = 0,
                                  !.revoked     = FALSE,
                                  !.suspectedAt = IF at - @ >= SuspectHold
                                                    THEN Never
                                                    ELSE @]
  <2>2. ASSUME t \in Tracked, Suspected429(keys[t], now) PROVE Suspected429(s, now)
    <3>1. /\ keys[t].suspectedAt \in Nat
          /\ s.suspectedAt = IF at - keys[t].suspectedAt >= SuspectHold
                               THEN Never ELSE keys[t].suspectedAt
      BY <1>2, <2>2 DEF State
    <3>2. at \in Nat /\ at <= now
      BY <1>1
    <3>3. ~(at - keys[t].suspectedAt >= SuspectHold)
      BY <1>1, <2>2, <3>1, <3>2, HoldAssumption DEF Suspected429
    <3> QED
      BY <2>2, <3>1, <3>3 DEF Suspected429
  <2> QED
    BY <2>1, <2>2, HeldAfterUpdate DEF StoreUsage
<1>5. CASE t \in Tracked /\ keys[t].failStreak < MaxStreak /\ StoreFetchFailure(t)
  <2>1. [keys[t] EXCEPT !.failStreak = @ + 1].suspectedAt = keys[t].suspectedAt
    BY <1>2, <1>5 DEF State
  <2> QED
    BY <1>5, <2>1, HeldAfterUpdate DEF StoreFetchFailure, Suspected429
<1>6. CASE StoreRevoked(t)
  <2>1. t \in Tracked =>
          [keys[t] EXCEPT !.revoked    = TRUE,
                          !.failStreak = 0,
                          !.hasUsage   = FALSE,
                          !.usage      = NoUsage].suspectedAt = keys[t].suspectedAt
    BY <1>2 DEF State
  <2> QED
    BY <1>6, <2>1, HeldAfterUpdate DEF StoreRevoked, Suspected429
<1>7. CASE \E at \in ReadClock : MarkSuspected429(t, at)
  <2>1. PICK at \in ReadClock : MarkSuspected429(t, at)
    BY <1>7
  <2>2. t \in Tracked => [keys[t] EXCEPT !.suspectedAt = at].suspectedAt = at
    BY <1>2 DEF State
  <2>3. at \in Nat /\ at # Never /\ now - at < SuspectHold
    BY <1>1, HoldAssumption, LagAssumption DEF Never
  <2> QED
    BY <2>1, <2>2, <2>3, HeldAfterUpdate DEF MarkSuspected429, Suspected429
<1>8. CASE Remove(t)
  BY <1>8 DEF Remove, Tracked
<1> QED
  BY <1>3, <1>4, <1>5, <1>6, <1>7, <1>8 DEF Mutate

LEMMA SyncHolds ==
    ASSUME NEW config \in Config, NEW u \in Tracked, RegistryInv, Sync(config),
           u \in DOMAIN keys', Suspected429(keys[u], now)
    PROVE  Suspected429(keys'[u], now)
<1>1. keys'[u] = [keys[u] EXCEPT !.provider = config[u]]
  BY DEF Sync
<1>2. keys[u] \in State
  BY EntryType
<1> QED
  BY <1>1, <1>2 DEF State, Suspected429

LEMMA NextHolds ==
    ASSUME RegistryInv, [RegistryNext]_RegistryVars,
           NEW u \in Tracked \cap DOMAIN keys', Suspected429(keys[u], now')
    PROVE  Suspected429(keys'[u], now')
<1>1. CASE Tick /\ UNCHANGED keys
  BY <1>1
<1>2. CASE UNCHANGED now /\ \E config \in Config : Sync(config)
  BY <1>2, SyncHolds
<1>3. CASE UNCHANGED now /\ \E t \in Token : Mutate(t)
  BY <1>3, MutateHolds
<1>4. CASE UNCHANGED RegistryVars
  BY <1>4 DEF RegistryVars
<1> QED
  BY <1>1, <1>2, <1>3, <1>4 DEF RegistryNext

(* A live 429 keeps a credential out for the full hold, for every constant.  *)
THEOREM HoldHolds == RegistrySpec => HoldIsAFloor
<1>1. RegistryInv /\ [RegistryNext]_RegistryVars =>
        [\A t \in Tracked \cap DOMAIN keys' :
            Suspected429(keys[t], now') => Suspected429(keys'[t], now')]_RegistryVars
  BY NextHolds
<1> QED
  BY <1>1, RegistryInvariant, PTL DEF RegistrySpec, HoldIsAFloor

-----------------------------------------------------------------------------
(* A store method changes one entry and never the set of entries.            *)
LEMMA UpdatedEntries ==
    ASSUME NEW t \in Token, NEW state, Update(t, state), RegistryInv
    PROVE  /\ DOMAIN keys' = Tracked
           /\ \A u \in Tracked : keys'[u] = IF u = t THEN state ELSE keys[u]
  BY DEF Update, Tracked, RegistryInv, RegistryTypeOK

(* A credential keeps what was learnt about it, or is new and has nothing.   *)
Clean(t) ==
    IF t \in Tracked
      THEN \/ keys'[t] = [keys[t] EXCEPT !.provider = keys'[t].provider]
           \/ CallOn(t) /\ Superseded(keys[t], keys'[t])
      ELSE keys'[t] = Fresh(keys'[t].provider)

LEMMA KeptIsClean ==
    ASSUME RegistryInv, NEW t \in Tracked, keys'[t] = keys[t]
    PROVE  Clean(t)
  BY EntryType DEF Clean, State

LEMMA SyncIsClean ==
    ASSUME RegistryInv, NEW config \in Config, Sync(config), NEW t \in DOMAIN keys'
    PROVE  Clean(t)
<1>1. t \in DOMAIN config
  BY DEF Sync
<1>2. CASE t \in Tracked
  <2>1. keys'[t] = [keys[t] EXCEPT !.provider = config[t]]
    BY <1>1, <1>2 DEF Sync
  <2>2. keys'[t].provider = config[t]
    BY <1>2, <2>1, EntryType DEF State
  <2> QED
    BY <1>2, <2>1, <2>2 DEF Clean
<1>3. CASE t \notin Tracked
  <2>1. keys'[t] = Fresh(config[t])
    BY <1>1, <1>3 DEF Sync
  <2>2. keys'[t].provider = config[t]
    BY <2>1 DEF Fresh
  <2> QED
    BY <1>3, <2>1, <2>2 DEF Clean
<1> QED
  BY <1>2, <1>3

LEMMA RemoveIsClean ==
    ASSUME RegistryInv, NEW u, Remove(u), NEW t \in DOMAIN keys'
    PROVE  Clean(t)
  BY KeptIsClean DEF Remove, Tracked

(* A store method is clean when it supersedes what it replaces.              *)
LEMMA UpdateIsClean ==
    ASSUME RegistryInv, NEW u \in Token, NEW state, Update(u, state), NEW t \in DOMAIN keys',
           u \in Tracked => state.provider = keys[u].provider /\ Superseded(keys[u], state)
    PROVE  Clean(t)
<1>1. /\ DOMAIN keys' = Tracked
      /\ \A v \in Tracked : keys'[v] = IF v = u THEN state ELSE keys[v]
  BY UpdatedEntries
<1>2. CASE t # u
  BY <1>1, <1>2, KeptIsClean
<1>3. CASE t = u
  <2>1. keys'[t] = state /\ t \in Tracked
    BY <1>1, <1>3
  <2>2. CallOn(t)
    BY <1>1, <1>3, <2>1 DEF CallOn
  <2> QED
    BY <1>3, <2>1, <2>2 DEF Clean
<1> QED
  BY <1>2, <1>3

LEMMA MutateIsClean ==
    ASSUME RegistryInv, NEW u \in Token, Mutate(u), NEW t \in DOMAIN keys'
    PROVE  Clean(t)
<1>1. u \in Tracked => keys[u] \in State
  BY EntryType
<1> USE DEF Superseded
<1>2. ASSUME NEW at \in ReadClock, Touch(u, at) PROVE Clean(t)
  <2> DEFINE s == [keys[u] EXCEPT !.lastSeenAt = at]
  <2>1. at # Never
    BY DEF ReadClock, Never
  <2>2. u \in Tracked => s.provider = keys[u].provider /\ Superseded(keys[u], s)
    BY <1>1, <2>1 DEF State
  <2> QED
    BY <1>2, <2>2, UpdateIsClean DEF Touch
<1>3. ASSUME NEW reading \in Reading, NEW at \in ReadClock, StoreUsage(u, reading, at)
      PROVE  Clean(t)
  <2> DEFINE s == [keys[u] EXCEPT !.usage       = reading,
                                  !.hasUsage    = TRUE,
                                  !.fetchedAt   = at,
                                  !.failStreak  = 0,
                                  !.revoked     = FALSE,
                                  !.suspectedAt = IF at - @ >= SuspectHold
                                                    THEN Never
                                                    ELSE @]
  <2>1. at # Never
    BY DEF ReadClock, Never
  <2>2. u \in Tracked => /\ s.provider = keys[u].provider
                         /\ s.hasUsage = TRUE /\ s.fetchedAt = at
                         /\ s.lastSeenAt = keys[u].lastSeenAt
    BY <1>1 DEF State
  <2>3. u \in Tracked => s.provider = keys[u].provider /\ Superseded(keys[u], s)
    BY <2>1, <2>2
  <2> QED
    BY <1>3, <2>3, UpdateIsClean DEF StoreUsage
<1>4. ASSUME StoreFetchFailure(u) PROVE Clean(t)
  <2> DEFINE s == [keys[u] EXCEPT !.failStreak = @ + 1]
  <2>1. u \in Tracked => s.provider = keys[u].provider /\ Superseded(keys[u], s)
    BY <1>1 DEF State
  <2> QED
    BY <1>4, <2>1, UpdateIsClean DEF StoreFetchFailure
<1>5. ASSUME StoreRevoked(u) PROVE Clean(t)
  <2> DEFINE s == [keys[u] EXCEPT !.revoked    = TRUE,
                                  !.failStreak = 0,
                                  !.hasUsage   = FALSE,
                                  !.usage      = NoUsage]
  <2>1. u \in Tracked => s.provider = keys[u].provider /\ Superseded(keys[u], s)
    BY <1>1 DEF State
  <2> QED
    BY <1>5, <2>1, UpdateIsClean DEF StoreRevoked
<1>6. ASSUME NEW at \in ReadClock, MarkSuspected429(u, at) PROVE Clean(t)
  <2> DEFINE s == [keys[u] EXCEPT !.suspectedAt = at]
  <2>1. at # Never
    BY DEF ReadClock, Never
  <2>2. u \in Tracked => s.provider = keys[u].provider /\ Superseded(keys[u], s)
    BY <1>1, <2>1 DEF State
  <2> QED
    BY <1>6, <2>2, UpdateIsClean DEF MarkSuspected429
<1>7. CASE Remove(u)
  BY <1>7, RemoveIsClean
<1> QED
  BY <1>2, <1>3, <1>4, <1>5, <1>6, <1>7 DEF Mutate

LEMMA NextIsClean ==
    ASSUME RegistryInv, RegistryNext, NEW t \in DOMAIN keys'
    PROVE  Clean(t)
<1>1. CASE Tick /\ UNCHANGED keys
  BY <1>1, KeptIsClean DEF Tracked
<1>2. CASE UNCHANGED now /\ \E config \in Config : Sync(config)
  BY <1>2, SyncIsClean
<1>3. CASE UNCHANGED now /\ \E u \in Token : Mutate(u)
  BY <1>3, MutateIsClean
<1> QED
  BY <1>1, <1>2, <1>3 DEF RegistryNext

(* A reload costs a surviving credential nothing, whether or not the set     *)
(* changes, one that comes back inherits nothing, and any other step changes *)
(* one entry and supersedes what it forgets, for every constant.            *)
THEOREM ReloadsAreClean == RegistrySpec => ReloadIsClean
<1>1. RegistryInv /\ [RegistryNext]_RegistryVars =>
        [\A t \in DOMAIN keys' : Clean(t)]_RegistryVars
  BY NextIsClean
<1> QED
  BY <1>1, RegistryInvariant, PTL DEF RegistrySpec, ReloadIsClean, Clean

-----------------------------------------------------------------------------
(* What may lift a revocation.                                              *)
Lifted(u) == keys[u].revoked /\ ~keys'[u].revoked
ByReading(u) == keys'[u].hasUsage /\ keys'[u].failStreak = 0

LEMMA MutateLifts ==
    ASSUME RegistryInv, NEW t \in Token, Mutate(t), NEW u \in Tracked, u \in DOMAIN keys',
           Lifted(u)
    PROVE  ByReading(u)
<1>1. keys[u] \in State /\ (t \in Tracked => keys[t] \in State)
  BY EntryType
<1>2. CASE \E at \in ReadClock : Touch(t, at)
  <2>1. PICK at \in ReadClock : Touch(t, at)
    BY <1>2
  <2>2. keys'[u] = IF u = t THEN [keys[t] EXCEPT !.lastSeenAt = at] ELSE keys[u]
    BY <2>1, UpdatedEntries DEF Touch
  <2> QED
    BY <1>1, <2>2 DEF Lifted, State
<1>3. CASE \E reading \in Reading, at \in ReadClock : StoreUsage(t, reading, at)
  <2>1. PICK reading \in Reading, at \in ReadClock : StoreUsage(t, reading, at)
    BY <1>3
  <2> DEFINE s == [keys[t] EXCEPT !.usage       = reading,
                                  !.hasUsage    = TRUE,
                                  !.fetchedAt   = at,
                                  !.failStreak  = 0,
                                  !.revoked     = FALSE,
                                  !.suspectedAt = IF at - @ >= SuspectHold
                                                    THEN Never
                                                    ELSE @]
  <2>2. keys'[u] = IF u = t THEN s ELSE keys[u]
    BY <2>1, UpdatedEntries DEF StoreUsage
  <2>3. u = t => s.hasUsage = TRUE /\ s.failStreak = 0
    BY <1>1 DEF State
  <2> QED
    BY <2>2, <2>3 DEF Lifted, ByReading
<1>4. CASE t \in Tracked /\ keys[t].failStreak < MaxStreak /\ StoreFetchFailure(t)
  <2>1. keys'[u] = IF u = t THEN [keys[t] EXCEPT !.failStreak = @ + 1] ELSE keys[u]
    BY <1>4, UpdatedEntries DEF StoreFetchFailure
  <2>2. [keys[t] EXCEPT !.failStreak = @ + 1].revoked = keys[t].revoked
    BY <1>1, <1>4 DEF State
  <2> QED
    BY <2>1, <2>2 DEF Lifted
<1>5. CASE StoreRevoked(t)
  <2> DEFINE s == [keys[t] EXCEPT !.revoked    = TRUE,
                                  !.failStreak = 0,
                                  !.hasUsage   = FALSE,
                                  !.usage      = NoUsage]
  <2>1. keys'[u] = IF u = t THEN s ELSE keys[u]
    BY <1>5, UpdatedEntries DEF StoreRevoked
  <2>2. u = t => s.revoked = TRUE
    BY <1>1 DEF State
  <2> QED
    BY <2>1, <2>2 DEF Lifted
<1>6. CASE \E at \in ReadClock : MarkSuspected429(t, at)
  <2>1. PICK at \in ReadClock : MarkSuspected429(t, at)
    BY <1>6
  <2>2. keys'[u] = IF u = t THEN [keys[t] EXCEPT !.suspectedAt = at] ELSE keys[u]
    BY <2>1, UpdatedEntries DEF MarkSuspected429
  <2> QED
    BY <1>1, <2>2 DEF Lifted, State
<1>7. CASE Remove(t)
  BY <1>7 DEF Remove, Lifted
<1> QED
  BY <1>2, <1>3, <1>4, <1>5, <1>6, <1>7 DEF Mutate

LEMMA NextLifts ==
    ASSUME RegistryInv, RegistryNext, NEW u \in Tracked \cap DOMAIN keys', Lifted(u)
    PROVE  ByReading(u)
<1>1. CASE Tick /\ UNCHANGED keys
  BY <1>1 DEF Lifted
<1>2. CASE UNCHANGED now /\ \E config \in Config : Sync(config)
  <2>1. PICK config \in Config : Sync(config)
    BY <1>2
  <2>2. keys'[u] = [keys[u] EXCEPT !.provider = config[u]]
    BY <2>1 DEF Sync
  <2> QED
    BY <2>2, EntryType DEF State, Lifted
<1>3. CASE UNCHANGED now /\ \E t \in Token : Mutate(t)
  BY <1>3, MutateLifts
<1> QED
  BY <1>1, <1>2, <1>3 DEF RegistryNext

(* Only a reading lifts a revocation, for every constant.                    *)
THEOREM RevocationsStick == RegistrySpec => RevocationSticks
<1>1. RegistryInv /\ [RegistryNext]_RegistryVars =>
        [\A t \in Tracked \cap DOMAIN keys' :
            keys[t].revoked /\ ~keys'[t].revoked =>
                keys'[t].hasUsage /\ keys'[t].failStreak = 0]_RegistryVars
  BY NextLifts DEF Lifted, ByReading
<1> QED
  BY <1>1, RegistryInvariant, PTL DEF RegistrySpec, RevocationSticks
=============================================================================
