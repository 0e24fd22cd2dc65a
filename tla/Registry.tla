------------------------------ MODULE Registry ------------------------------
(***************************************************************************)
(* The credential table (internal/pool/registry.go).  Every method runs      *)
(* under the table's lock, so each is one atomic action.  The time a method  *)
(* is given was read from the clock before the lock was taken, hence the     *)
(* argument "at" and, in the module's own specification, a bounded lag.      *)
(*                                                                         *)
(* Name, AuthID, APIKey, BaseURL and ProxyURL are functions of the token     *)
(* and of the configuration; only Provider is kept, because routing reads it.*)
(***************************************************************************)
EXTENDS Base, Usage

CONSTANTS Reading,      \* the answers the usage endpoint may give
          SuspectHold,  \* how long a live 429 keeps a credential out
          MaxLag,       \* bound: clock read to lock taken
          MaxStreak     \* bound: counted fetch failures

ASSUME ReadingAssumption == Reading \subseteq Usage
ASSUME HoldAssumption == SuspectHold \in Nat \ {0}
ASSUME LagAssumption == MaxLag \in Nat /\ MaxLag < SuspectHold
ASSUME StreakAssumption == MaxStreak \in Nat

VARIABLE keys           \* Registry.keys: the tracked credentials

State == [provider    : Provider,
          usage       : Usage,
          hasUsage    : BOOLEAN,
          fetchedAt   : Nat,
          failStreak  : Nat,
          revoked     : BOOLEAN,
          suspectedAt : Nat,
          lastSeenAt  : Nat]

(* What config.yaml may list: some of the tokens, each in a provider group.  *)
Config == UNION {[S -> Provider] : S \in SUBSET Token}

Tracked == DOMAIN keys

Suspected429(state, at) ==
    /\ state.suspectedAt # Never
    /\ at - state.suspectedAt < SuspectHold

Fresh(provider) == [provider    |-> provider,
                    usage       |-> NoUsage,
                    hasUsage    |-> FALSE,
                    fetchedAt   |-> Never,
                    failStreak  |-> 0,
                    revoked     |-> FALSE,
                    suspectedAt |-> Never,
                    lastSeenAt  |-> Never]

-----------------------------------------------------------------------------
RegistryInit == ClockInit /\ keys = [t \in {} |-> Fresh(t)]

(* Mutant of Sync: the table is rebuilt from the file.                       *)
SyncRebuilds(config) == keys' = [t \in DOMAIN config |-> Fresh(config[t])]

(* Replace the table by what the configuration lists.  A credential that     *)
(* survives keeps everything the pool learnt about it.                      *)
Sync(config) ==
    keys' = [t \in DOMAIN config |->
               IF t \in Tracked
                 THEN [keys[t] EXCEPT !.provider = config[t]]
                 ELSE Fresh(config[t])]

(* Every store method is a no-op for a token the table does not hold.        *)
Update(t, state) ==
    keys' = IF t \in Tracked THEN [keys EXCEPT ![t] = state] ELSE keys

Touch(t, at) == Update(t, [keys[t] EXCEPT !.lastSeenAt = at])

(* Mutant of StoreUsage: a healthy reading ages the 429 out at once.         *)
StoreUsageLiftsHold(t, reading, at) ==
    Update(t, [keys[t] EXCEPT !.usage       = reading,
                              !.hasUsage    = TRUE,
                              !.fetchedAt   = at,
                              !.failStreak  = 0,
                              !.revoked     = FALSE,
                              !.suspectedAt = at - SuspectHold])

StoreUsage(t, reading, at) ==
    Update(t, [keys[t] EXCEPT !.usage       = reading,
                              !.hasUsage    = TRUE,
                              !.fetchedAt   = at,
                              !.failStreak  = 0,
                              !.revoked     = FALSE,
                              !.suspectedAt = IF at - @ >= SuspectHold
                                                THEN Never
                                                ELSE @])

StoreFetchFailure(t) == Update(t, [keys[t] EXCEPT !.failStreak = @ + 1])

(* Mutant of StoreRevoked: the last reading is kept.                         *)
StoreRevokedKeepsUsage(t) ==
    Update(t, [keys[t] EXCEPT !.revoked = TRUE, !.failStreak = 0])

StoreRevoked(t) ==
    Update(t, [keys[t] EXCEPT !.revoked    = TRUE,
                              !.failStreak = 0,
                              !.hasUsage   = FALSE,
                              !.usage      = NoUsage])

MarkSuspected429(t, at) == Update(t, [keys[t] EXCEPT !.suspectedAt = at])

Remove(t) == keys' = [u \in Tracked \ {t} |-> keys[u]]

-----------------------------------------------------------------------------
(* The table on its own, driven by every caller it has.                     *)
ReadClock == {at \in 1..now : now - at <= MaxLag}

Mutate(t) ==
    \/ \E at \in ReadClock : Touch(t, at)
    \/ \E reading \in Reading, at \in ReadClock : StoreUsage(t, reading, at)
    \/ t \in Tracked /\ keys[t].failStreak < MaxStreak /\ StoreFetchFailure(t)
    \/ StoreRevoked(t)
    \/ \E at \in ReadClock : MarkSuspected429(t, at)
    \/ Remove(t)

RegistryNext ==
    \/ Tick /\ UNCHANGED keys
    \/ UNCHANGED now /\ \E config \in Config : Sync(config)
    \/ UNCHANGED now /\ \E t \in Token : Mutate(t)

RegistryVars == <<now, keys>>
RegistrySpec == RegistryInit /\ [][RegistryNext]_RegistryVars

-----------------------------------------------------------------------------
(* The type invariant of the table and of the clock.                        *)
RegistryTypeOK ==
    /\ now \in Nat \ {0}
    /\ Tracked \subseteq Token
    /\ keys \in [Tracked -> State]

(* What the ranking relies on: a reading is dated, a credential without a    *)
(* reading shows none (its windows would still rank it or bar it), and a     *)
(* revoked credential shows none either, whatever the order in which the     *)
(* answers of the endpoint were stored (StoreUsage, StoreRevoked, Sync).     *)
ReadingsCoherent ==
    \A t \in Tracked :
        /\ keys[t].hasUsage => keys[t].fetchedAt # Never
        /\ ~keys[t].hasUsage => keys[t].usage = NoUsage
        /\ keys[t].revoked => ~keys[t].hasUsage

(* The hold is a floor: no call on a credential that stays in the table may  *)
(* shorten the time a live 429 keeps it out of the rotation, neither a       *)
(* healthy reading nor a second 429 nor a reload (registry.go:48-58).        *)
HoldIsAFloor ==
    [][\A t \in Tracked \cap DOMAIN keys' :
          Suspected429(keys[t], now') => Suspected429(keys'[t], now')]_RegistryVars

(* A call about t alone: the other entries stay as they are, t where it is.  *)
CallOn(t) ==
    /\ DOMAIN keys' = Tracked
    /\ keys'[t].provider = keys[t].provider
    /\ \A u \in Tracked \ {t} : keys'[u] = keys[u]

(* Nothing is forgotten but what an answer about the credential supersedes.  *)
Superseded(old, new) ==
    /\ old.lastSeenAt # Never => new.lastSeenAt # Never
    /\ old.fetchedAt # Never => new.fetchedAt # Never
    /\ old.suspectedAt # Never => new.suspectedAt # Never \/ new.hasUsage
    /\ \/ new.hasUsage \/ new.revoked
       \/ ~old.hasUsage /\ ~old.revoked /\ old.failStreak <= new.failStreak

(* A reload costs a credential that stays nothing but its old place, whether *)
(* or not others come and go with it; one that comes back starts with        *)
(* nothing from its earlier life; and what was learnt about a credential     *)
(* changes only by a call about that credential alone, which never turns     *)
(* knowledge into ignorance (registry.go:85-132, 165-226).                  *)
ReloadIsClean ==
    [][\A t \in DOMAIN keys' :
          IF t \in Tracked
            THEN \/ keys'[t] = [keys[t] EXCEPT !.provider = keys'[t].provider]
                 \/ CallOn(t) /\ Superseded(keys[t], keys'[t])
            ELSE keys'[t] = Fresh(keys'[t].provider)]_RegistryVars

(* Only a successful reading lifts a revocation while the credential stays:  *)
(* not a failed fetch, not a 429, not a reload (registry.go:174-217).        *)
RevocationSticks ==
    [][\A t \in Tracked \cap DOMAIN keys' :
          keys[t].revoked /\ ~keys'[t].revoked =>
              keys'[t].hasUsage /\ keys'[t].failStreak = 0]_RegistryVars
=============================================================================
