---------------------------- MODULE RoutingProofs ----------------------------
(***************************************************************************)
(* What a pick owes its caller, for any number of concurrent picks, tokens,  *)
(* providers, sessions and configurations, and any number of changes around  *)
(* them.                                                                    *)
(***************************************************************************)
EXTENDS Routing, RankingProofs, RegistryProofs, SessionsProofs

Steps == {"idle", "load", "read", "bind", "done"}

Call == [step    : Steps,
         session : Session \cup {NoSession},
         offered : SUBSET Token,
         todo    : SUBSET Token,
         at      : Nat,
         set     : Settings,
         seen    : UNION {[S -> Appraisal] : S \in SUBSET Token},
         outcome : Outcome,
         token   : Token \cup {Never}]

(* A pick works off a finite list of candidates, at a time that has passed.  *)
InHand(p) ==
    /\ picks[p].at <= now
    /\ IsFiniteSet(picks[p].offered)
    /\ picks[p].todo \subseteq picks[p].offered
    /\ DOMAIN picks[p].seen \subseteq picks[p].offered \ picks[p].todo
    /\ picks[p].step \in {"idle", "load"} => DOMAIN picks[p].seen = {}
    /\ picks[p].step = "load" => picks[p].todo = picks[p].offered

RoutingTyped ==
    /\ RegistryInv
    /\ SessionsInv
    /\ cfg \in PluginConfigs
    /\ healthy \in BOOLEAN
    /\ settings \in Settings
    /\ sync \in [step : {"idle", "forget"}, removed : SUBSET Token]
    /\ picks \in [Request -> Call]
    /\ \A p \in Request : InHand(p)

-----------------------------------------------------------------------------
Deciding(p) == picks[p].step \in {"read", "bind"}

(* What held throughout holds now.                                          *)
Witnessed(p) ==
    Deciding(p) =>
        /\ watch[p].dead \subseteq Dead
        /\ watch[p].unfit \subseteq Unfit
        /\ watch[p].fit \subseteq Fit
        /\ watch[p].holds \subseteq Holds(p)
        /\ watch[p].elsewhere \subseteq Elsewhere(p)

(* What the pick has read agrees with what held throughout, and what it has  *)
(* yet to read will: a credential that stays fit carries no 429 younger than *)
(* the pick, and one its settings exclude was not fit when it started.       *)
Informed(p) ==
    Deciding(p) =>
        /\ \A t \in DOMAIN picks[p].seen :
              LET view == picks[p].seen[t] IN
              /\ view.spared => t \notin picks[p].set.exclude
              /\ view.spared => t \notin watch[p].dead
              /\ view.usable => view.spared
              /\ view.usable => t \notin watch[p].unfit
        /\ \A t \in watch[p].fit :
              /\ t \notin picks[p].set.exclude
              /\ ~Suspected429(keys[t], picks[p].at)
        /\ \A t \in watch[p].fit \cap (picks[p].offered \ picks[p].todo) :
              t \in Judged(p)

(* A session that holds a credential which the pick must honour.             *)
Owed(p, t) ==
    /\ t \in picks[p].offered \cap watch[p].fit
    /\ <<picks[p].seen[t].provider, t>> \in watch[p].holds

(* A pick that is about to bind found no pin and no binding to follow; one   *)
(* that is there by now was made by another pick of its session.             *)
Undecided(p) ==
    At(p, "bind") =>
        /\ picks[p].todo = {}
        /\ Routable(p)
        /\ Judged(p) # {}
        /\ PinOf(p) \cap Judged(p) = {}
        /\ picks[p].outcome \in {"rebound", "assigned"}
        /\ \A t \in Token : ~Owed(p, t)
        /\ Sticks(p) => watch[p].elsewhere # Request \ {p}

(* What the answer must satisfy, pick by pick.                              *)
Honest(p) ==
    Answered(p) =>
        /\ picks[p].token \notin watch[p].dead \cup picks[p].set.exclude
        /\ picks[p].outcome # "fallback" => picks[p].token \notin watch[p].unfit

Desperate(p) ==
    /\ At(p, "done")
    /\ \/ picks[p].outcome \in {"fallback", "mapping_failed"}
       \/ picks[p].outcome = "unhandled" /\ Routable(p)
    => picks[p].offered \cap watch[p].fit = {}

Obedient(p) ==
    Answered(p) =>
        \A t \in PinOf(p) :
            t \in picks[p].offered \cap watch[p].fit => picks[p].token = t

Loyal(p) ==
    Answered(p) /\ picks[p].outcome # "pinned" =>
        \A t \in Token : Owed(p, t) => picks[p].token = t

Settled(p) == Honest(p) /\ Desperate(p) /\ Obedient(p) /\ Loyal(p)

PickInv(p) == Witnessed(p) /\ Informed(p) /\ Undecided(p) /\ Settled(p)

(* What the history records.                                                *)
Watched == [dead : SUBSET Token, unfit : SUBSET Token, fit : SUBSET Token,
            holds : SUBSET (Provider \X Token), elsewhere : SUBSET Request]

Pruning == [due : SUBSET Token, half : SUBSET Token]

(* A pick that has read its time has read a real one.                        *)
Dated(p) == Deciding(p) => picks[p].at # Never

RoutingInv ==
    /\ RoutingTyped
    /\ pruning \in Pruning
    /\ watch \in [Request -> Watched]
    /\ \A p \in Request : Dated(p)
    /\ \A p \in Request : PickInv(p)

-----------------------------------------------------------------------------
(* Types of what a pick reads.                                              *)

LEMMA SomePeak ==
    ASSUME NEW u \in Usage, \E w \in Windows(u) : w.hasPercent
    PROVE  \E v \in {w.percent : w \in Windows(u)} : IsPeak(u, v)
<1>1. /\ u.rolling \in Window /\ u.weekly \in Window /\ u.monthly \in Window
      /\ Windows(u) = {u.rolling, u.weekly, u.monthly}
  BY DEF Usage, Windows
<1>2. \A w \in Windows(u) : w.percent \in Int
  BY <1>1 DEF Window
<1>3. PICK w \in Windows(u) :
        w.hasPercent /\ \A v \in Windows(u) : v.hasPercent => v.percent <= w.percent
  BY <1>1, <1>2
<1> QED
  BY <1>3 DEF IsPeak

LEMMA MaxPercentType ==
    ASSUME NEW u \in Usage
    PROVE  MaxPercent(u) \in Score
<1>1. NoScore \in Score
  BY DEF NoScore, Score
<1>2. ASSUME \E w \in Windows(u) : w.hasPercent
      PROVE  MaxPercent(u) \in Score
  <2> DEFINE S == {w.percent : w \in Windows(u)}
             peak == CHOOSE v \in S : IsPeak(u, v)
  <2>1. peak \in S
    BY <1>2, SomePeak
  <2>2. S \subseteq Int
    BY DEF Usage, Windows, Window
  <2>3. peak \in Int
    BY <2>1, <2>2
  <2>4. MaxPercent(u) = ScoreOf(peak)
    BY <1>2 DEF MaxPercent
  <2> QED
    BY <2>3, <2>4 DEF ScoreOf, Score
<1> QED
  BY <1>1, <1>2 DEF MaxPercent

LEMMA RankPercentType ==
    ASSUME NEW state \in State, NEW set, NEW at
    PROVE  RankPercent(state, set, at) \in Score
<1>1. state.usage.rolling \in Window
  BY DEF State, Usage
<1>2. SortPercent(state.usage) \in Score
  BY <1>1 DEF SortPercent, Window, ScoreOf, NoScore, Score
<1>3. NoScore \in Score
  BY DEF NoScore, Score
<1> QED
  BY <1>2, <1>3 DEF RankPercent

LEMMA AppraiseType ==
    ASSUME NEW t, NEW state \in State, NEW set, NEW at
    PROVE  Appraise(t, state, set, at) \in Appraisal
<1>1. state.provider \in Provider /\ state.usage \in Usage
  BY DEF State
<1>2. Usable(t, state, set, at) \in BOOLEAN
  BY DEF Usable
<1>3. Spared(t, state, set) \in BOOLEAN
  BY DEF Spared
<1> QED
  BY <1>1, <1>2, <1>3, MaxPercentType, RankPercentType DEF Appraise, Appraisal

LEMMA ResolvedType ==
    ASSUME NEW config \in PluginConfigs, Tracked \subseteq Token
    PROVE  Resolved(config, keys) \in Settings
<1>1. config \in PluginConfig
  BY PluginConfigAssumption
<1>2. PICK S \in SUBSET Session : config.pins \in [S -> Token]
  BY <1>1 DEF PluginConfig
<1> DEFINE R == {s \in DOMAIN config.pins : config.pins[s] \in DOMAIN keys}
<1>3. R \in SUBSET Session /\ [s \in R |-> config.pins[s]] \in [R -> Token]
  BY <1>2
<1>4. config.exclude \cap DOMAIN keys \in SUBSET Token /\ config.staleAfter \in Nat
  BY <1>1 DEF PluginConfig
<1>5. [s \in R |-> config.pins[s]] \in UNION {[T -> Token] : T \in SUBSET Session}
  BY <1>3
<1> QED
  BY <1>4, <1>5 DEF Resolved, Settings

(* Only the pick that acts changes.                                         *)
LEMMA Moves ==
    ASSUME RoutingTyped, NEW p \in Request, NEW c, Becomes(p, c)
    PROVE  /\ picks'[p] = c
           /\ \A q \in Request \ {p} : picks'[q] = picks[q]
           /\ c \in Call => picks' \in [Request -> Call]
  BY DEF Becomes, RoutingTyped

-----------------------------------------------------------------------------
(* What happens to the credential table.                                    *)

(* A 429 mark stays, is lifted, or is set to the present.                    *)
MarksMove ==
    \A t \in Tracked \cap DOMAIN keys' :
        keys'[t].suspectedAt \in {keys[t].suspectedAt, Never, now'}

LEMMA NowIsRead ==
    ASSUME RegistryInv
    PROVE  now \in ReadClock /\ now \in Nat \ {0}
  BY LagAssumption DEF RegistryInv, RegistryTypeOK, ReadClock

LEMMA MarksUpdated ==
    ASSUME UNCHANGED now, NEW t \in Token, NEW state, Update(t, state),
           t \in Tracked => state.suspectedAt \in {keys[t].suspectedAt, Never, now'}
    PROVE  MarksMove
  BY DEF MarksMove, Update, Tracked

LEMMA TouchMoves ==
    ASSUME RegistryInv, UNCHANGED now, NEW t \in Token, NEW at \in Nat, Touch(t, at)
    PROVE  RegistryInv' /\ MarksMove
<1> DEFINE s == [keys[t] EXCEPT !.lastSeenAt = at]
<1>1. t \in Tracked => s \in State /\ Coherent(s) /\ s.suspectedAt = keys[t].suspectedAt
  BY EntryType DEF State, Coherent
<1> QED
  BY <1>1, UpdateInv, MarksUpdated DEF Touch

LEMMA AnswerMoves ==
    ASSUME RegistryInv, UNCHANGED now, NEW t \in Tracked, Answer(t)
    PROVE  RegistryInv' /\ MarksMove
<1>1. t \in Token /\ keys[t] \in State
  BY EntryType DEF RegistryInv, RegistryTypeOK
<1>2. CASE \E reading \in Reading : StoreUsage(t, reading, now)
  <2>1. PICK reading \in Reading : StoreUsage(t, reading, now)
    BY <1>2
  <2> DEFINE s == [keys[t] EXCEPT !.usage       = reading,
                                  !.hasUsage    = TRUE,
                                  !.fetchedAt   = now,
                                  !.failStreak  = 0,
                                  !.revoked     = FALSE,
                                  !.suspectedAt = IF now - @ >= SuspectHold
                                                    THEN Never
                                                    ELSE @]
  <2>2. s.suspectedAt \in {keys[t].suspectedAt, Never}
    BY <1>1 DEF State
  <2>3. MarksMove
    BY <1>1, <2>1, <2>2, MarksUpdated DEF StoreUsage
  <2>4. RegistryInv'
    BY <1>1, <2>1, NowIsRead, MutateInv DEF Mutate
  <2> QED
    BY <2>3, <2>4
<1>3. CASE keys[t].failStreak < MaxStreak /\ StoreFetchFailure(t)
  <2>1. [keys[t] EXCEPT !.failStreak = @ + 1].suspectedAt = keys[t].suspectedAt
    BY <1>1 DEF State
  <2>2. MarksMove
    BY <1>1, <1>3, <2>1, MarksUpdated DEF StoreFetchFailure
  <2>3. RegistryInv'
    BY <1>1, <1>3, MutateInv DEF Mutate
  <2> QED
    BY <2>2, <2>3
<1>4. CASE StoreRevoked(t)
  <2>1. [keys[t] EXCEPT !.revoked    = TRUE,
                        !.failStreak = 0,
                        !.hasUsage   = FALSE,
                        !.usage      = NoUsage].suspectedAt = keys[t].suspectedAt
    BY <1>1 DEF State
  <2>2. MarksMove
    BY <1>1, <1>4, <2>1, MarksUpdated DEF StoreRevoked
  <2>3. RegistryInv'
    BY <1>1, <1>4, MutateInv DEF Mutate
  <2> QED
    BY <2>2, <2>3
<1> QED
  BY <1>2, <1>3, <1>4 DEF Answer

LEMMA NoteMoves ==
    ASSUME RegistryInv, UNCHANGED now, NEW t \in Tracked, Note429(t)
    PROVE  RegistryInv' /\ MarksMove
<1>1. t \in Token /\ keys[t] \in State
  BY EntryType DEF RegistryInv, RegistryTypeOK
<1>2. [keys[t] EXCEPT !.suspectedAt = now].suspectedAt = now
  BY <1>1 DEF State
<1>3. MarksMove
  BY <1>1, <1>2, MarksUpdated DEF Note429, MarkSuspected429
<1>4. RegistryInv'
  BY <1>1, NowIsRead, MutateInv DEF Mutate, Note429
<1> QED
  BY <1>3, <1>4

LEMMA ListingMoves ==
    ASSUME RegistryInv, UNCHANGED now, NEW listing \in Listings, Sync(listing)
    PROVE  RegistryInv' /\ MarksMove
<1>1. listing \in Config
  BY ListingsAssumption
<1>2. ASSUME NEW t \in Tracked \cap DOMAIN keys'
      PROVE  keys'[t].suspectedAt = keys[t].suspectedAt
  <2>1. keys'[t] = [keys[t] EXCEPT !.provider = listing[t]]
    BY <1>2 DEF Sync
  <2>2. keys[t] \in State
    BY <1>2, EntryType
  <2> QED
    BY <2>1, <2>2 DEF State
<1>3. MarksMove
  BY <1>2 DEF MarksMove
<1> QED
  BY <1>1, <1>3, SyncInv

LEMMA RemoveMoves ==
    ASSUME RegistryInv, UNCHANGED now, NEW t \in Token, Remove(t)
    PROVE  RegistryInv' /\ MarksMove
<1>1. RegistryInv'
  BY MutateInv DEF Mutate
<1>2. MarksMove
  BY DEF Remove, MarksMove, Tracked
<1> QED
  BY <1>1, <1>2

LEMMA KeysRest ==
    ASSUME RegistryInv, UNCHANGED <<now, keys>>
    PROVE  RegistryInv' /\ MarksMove
  BY DEF RegistryInv, RegistryTypeOK, ReadingsCoherent, Tracked, MarksMove

-----------------------------------------------------------------------------
(* What happens to the binding table.                                       *)

(* A binding that is there afterwards was there before, to the same token,   *)
(* and was live if it is live.                                              *)
Rests(k) ==
    k \in DOMAIN items' =>
        /\ k \in Bound
        /\ items'[k].token = items[k].token
        /\ now' < items'[k].expiry => Live(k)

LEMMA KeepRests ==
    ASSUME SessionsInv, UNCHANGED now, NEW S \in SUBSET Bound, Keep(S), NEW k
    PROVE  Rests(k)
<1>1. k \in S => items'[k] = items[k]
  BY DEF Keep
<1>2. DOMAIN items' = S
  BY DEF Keep
<1>3. k \in Bound => items[k].expiry \in Nat /\ now \in Nat
  BY DEF SessionsInv, SessionsTypeOK, Binding
<1> QED
  BY <1>1, <1>2, <1>3 DEF Rests, Live, Expired

LEMMA ItemsRest ==
    ASSUME SessionsInv, UNCHANGED items, now' \in Nat, now <= now', NEW k
    PROVE  Rests(k)
<1>1. k \in Bound => items[k].expiry \in Nat /\ now \in Nat
  BY DEF SessionsInv, SessionsTypeOK, Binding
<1> QED
  BY <1>1 DEF Rests, Live, Expired, Bound

LEMMA BindRests ==
    ASSUME SessionsInv, UNCHANGED now, NEW j, NEW token, Bind(j, token), NEW k, k # j
    PROVE  Rests(k)
<1>1. k \in DOMAIN items' => k \in Bound /\ items'[k] = items[k]
  BY DEF Bind
<1>2. k \in Bound => items[k].expiry \in Nat /\ now \in Nat
  BY DEF SessionsInv, SessionsTypeOK, Binding
<1> QED
  BY <1>1, <1>2 DEF Rests, Live, Expired

LEMMA GetRests ==
    ASSUME SessionsInv, UNCHANGED now, NEW j, Get(j), NEW k
    PROVE  Rests(k)
<1>1. CASE UNCHANGED items
  <2>1. now \in Nat
    BY DEF SessionsInv, SessionsTypeOK
  <2> QED
    BY <1>1, <2>1, ItemsRest
<1>2. CASE Keep(Bound \ {j})
  BY <1>2, KeepRests
<1>3. CASE Live(j) /\ items' = [items EXCEPT ![j].expiry = now + ttl]
  <2>1. DOMAIN items' = Bound
    BY <1>3 DEF Bound
  <2>2. k \in Bound => items[k] \in Binding /\ now \in Nat /\ items[k].expiry \in Nat
    BY DEF SessionsInv, SessionsTypeOK, Binding
  <2>3. k # j /\ k \in Bound => items'[k] = items[k]
    BY <1>3 DEF Bound
  <2>4. j \in Bound => items'[j].token = items[j].token
    BY <1>3 DEF SessionsInv, SessionsTypeOK, Binding, Bound
  <2> QED
    BY <1>3, <2>1, <2>2, <2>3, <2>4 DEF Rests, Live, Expired
<1> QED
  BY <1>1, <1>2, <1>3 DEF Get

LEMMA ConfigureRests ==
    ASSUME SessionsInv, UNCHANGED now, NEW newTTL, NEW newMax, Configure(newTTL, newMax), NEW k
    PROVE  Rests(k)
  BY KeepRests DEF Configure

-----------------------------------------------------------------------------
(* Type correctness, one pick step after the other.                         *)

LEMMA CallType ==
    ASSUME RoutingTyped, NEW p \in Request
    PROVE  /\ picks[p] \in Call
           /\ InHand(p)
           /\ picks[p].seen \in [DOMAIN picks[p].seen -> Appraisal]
           /\ DOMAIN picks[p].seen \subseteq Token
           /\ picks[p].offered \subseteq Token
           /\ now \in Nat \ {0}
<1>1. picks[p] \in Call /\ InHand(p) /\ now \in Nat \ {0}
  BY DEF RoutingTyped, RegistryInv, RegistryTypeOK
<1>2. PICK S \in SUBSET Token : picks[p].seen \in [S -> Appraisal]
  BY <1>1 DEF Call
<1>3. picks[p].offered \in SUBSET Token
  BY <1>1 DEF Call
<1> QED
  BY <1>1, <1>2, <1>3

LEMMA CallsType ==
    ASSUME RoutingTyped, UNCHANGED now, NEW p \in Request, NEW c \in Call, Becomes(p, c),
           InHand(p)'
    PROVE  picks' \in [Request -> Call] /\ \A q \in Request : InHand(q)'
<1>1. \A q \in Request \ {p} : picks'[q] = picks[q] /\ InHand(q)
  BY Moves DEF RoutingTyped
<1>2. \A q \in Request \ {p} : InHand(q)'
  BY <1>1 DEF InHand
<1> QED
  BY <1>2, Moves

LEMMA TypedMoves ==
    ASSUME RoutingTyped, UNCHANGED <<now, serviceVars>>,
           RegistryInv', SessionsInv',
           picks' \in [Request -> Call], \A q \in Request : InHand(q)'
    PROVE  RoutingTyped'
  BY DEF RoutingTyped, serviceVars

LEMMA SessionsRest ==
    ASSUME SessionsInv, now' \in Nat \ {0}, UNCHANGED sessionsVars
    PROVE  SessionsInv'
  BY DEF sessionsVars, SessionsInv, SessionsTypeOK, RecencyIsOrder, WithinCapacity, Bound

(* The candidates of a routable pick are of one provider, that of its key.   *)
LEMMA OneGroup ==
    ASSUME RoutingTyped, NEW p \in Request, Routable(p)
    PROVE  /\ KeyOf(p) \in Key
           /\ KeyOf(p)[1] = picks[p].session
           /\ \A t \in DOMAIN picks[p].seen :
                KeyOf(p) = <<picks[p].session, picks[p].seen[t].provider>>
<1> DEFINE D == DOMAIN picks[p].seen
           f == [t \in D |-> picks[p].seen[t].provider]
<1>1. D \subseteq picks[p].offered /\ IsFiniteSet(picks[p].offered)
  BY CallType DEF InHand
<1>2. IsFiniteSet(D)
  BY <1>1, FS_Subset
<1>3. f \in Surjection(D, Groups(p))
  BY DEF Surjection, Groups
<1>4. IsFiniteSet(Groups(p))
  BY <1>2, <1>3, FS_Surjection
<1>5. PICK group : Groups(p) = {group}
  BY <1>4, FS_Singleton DEF Routable
<1>6. Groups(p) \subseteq Provider
  <2>1. \A t \in D : picks[p].seen[t] \in Appraisal
    BY CallType
  <2> QED
    BY <2>1 DEF Groups, Appraisal
<1>7. KeyOf(p) = <<picks[p].session, group>>
  BY <1>5 DEF KeyOf
<1>8. \A t \in D : picks[p].seen[t].provider = group
  BY <1>5 DEF Groups
<1>9. picks[p].session \in Session
  BY CallType DEF Call, Routable
<1> QED
  BY <1>5, <1>6, <1>7, <1>8, <1>9 DEF Key

LEMMA IdleCall == Idle \in Call
<1>1. [t \in {} |-> Never] \in UNION {[S -> Appraisal] : S \in SUBSET Token}
  <2>1. [t \in {} |-> Never] \in [{} -> Appraisal]
    OBVIOUS
  <2> QED
    BY <2>1
<1>2. [exclude |-> {}, pins |-> [s \in {} |-> Never], staleAfter |-> 0] \in Settings
  <2>1. [s \in {} |-> Never] \in [{} -> Token]
    OBVIOUS
  <2>2. [s \in {} |-> Never] \in UNION {[S -> Token] : S \in SUBSET Session}
    BY <2>1
  <2> QED
    BY <2>2 DEF Settings
<1> QED
  BY <1>1, <1>2 DEF Idle, Call, Steps, Outcome, Never

LEMMA BeginTyped ==
    ASSUME RoutingTyped, UNCHANGED <<now, serviceVars>>, NEW p \in Request, PickBegin(p)
    PROVE  RoutingTyped'
<1>1. PICK s \in Session \cup {NoSession}, offered \in Offers :
        Becomes(p, [Idle EXCEPT !.step = IF Ready THEN "load" ELSE "done",
                                !.session = s, !.offered = offered, !.todo = offered])
  BY DEF PickBegin
<1> DEFINE step == IF Ready THEN "load" ELSE "done"
           c == [Idle EXCEPT !.step = step,
                             !.session = s, !.offered = offered, !.todo = offered]
<1>2. offered \subseteq Token /\ IsFiniteSet(offered)
  BY OffersAssumption
<1>3. /\ c \in Call /\ c.step = step /\ c.at = 0 /\ c.offered = offered
      /\ c.todo = offered /\ c.seen = [t \in {} |-> Never]
  BY <1>2, IdleCall DEF Call, Steps, Idle, Never
<1>4. picks'[p] = c
  BY <1>1, Moves
<1>5. InHand(p)'
  BY <1>2, <1>3, <1>4, CallType DEF InHand
<1>6. UNCHANGED <<keys, sessionsVars>>
  BY DEF PickBegin
<1> QED
  BY <1>1, <1>3, <1>5, <1>6, CallsType, KeysRest, SessionsRest, CallType, TypedMoves
  DEF RoutingTyped

LEMMA LoadTyped ==
    ASSUME RoutingTyped, UNCHANGED <<now, serviceVars>>, NEW p \in Request, PickLoad(p)
    PROVE  RoutingTyped'
<1> DEFINE c == [picks[p] EXCEPT !.step = "read", !.set = settings, !.at = now]
<1>1. Becomes(p, c) /\ UNCHANGED <<keys, sessionsVars>> /\ picks[p].step = "load"
  BY DEF PickLoad, At
<1>2. /\ c \in Call /\ c.step = "read" /\ c.at = now /\ c.offered = picks[p].offered
      /\ c.todo = picks[p].todo /\ c.seen = picks[p].seen
  BY CallType DEF Call, Steps, RoutingTyped
<1>3. picks'[p] = c
  BY <1>1, Moves
<1>4. InHand(p)'
  BY <1>2, <1>3, CallType DEF InHand
<1> QED
  BY <1>1, <1>2, <1>4, CallsType, KeysRest, SessionsRest, CallType, TypedMoves
  DEF RoutingTyped

(* What a read adds to what the pick has seen.                              *)
SeenWith(p, t) ==
    [u \in DOMAIN picks[p].seen \cup ({t} \cap Tracked) |->
        IF u = t THEN Appraise(t, keys[t], picks[p].set, picks[p].at)
                 ELSE picks[p].seen[u]]

LEMMA SeenWithType ==
    ASSUME RoutingTyped, NEW p \in Request, NEW t \in picks[p].todo
    PROVE  SeenWith(p, t) \in UNION {[S -> Appraisal] : S \in SUBSET Token}
<1> DEFINE D == DOMAIN picks[p].seen \cup ({t} \cap Tracked)
<1>1. D \in SUBSET Token /\ t \notin DOMAIN picks[p].seen /\ t \in Token
  BY CallType DEF InHand
<1>2. \A u \in DOMAIN picks[p].seen : picks[p].seen[u] \in Appraisal
  BY CallType
<1>3. t \in Tracked => Appraise(t, keys[t], picks[p].set, picks[p].at) \in Appraisal
  BY EntryType, AppraiseType DEF RoutingTyped
<1>4. ASSUME NEW u \in D
      PROVE  (IF u = t THEN Appraise(t, keys[t], picks[p].set, picks[p].at)
                       ELSE picks[p].seen[u]) \in Appraisal
  <2>1. CASE u = t /\ t \in Tracked
    BY <1>3, <2>1
  <2>2. CASE u = t /\ t \notin Tracked
    BY <1>1, <1>4, <2>2
  <2>3. CASE u # t
    BY <1>2, <1>4, <2>3
  <2> QED
    BY <2>1, <2>2, <2>3
<1>5. SeenWith(p, t) \in [D -> Appraisal]
  BY <1>4 DEF SeenWith
<1> QED
  BY <1>1, <1>5

LEMMA ReadMoves ==
    ASSUME RoutingTyped, NEW p \in Request, NEW t \in picks[p].todo,
           Becomes(p, [picks[p] EXCEPT !.todo = @ \ {t}, !.seen = SeenWith(p, t)])
    PROVE  /\ picks'[p] \in Call
           /\ picks'[p].todo = picks[p].todo \ {t}
           /\ picks'[p].seen = SeenWith(p, t)
           /\ picks'[p].step = picks[p].step
           /\ picks'[p].session = picks[p].session
           /\ picks'[p].offered = picks[p].offered
           /\ picks'[p].at = picks[p].at
           /\ picks'[p].set = picks[p].set
<1> DEFINE c == [picks[p] EXCEPT !.todo = @ \ {t}, !.seen = SeenWith(p, t)]
<1>1. picks[p] \in Call /\ SeenWith(p, t) \in UNION {[S -> Appraisal] : S \in SUBSET Token}
  BY CallType, SeenWithType
<1>2. picks[p].todo \ {t} \in SUBSET Token
  BY <1>1 DEF Call
<1>3. /\ c \in Call /\ c.todo = picks[p].todo \ {t} /\ c.seen = SeenWith(p, t)
      /\ c.step = picks[p].step /\ c.session = picks[p].session
      /\ c.offered = picks[p].offered /\ c.at = picks[p].at /\ c.set = picks[p].set
  BY <1>1, <1>2 DEF Call
<1>4. picks'[p] = c
  BY Moves
<1> QED
  BY <1>3, <1>4

LEMMA ReadIs ==
    ASSUME NEW p \in Request, PickRead(p)
    PROVE  /\ At(p, "read") /\ UNCHANGED sessionsVars
           /\ \E t \in picks[p].todo :
                /\ Becomes(p, [picks[p] EXCEPT !.todo = @ \ {t}, !.seen = SeenWith(p, t)])
                /\ Touch(t, picks[p].at)
  BY DEF PickRead, SeenWith

LEMMA ReadTyped ==
    ASSUME RoutingTyped, UNCHANGED <<now, serviceVars>>, NEW p \in Request, PickRead(p)
    PROVE  RoutingTyped'
<1>1. PICK t \in picks[p].todo :
        /\ Becomes(p, [picks[p] EXCEPT !.todo = @ \ {t}, !.seen = SeenWith(p, t)])
        /\ Touch(t, picks[p].at)
  BY ReadIs
<1>2. t \in Token /\ picks[p].at \in Nat /\ picks[p].step = "read"
  BY CallType, ReadIs DEF Call, At
<1>3. RegistryInv'
  BY <1>1, <1>2, TouchMoves DEF RoutingTyped
<1>4. SessionsInv'
  BY ReadIs, SessionsRest, CallType DEF RoutingTyped
<1>5. DOMAIN SeenWith(p, t) \subseteq DOMAIN picks[p].seen \cup {t}
  BY DEF SeenWith
<1>6. InHand(p)'
  <2>1. /\ picks'[p].todo = picks[p].todo \ {t} /\ picks'[p].seen = SeenWith(p, t)
        /\ picks'[p].step = "read" /\ picks'[p].offered = picks[p].offered
        /\ picks'[p].at = picks[p].at /\ now' = now
    BY <1>1, <1>2, ReadMoves
  <2>2. /\ picks[p].at <= now /\ IsFiniteSet(picks[p].offered)
        /\ picks[p].todo \subseteq picks[p].offered
        /\ DOMAIN picks[p].seen \subseteq picks[p].offered \ picks[p].todo
    BY CallType DEF InHand
  <2>3. DOMAIN SeenWith(p, t) \subseteq picks[p].offered \ (picks[p].todo \ {t})
    BY <1>5, <2>2
  <2> QED
    BY <2>1, <2>2, <2>3 DEF InHand
<1> QED
  BY <1>1, <1>3, <1>4, <1>6, ReadMoves, CallsType, TypedMoves, Moves

(* Every answer ends the pick and changes nothing else of it.               *)
LEMMA FinishMoves ==
    ASSUME RoutingTyped, UNCHANGED now, NEW p \in Request, NEW outcome \in Outcome,
           NEW t \in Token \cup {Never}, Finish(p, outcome, t)
    PROVE  /\ picks' \in [Request -> Call] /\ \A q \in Request : InHand(q)'
           /\ \A q \in Request \ {p} : picks'[q] = picks[q]
           /\ picks'[p].step = "done"
           /\ picks'[p].outcome = outcome
           /\ picks'[p].token = t
           /\ picks'[p].session = picks[p].session
           /\ picks'[p].offered = picks[p].offered
           /\ picks'[p].seen = picks[p].seen
           /\ picks'[p].set = picks[p].set
<1> DEFINE c == [picks[p] EXCEPT !.step = "done", !.outcome = outcome, !.token = t]
<1>1. /\ c \in Call /\ c.step = "done" /\ c.outcome = outcome /\ c.token = t
      /\ c.session = picks[p].session /\ c.offered = picks[p].offered
      /\ c.todo = picks[p].todo /\ c.at = picks[p].at
      /\ c.seen = picks[p].seen /\ c.set = picks[p].set
  BY CallType DEF Call, Steps
<1>2. Becomes(p, c)
  BY DEF Finish
<1>3. picks'[p] = c /\ \A q \in Request \ {p} : picks'[q] = picks[q]
  BY <1>2, Moves
<1>4. InHand(p)'
  BY <1>1, <1>3, CallType DEF InHand
<1> QED
  BY <1>1, <1>2, <1>3, <1>4, CallsType

LEMMA JudgedType ==
    ASSUME RoutingTyped, NEW p \in Request
    PROVE  /\ Judged(p) \subseteq DOMAIN picks[p].seen
           /\ Judged(p) \subseteq Token
           /\ Judged(p) \subseteq picks[p].offered \ picks[p].todo
  BY CallType DEF Judged, Eligible, InHand

LEMMA DeclineTyped ==
    ASSUME RoutingTyped, UNCHANGED <<now, serviceVars>>, NEW p \in Request, PickDecline(p)
    PROVE  RoutingTyped'
<1> DEFINE outcome == IF picks[p].offered # {} /\ DOMAIN picks[p].seen = {}
                        THEN "mapping_failed" ELSE "unhandled"
<1>1. Finish(p, outcome, Never) /\ UNCHANGED <<keys, sessionsVars>> /\ outcome \in Outcome
  BY DEF PickDecline, Outcome
<1> HIDE DEF outcome
<1>2. RegistryInv' /\ SessionsInv'
  BY <1>1, KeysRest, SessionsRest, CallType DEF RoutingTyped
<1> QED
  BY <1>1, <1>2, FinishMoves, TypedMoves

(* A pick that binds and answers.                                           *)
LEMMA BindTyped ==
    ASSUME RoutingTyped, UNCHANGED <<now, keys, serviceVars>>, NEW p \in Request, Routable(p),
           NEW t \in Token, NEW outcome \in Outcome,
           Bind(KeyOf(p), t), Finish(p, outcome, t)
    PROVE  RoutingTyped'
<1>1. RegistryInv'
  BY KeysRest DEF RoutingTyped
<1>2. SessionsInv'
  BY OneGroup, BindInv DEF RoutingTyped
<1> QED
  BY <1>1, <1>2, FinishMoves, TypedMoves

LEMMA FallbackTyped ==
    ASSUME RoutingTyped, UNCHANGED <<now, serviceVars>>, NEW p \in Request, PickFallback(p)
    PROVE  RoutingTyped'
<1>1. PICK t \in Token : Bind(KeyOf(p), t) /\ Finish(p, "fallback", t)
  BY DEF PickFallback
<1>2. Routable(p) /\ UNCHANGED keys /\ "fallback" \in Outcome
  BY DEF PickFallback, Outcome
<1> QED
  BY <1>1, <1>2, BindTyped

LEMMA PinnedTyped ==
    ASSUME RoutingTyped, UNCHANGED <<now, serviceVars>>, NEW p \in Request, PickPinned(p)
    PROVE  RoutingTyped'
<1>1. PICK t \in PinOf(p) \cap Judged(p) : Bind(KeyOf(p), t) /\ Finish(p, "pinned", t)
  BY DEF PickPinned
<1>2. Routable(p) /\ UNCHANGED keys /\ "pinned" \in Outcome /\ t \in Token
  BY JudgedType DEF PickPinned, Outcome
<1> QED
  BY <1>1, <1>2, BindTyped

LEMMA BoundTyped ==
    ASSUME RoutingTyped, UNCHANGED <<now, serviceVars>>, NEW p \in Request, PickBind(p),
           Routable(p)
    PROVE  RoutingTyped'
<1>1. PICK t \in Judged(p) : Bind(KeyOf(p), t) /\ Finish(p, picks[p].outcome, t)
  BY DEF PickBind
<1>2. UNCHANGED keys /\ t \in Token /\ picks[p].outcome \in Outcome
  BY JudgedType, CallType DEF PickBind, Call
<1> QED
  BY <1>1, <1>2, BindTyped

(* The two ways a look-up ends.                                             *)
LEMMA LookupIs ==
    ASSUME RoutingTyped, UNCHANGED now, NEW p \in Request, PickLookup(p)
    PROVE  /\ Judging(p) /\ Routable(p) /\ Judged(p) # {} /\ PinOf(p) \cap Judged(p) = {}
           /\ Get(KeyOf(p)) /\ UNCHANGED keys
           /\ \/ /\ Sticks(p)
                 /\ items[KeyOf(p)].token \in Judged(p)
                 /\ Finish(p, "bound", items[KeyOf(p)].token)
              \/ /\ ~Sticks(p)
                 /\ picks' \in [Request -> Call] /\ \A q \in Request : InHand(q)'
                 /\ \A q \in Request \ {p} : picks'[q] = picks[q]
                 /\ picks'[p].step = "bind"
                 /\ picks'[p].outcome \in {"rebound", "assigned"}
                 /\ picks'[p].session = picks[p].session
                 /\ picks'[p].offered = picks[p].offered
                 /\ picks'[p].todo = picks[p].todo
                 /\ picks'[p].seen = picks[p].seen
                 /\ picks'[p].set = picks[p].set
                 /\ picks'[p].at = picks[p].at
<1>1. /\ Judging(p) /\ Routable(p) /\ Judged(p) # {} /\ PinOf(p) \cap Judged(p) = {}
      /\ Get(KeyOf(p)) /\ UNCHANGED keys
  BY DEF PickLookup
<1>2. CASE Sticks(p)
  <2>1. Finish(p, "bound", items[KeyOf(p)].token)
    BY <1>2 DEF PickLookup
  <2> QED
    BY <1>1, <1>2, <2>1 DEF Sticks
<1>3. CASE ~Sticks(p)
  <2> DEFINE outcome == IF Live(KeyOf(p)) THEN "rebound" ELSE "assigned"
             c == [picks[p] EXCEPT !.step = "bind", !.outcome = outcome]
  <2>1. Becomes(p, c)
    BY <1>3 DEF PickLookup
  <2>2. outcome \in Outcome /\ outcome \in {"rebound", "assigned"}
    BY DEF Outcome
  <2> HIDE DEF outcome
  <2>3. /\ c \in Call /\ c.step = "bind" /\ c.outcome = outcome
        /\ c.session = picks[p].session /\ c.offered = picks[p].offered
        /\ c.todo = picks[p].todo /\ c.at = picks[p].at
        /\ c.seen = picks[p].seen /\ c.set = picks[p].set
    BY <2>2, CallType DEF Call, Steps
  <2>4. picks'[p] = c /\ \A q \in Request \ {p} : picks'[q] = picks[q]
    BY <2>1, Moves
  <2>5. InHand(p)'
    <3>1. picks[p].step = "read"
      BY <1>1 DEF Judging, At
    <3> QED
      BY <2>3, <2>4, <3>1, CallType DEF InHand
  <2> HIDE DEF c
  <2>6. picks' \in [Request -> Call] /\ \A q \in Request : InHand(q)'
    BY <2>1, <2>3, <2>5, CallsType
  <2> QED
    BY <1>1, <1>3, <2>2, <2>3, <2>4, <2>6
<1> QED
  BY <1>2, <1>3

LEMMA LookupTyped ==
    ASSUME RoutingTyped, UNCHANGED <<now, serviceVars>>, NEW p \in Request, PickLookup(p)
    PROVE  RoutingTyped'
<1>1. RegistryInv'
  BY LookupIs, KeysRest DEF RoutingTyped
<1>2. SessionsInv'
  BY LookupIs, OneGroup, GetInv DEF RoutingTyped
<1>3. picks' \in [Request -> Call] /\ \A q \in Request : InHand(q)'
  <2>1. items[KeyOf(p)].token \in Judged(p) => items[KeyOf(p)].token \in Token
    BY JudgedType
  <2>2. "bound" \in Outcome
    BY DEF Outcome
  <2> QED
    BY <2>1, <2>2, LookupIs, FinishMoves
<1> QED
  BY <1>1, <1>2, <1>3, TypedMoves

LEMMA ReturnTyped ==
    ASSUME RoutingTyped, UNCHANGED <<now, serviceVars>>, NEW p \in Request, PickReturn(p)
    PROVE  RoutingTyped'
<1>1. Becomes(p, Idle) /\ UNCHANGED <<keys, sessionsVars>>
  BY DEF PickReturn
<1>2. picks'[p] = Idle
  BY <1>1, Moves
<1>3. InHand(p)'
  BY <1>2, CallType, FS_EmptySet DEF InHand, Idle, Never
<1> QED
  BY <1>1, <1>3, IdleCall, CallsType, KeysRest, SessionsRest, CallType, TypedMoves
  DEF RoutingTyped

LEMMA PickTyped ==
    ASSUME RoutingTyped, UNCHANGED <<now, serviceVars>>, NEW p \in Request, Undecided(p),
           Pick(p)
    PROVE  RoutingTyped'
<1>1. PickBind(p) => Routable(p)
  BY DEF PickBind, Undecided
<1> QED
  BY <1>1, BeginTyped, LoadTyped, ReadTyped, DeclineTyped, FallbackTyped, PinnedTyped,
     LookupTyped, BoundTyped, ReturnTyped
  DEF Pick

-----------------------------------------------------------------------------
(* The steps of the surroundings: types, 429 marks and bindings.             *)
Around ==
    /\ RoutingTyped'
    /\ UNCHANGED picks
    /\ MarksMove
    /\ \A k : Rests(k)

LEMMA AroundTyped ==
    ASSUME RoutingTyped, UNCHANGED picks, now' \in Nat, now <= now',
           RegistryInv', SessionsInv', MarksMove, \A k : Rests(k),
           cfg' \in PluginConfigs, healthy' \in BOOLEAN, settings' \in Settings,
           sync' \in [step : {"idle", "forget"}, removed : SUBSET Token]
    PROVE  Around
<1>1. \A q \in Request : picks[q].at \in Nat /\ now \in Nat /\ InHand(q)
  BY CallType DEF Call, RoutingTyped
<1>2. \A q \in Request : InHand(q)'
  BY <1>1 DEF InHand
<1> QED
  BY <1>2 DEF Around, RoutingTyped

LEMMA SyncTableAround ==
    ASSUME RoutingTyped, UNCHANGED <<now, picks>>, NEW listing \in Listings, SyncTable(listing)
    PROVE  Around
<1>1. RegistryInv' /\ MarksMove
  BY ListingMoves DEF SyncTable, RoutingTyped
<1>2. now \in Nat \ {0} /\ Tracked \subseteq Token
  BY DEF RoutingTyped, RegistryInv, RegistryTypeOK
<1>3. SessionsInv' /\ \A k : Rests(k)
  BY <1>2, SessionsRest, ItemsRest DEF SyncTable, sessionsVars, RoutingTyped
<1>4. sync' \in [step : {"idle", "forget"}, removed : SUBSET Token]
  BY <1>2 DEF SyncTable
<1> QED
  BY <1>1, <1>2, <1>3, <1>4, AroundTyped DEF SyncTable, RoutingTyped

LEMMA SyncFailsAround ==
    ASSUME RoutingTyped, UNCHANGED <<now, picks>>, SyncFails
    PROVE  Around
<1>1. RegistryInv' /\ MarksMove
  BY KeysRest DEF SyncFails, RoutingTyped
<1>2. now \in Nat \ {0}
  BY DEF RoutingTyped, RegistryInv, RegistryTypeOK
<1>3. SessionsInv' /\ \A k : Rests(k)
  BY <1>2, SessionsRest, ItemsRest DEF SyncFails, sessionsVars, RoutingTyped
<1>4. healthy' \in BOOLEAN /\ UNCHANGED <<cfg, settings, sync>>
  BY DEF SyncFails
<1> QED
  BY <1>1, <1>2, <1>3, <1>4, AroundTyped DEF RoutingTyped

LEMMA SyncForgetAround ==
    ASSUME RoutingTyped, UNCHANGED <<now, picks>>, NEW t \in Token, SyncForget(t)
    PROVE  Around
<1> DEFINE S == {k \in Bound : items[k].token # t}
<1>1. RegistryInv' /\ MarksMove
  BY KeysRest DEF SyncForget, RoutingTyped
<1>2. now \in Nat \ {0} /\ ttl' \in Nat \ {0} /\ max' \in Nat \ {0} /\ max' = max
  BY DEF RoutingTyped, SessionsInv, SessionsTypeOK, SyncForget, DropToken
<1>3. Keep(S) /\ S \in SUBSET Bound
  BY DEF SyncForget, DropToken
<1>4. SessionsInv' /\ \A k : Rests(k)
  BY <1>2, <1>3, KeepInv, FewerFit, KeepRests DEF RoutingTyped
<1>5. sync' \in [step : {"idle", "forget"}, removed : SUBSET Token]
  BY DEF SyncForget, RoutingTyped
<1> QED
  BY <1>1, <1>2, <1>4, <1>5, AroundTyped DEF SyncForget, RoutingTyped

LEMMA SyncPublishAround ==
    ASSUME RoutingTyped, UNCHANGED <<now, picks>>, SyncPublish
    PROVE  Around
<1>1. RegistryInv' /\ MarksMove
  BY KeysRest DEF SyncPublish, RoutingTyped
<1>2. now \in Nat \ {0} /\ Tracked \subseteq Token /\ cfg \in PluginConfigs
  BY DEF RoutingTyped, RegistryInv, RegistryTypeOK
<1>3. SessionsInv' /\ \A k : Rests(k)
  BY <1>2, SessionsRest, ItemsRest DEF SyncPublish, sessionsVars, RoutingTyped
<1>4. settings' \in Settings
  BY <1>2, ResolvedType DEF SyncPublish
<1>5. sync' \in [step : {"idle", "forget"}, removed : SUBSET Token]
  BY DEF SyncPublish, SyncIdle
<1> QED
  BY <1>1, <1>2, <1>3, <1>4, <1>5, AroundTyped DEF SyncPublish, RoutingTyped

LEMMA ReconfigureAround ==
    ASSUME RoutingTyped, UNCHANGED <<now, picks>>, NEW config \in PluginConfigs,
           Reconfigure(config)
    PROVE  Around
<1>1. RegistryInv' /\ MarksMove
  BY KeysRest DEF Reconfigure, RoutingTyped
<1>2. now \in Nat \ {0}
  BY DEF RoutingTyped, RegistryInv, RegistryTypeOK
<1>3. config.ttl \in TTLs /\ config.max \in Maxes
  BY PluginConfigAssumption DEF PluginConfig
<1>4. SessionsInv' /\ \A k : Rests(k)
  BY <1>3, StepInv, ConfigureRests DEF Reconfigure, SessionsStep, RoutingTyped
<1> QED
  BY <1>1, <1>2, <1>4, AroundTyped DEF Reconfigure, RoutingTyped

LEMMA AnswerAround ==
    ASSUME RoutingTyped, UNCHANGED <<now, picks>>, NEW t \in Tracked, Answer(t) \/ Note429(t)
    PROVE  Around
<1>1. RegistryInv' /\ MarksMove
  BY AnswerMoves, NoteMoves DEF RoutingTyped
<1>2. now \in Nat \ {0} /\ UNCHANGED <<sessionsVars, serviceVars>>
  BY DEF RoutingTyped, RegistryInv, RegistryTypeOK, Answer, Note429
<1>3. SessionsInv' /\ \A k : Rests(k)
  BY <1>2, SessionsRest, ItemsRest DEF sessionsVars, RoutingTyped
<1> QED
  BY <1>1, <1>2, <1>3, AroundTyped DEF serviceVars, RoutingTyped

LEMMA SweepAround ==
    ASSUME RoutingTyped, UNCHANGED <<now, picks>>, SweepSessions
    PROVE  Around
<1>1. RegistryInv' /\ MarksMove
  BY KeysRest DEF SweepSessions, RoutingTyped
<1>2. now \in Nat \ {0}
  BY DEF RoutingTyped, RegistryInv, RegistryTypeOK
<1>3. SessionsInv'
  BY StepInv DEF SweepSessions, SessionsStep, RoutingTyped
<1>4. \A k : Rests(k)
  BY KeepRests DEF SweepSessions, Sweep, RoutingTyped
<1> QED
  BY <1>1, <1>2, <1>3, <1>4, AroundTyped DEF SweepSessions, serviceVars, RoutingTyped

LEMMA PruneAround ==
    ASSUME RoutingTyped, UNCHANGED <<now, serviceVars, picks>>, Prune
    PROVE  Around
<1>1. now \in Nat \ {0} /\ UNCHANGED <<cfg, healthy, settings, sync>>
  BY DEF RoutingTyped, RegistryInv, RegistryTypeOK, serviceVars
<1>2. CASE PruneBegin
  <2>1. RegistryInv' /\ MarksMove
    BY <1>2, KeysRest DEF PruneBegin, RoutingTyped
  <2>2. SessionsInv' /\ \A k : Rests(k)
    BY <1>1, <1>2, SessionsRest, ItemsRest DEF PruneBegin, sessionsVars, RoutingTyped
  <2> QED
    BY <1>1, <2>1, <2>2, AroundTyped DEF RoutingTyped
<1>3. ASSUME NEW t \in Token, PruneRemove(t) PROVE Around
  <2>1. RegistryInv' /\ MarksMove
    BY <1>3, RemoveMoves DEF PruneRemove, RoutingTyped
  <2>2. SessionsInv' /\ \A k : Rests(k)
    BY <1>1, <1>3, SessionsRest, ItemsRest DEF PruneRemove, sessionsVars, RoutingTyped
  <2> QED
    BY <1>1, <2>1, <2>2, AroundTyped DEF RoutingTyped
<1>4. ASSUME NEW t \in Token, PruneForget(t) PROVE Around
  <2>1. RegistryInv' /\ MarksMove
    BY <1>4, KeysRest DEF PruneForget, RoutingTyped
  <2>2. SessionsInv'
    BY <1>4, StepInv DEF PruneForget, SessionsStep, RoutingTyped
  <2>3. \A k : Rests(k)
    BY <1>4, KeepRests DEF PruneForget, DropToken, RoutingTyped
  <2> QED
    BY <1>1, <2>1, <2>2, <2>3, AroundTyped DEF RoutingTyped
<1> QED
  BY <1>2, <1>3, <1>4 DEF Prune

LEMMA TickAround ==
    ASSUME RoutingTyped, Tick, UNCHANGED <<registryVars, sessionsVars, serviceVars, picks>>
    PROVE  Around
<1>1. now \in Nat \ {0} /\ now' = now + 1 /\ now' \in Nat \ {0} /\ now <= now' /\ keys' = keys
  BY DEF RoutingTyped, RegistryInv, RegistryTypeOK, Tick, registryVars
<1>2. RegistryInv' /\ MarksMove
  BY <1>1 DEF RoutingTyped, RegistryInv, RegistryTypeOK, ReadingsCoherent, Tracked, MarksMove
<1>3. SessionsInv' /\ \A k : Rests(k)
  BY <1>1, SessionsRest, ItemsRest DEF sessionsVars, RoutingTyped
<1> QED
  BY <1>1, <1>2, <1>3, AroundTyped DEF serviceVars, RoutingTyped

LEMMA RoutingStepIs ==
    ASSUME RoutingTyped, RoutingStep
    PROVE  \/ UNCHANGED <<now, serviceVars>> /\ \E p \in Request : Pick(p)
           \/ Around
<1>1. CASE Event /\ UNCHANGED <<now, picks>>
  BY <1>1, SyncTableAround, SyncFailsAround, ReconfigureAround, AnswerAround, SweepAround
  DEF Event
<1>2. CASE Aftermath /\ UNCHANGED <<now, picks>>
  BY <1>2, SyncForgetAround, SyncPublishAround DEF Aftermath
<1>3. CASE Tick /\ UNCHANGED <<registryVars, sessionsVars, serviceVars, picks>>
  BY <1>3, TickAround
<1>4. CASE Prune /\ UNCHANGED <<now, serviceVars, picks>>
  BY <1>4, PruneAround
<1> QED
  BY <1>1, <1>2, <1>3, <1>4 DEF RoutingStep

(* What the sweep has found or half forgotten are credentials.               *)
LEMMA PruningTyped ==
    ASSUME RoutingTyped, pruning \in Pruning, RoutingStep
    PROVE  pruning' \in Pruning
<1>1. Tracked \subseteq Token
  BY DEF RoutingTyped, RegistryInv, RegistryTypeOK
<1>2. CASE PruneBegin
  BY <1>1, <1>2 DEF PruneBegin, PruneIdle, Pruning
<1>3. CASE \E t \in Token : PruneRemove(t) \/ PruneForget(t)
  BY <1>3 DEF PruneRemove, PruneForget, Pruning
<1> QED
  BY <1>2, <1>3 DEF RoutingStep, Prune

-----------------------------------------------------------------------------
(* What the history says after a step.                                      *)

LEMMA BothFields ==
    ASSUME NEW a \in Watched, NEW b \in Watched
    PROVE  /\ Both(a, b) \in Watched
           /\ Both(a, b).dead = a.dead \cap b.dead
           /\ Both(a, b).unfit = a.unfit \cap b.unfit
           /\ Both(a, b).fit = a.fit \cap b.fit
           /\ Both(a, b).holds = a.holds \cap b.holds
           /\ Both(a, b).elsewhere = a.elsewhere \cap b.elsewhere
  BY DEF Both, Watched

LEMMA FactsFields ==
    ASSUME RoutingTyped', NEW p \in Request
    PROVE  /\ Facts(p)' \in Watched
           /\ Facts(p)'.dead = Dead' /\ Facts(p)'.unfit = Unfit' /\ Facts(p)'.fit = Fit'
           /\ Facts(p)'.holds = Holds(p)' /\ Facts(p)'.elsewhere = Elsewhere(p)'
<1>1. DOMAIN keys' \subseteq Token
  BY DEF RoutingTyped, RegistryInv, RegistryTypeOK, Tracked
<1> QED
  BY <1>1 DEF Facts, Watched, Dead, Unfit, Fit, Holds, Elsewhere, Tracked

LEMMA WatchType ==
    ASSUME RoutingTyped', watch \in [Request -> Watched], Observe
    PROVE  watch' \in [Request -> Watched]
<1>1. Nothing \in Watched
  BY DEF Nothing, Watched
<1>2. \A p \in Request : watch[p] \in Watched /\ Facts(p)' \in Watched
  BY FactsFields
<1>3. \A p \in Request : Both(watch[p], Facts(p)') \in Watched
  BY <1>2, BothFields
<1> QED
  BY <1>1, <1>2, <1>3 DEF Observe

(* The history of a pick under way agrees with the present.                  *)
LEMMA StaysWitnessed ==
    ASSUME RoutingTyped', watch \in [Request -> Watched], Observe, NEW p \in Request
    PROVE  Witnessed(p)'
<1> SUFFICES ASSUME picks'[p].step \in {"read", "bind"}
             PROVE  /\ watch'[p].dead \subseteq Dead'
                    /\ watch'[p].unfit \subseteq Unfit'
                    /\ watch'[p].fit \subseteq Fit'
                    /\ watch'[p].holds \subseteq Holds(p)'
                    /\ watch'[p].elsewhere \subseteq Elsewhere(p)'
  BY DEF Witnessed, Deciding
<1>1. watch'[p] = Facts(p)' \/ watch'[p] = Both(watch[p], Facts(p)')
  BY DEF Observe
<1> QED
  BY <1>1, FactsFields, BothFields

(* It only ever shrinks until the answer, and not with the answer.           *)
LEMMA WatchShrinks ==
    ASSUME RoutingTyped', watch \in [Request -> Watched], Observe, NEW p \in Request,
           Deciding(p), Deciding(p)'
    PROVE  /\ watch'[p].dead \subseteq watch[p].dead
           /\ watch'[p].unfit \subseteq watch[p].unfit
           /\ watch'[p].fit \subseteq watch[p].fit
           /\ watch'[p].holds \subseteq watch[p].holds
           /\ watch'[p].elsewhere \subseteq watch[p].elsewhere
<1>1. watch'[p] = Both(watch[p], Facts(p)')
  BY DEF Observe, Deciding
<1> QED
  BY <1>1, FactsFields, BothFields

LEMMA WatchStands ==
    ASSUME Observe, NEW p \in Request, picks[p].step # "load", picks'[p].step = "done"
    PROVE  watch'[p] = watch[p]
  BY DEF Observe

-----------------------------------------------------------------------------
(* A step of another pick, or of the surroundings, leaves a pick right about *)
(* what it owes.                                                            *)

LEMMA SameCall ==
    ASSUME NEW p \in Request, picks'[p] = picks[p]
    PROVE  /\ Deciding(p)' <=> Deciding(p)
           /\ At(p, "bind")' <=> At(p, "bind")
           /\ At(p, "done")' <=> At(p, "done")
           /\ Answered(p)' <=> Answered(p)
           /\ Judged(p)' = Judged(p)
           /\ Routable(p)' <=> Routable(p)
           /\ KeyOf(p)' = KeyOf(p)
           /\ PinOf(p)' = PinOf(p)
  BY DEF Deciding, At, Answered, Judged, Routable, KeyOf, Groups, PinOf

(* A credential that stayed fit through a change of its 429 mark bears none  *)
(* that a pick of an earlier time would see.                                 *)
LEMMA MarkUnseen ==
    ASSUME RoutingTyped, RoutingTyped', MarksMove, NEW t \in Fit, t \in Fit', NEW at \in Nat,
           ~Suspected429(keys[t], at)
    PROVE  ~Suspected429(keys'[t], at)
<1>1. t \in Tracked \cap DOMAIN keys'
  BY DEF Fit, Tracked
<1>2. now' \in Nat \ {0} /\ SuspectHold \in Nat \ {0}
  BY HoldAssumption DEF RoutingTyped, RegistryInv, RegistryTypeOK
<1>3. ~Suspected429(keys'[t], now')
  BY DEF Fit, Usable
<1>4. keys'[t].suspectedAt # now'
  BY <1>2, <1>3 DEF Suspected429, Never
<1>5. keys'[t].suspectedAt \in {keys[t].suspectedAt, Never}
  BY <1>1, <1>4 DEF MarksMove
<1> QED
  BY <1>5 DEF Suspected429, Never

(* A pick that keeps deciding on what it has.                                *)
KeepsView(p) ==
    /\ Deciding(p)
    /\ picks'[p].seen = picks[p].seen
    /\ picks'[p].set = picks[p].set
    /\ picks'[p].offered = picks[p].offered
    /\ picks'[p].todo = picks[p].todo
    /\ picks'[p].at = picks[p].at

LEMMA StaysInformed ==
    ASSUME RoutingTyped, RoutingTyped', watch \in [Request -> Watched], Observe,
           NEW p \in Request, PickInv(p), KeepsView(p), MarksMove
    PROVE  Informed(p)'
<1> SUFFICES ASSUME Deciding(p)' PROVE Informed(p)'
  BY DEF Informed
<1>1. /\ Deciding(p) /\ Judged(p)' = Judged(p)
      /\ picks'[p].set = picks[p].set /\ picks'[p].seen = picks[p].seen
      /\ picks'[p].offered = picks[p].offered /\ picks'[p].todo = picks[p].todo
      /\ picks'[p].at = picks[p].at
  BY DEF KeepsView, Judged
<1>2. Informed(p) /\ Witnessed(p)
  BY DEF PickInv
<1>3. /\ watch'[p].dead \subseteq watch[p].dead
      /\ watch'[p].unfit \subseteq watch[p].unfit
      /\ watch'[p].fit \subseteq watch[p].fit
  BY <1>1, WatchShrinks
<1>4. watch'[p].fit \subseteq Fit'
  BY StaysWitnessed DEF Witnessed
<1>5. ASSUME NEW t \in watch'[p].fit
      PROVE  /\ t \notin picks[p].set.exclude
             /\ ~Suspected429(keys'[t], picks[p].at)
  <2>1. t \in Fit /\ t \in Fit'
    BY <1>1, <1>2, <1>3, <1>4 DEF Witnessed
  <2>2. t \notin picks[p].set.exclude /\ ~Suspected429(keys[t], picks[p].at)
    BY <1>1, <1>2, <1>3 DEF Informed
  <2>3. picks[p].at \in Nat
    BY CallType DEF Call
  <2> QED
    BY <2>1, <2>2, <2>3, MarkUnseen
<1>6. \A t \in watch'[p].fit \cap (picks[p].offered \ picks[p].todo) : t \in Judged(p)'
  BY <1>1, <1>2, <1>3 DEF Informed
<1>7. \A t \in DOMAIN picks[p].seen :
        /\ picks[p].seen[t].spared => t \notin picks[p].set.exclude
        /\ picks[p].seen[t].spared => t \notin watch'[p].dead
        /\ picks[p].seen[t].usable => picks[p].seen[t].spared
        /\ picks[p].seen[t].usable => t \notin watch'[p].unfit
  BY <1>1, <1>2, <1>3 DEF Informed
<1> QED
  BY <1>1, <1>5, <1>6, <1>7 DEF Informed

LEMMA StaysUndecided ==
    ASSUME RoutingTyped, RoutingTyped', watch \in [Request -> Watched], Observe,
           NEW p \in Request, PickInv(p), picks'[p] = picks[p],
           \/ Rests(KeyOf(p))
           \/ \E q \in Request \ {p} : picks'[q].session = picks[p].session
    PROVE  Undecided(p)'
<1> SUFFICES ASSUME At(p, "bind") PROVE Undecided(p)'
  BY SameCall DEF Undecided
<1>1. Undecided(p) /\ Witnessed(p) /\ Deciding(p) /\ Deciding(p)'
  BY SameCall DEF PickInv, Deciding, At
<1>2. /\ watch'[p].fit \subseteq watch[p].fit
      /\ watch'[p].holds \subseteq watch[p].holds
      /\ watch'[p].elsewhere \subseteq watch[p].elsewhere
  BY <1>1, WatchShrinks
<1>3. /\ watch[p].elsewhere \subseteq Request \ {p}
      /\ watch'[p].elsewhere \subseteq Elsewhere(p)'
  BY <1>1, StaysWitnessed DEF Witnessed, Elsewhere
<1>4. \A t \in Token : ~Owed(p, t)'
  BY <1>1, <1>2 DEF Undecided, Owed
<1>5. ASSUME Sticks(p)' PROVE watch'[p].elsewhere # Request \ {p}
  <2>1. CASE Rests(KeyOf(p))
    <3>1. /\ KeyOf(p) \in DOMAIN items' /\ ~(now' >= items'[KeyOf(p)].expiry)
          /\ items'[KeyOf(p)].token \in Judged(p)
      BY <1>5, SameCall DEF Sticks, Live, Bound, Expired
    <3>2. items'[KeyOf(p)].expiry \in Nat /\ now' \in Nat
      BY <3>1 DEF RoutingTyped, SessionsInv, SessionsTypeOK, Binding, Bound
    <3>3. Sticks(p)
      BY <2>1, <3>1, <3>2 DEF Rests, Sticks
    <3> QED
      BY <1>1, <1>2, <1>3, <3>3 DEF Undecided
  <2>2. CASE \E q \in Request \ {p} : picks'[q].session = picks[p].session
    <3>1. PICK q \in Request \ {p} : picks'[q].session = picks[p].session
      BY <2>2
    <3>2. q \notin Elsewhere(p)'
      BY <3>1 DEF Elsewhere
    <3> QED
      BY <1>3, <3>2
  <2> QED
    BY <2>1, <2>2
<1> QED
  BY <1>1, <1>4, <1>5, SameCall DEF Undecided

LEMMA StaysSettled ==
    ASSUME Observe, NEW p \in Request, PickInv(p), picks'[p] = picks[p]
    PROVE  Settled(p)'
<1>1. CASE At(p, "done")
  <2>1. watch'[p] = watch[p]
    BY <1>1, WatchStands DEF At
  <2>2. \A t : Owed(p, t)' <=> Owed(p, t)
    BY <2>1 DEF Owed
  <2> QED
    BY <2>1, <2>2, SameCall DEF PickInv, Settled, Honest, Desperate, Obedient, Loyal
<1>2. CASE ~At(p, "done")
  BY <1>2, SameCall DEF Settled, Honest, Desperate, Obedient, Loyal, Answered
<1> QED
  BY <1>1, <1>2

LEMMA Bystander ==
    ASSUME RoutingTyped, RoutingTyped', watch \in [Request -> Watched], Observe,
           NEW p \in Request, PickInv(p), picks'[p] = picks[p], MarksMove,
           \/ Rests(KeyOf(p))
           \/ \E q \in Request \ {p} : picks'[q].session = picks[p].session
    PROVE  PickInv(p)'
<1>1. Deciding(p) => KeepsView(p)
  BY DEF KeepsView
<1>2. ~Deciding(p) => Informed(p)'
  BY SameCall DEF Informed
<1> QED
  BY <1>1, <1>2, StaysWitnessed, StaysInformed, StaysUndecided, StaysSettled DEF PickInv

-----------------------------------------------------------------------------
(* What a pick may conclude from what it has read.                           *)

(* A usable appraisal is of a credential that is neither dead nor excluded   *)
(* nor unfit throughout; a spared one of none that is dead or excluded.      *)
LEMMA JudgedRight ==
    ASSUME NEW p \in Request, PickInv(p), Deciding(p)
    PROVE  /\ \A t \in Judged(p) :
                t \notin watch[p].dead \cup picks[p].set.exclude \cup watch[p].unfit
           /\ \A t \in Releasable(picks[p].seen) :
                t \notin watch[p].dead \cup picks[p].set.exclude
           /\ Judged(p) \subseteq Releasable(picks[p].seen)
  BY DEF PickInv, Informed, Judged, Eligible, Releasable

(* Once every candidate is read, those that stayed fit are eligible.         *)
LEMMA FitJudged ==
    ASSUME NEW p \in Request, PickInv(p), Deciding(p), picks[p].todo = {}
    PROVE  picks[p].offered \cap watch[p].fit \subseteq Judged(p)
  BY DEF PickInv, Informed

(* A binding the session held throughout is the one the pick finds.          *)
LEMMA OwedSticks ==
    ASSUME RoutingTyped, NEW p \in Request, PickInv(p), Deciding(p), picks[p].todo = {},
           Routable(p), NEW t \in Token, Owed(p, t)
    PROVE  Sticks(p) /\ items[KeyOf(p)].token = t
<1>1. t \in Judged(p)
  BY FitJudged DEF Owed
<1>2. KeyOf(p) = <<picks[p].session, picks[p].seen[t].provider>>
  BY <1>1, OneGroup, JudgedType
<1>3. <<picks[p].seen[t].provider, t>> \in Holds(p)
  BY DEF Owed, PickInv, Witnessed
<1>4. Live(KeyOf(p)) /\ items[KeyOf(p)].token = t
  BY <1>2, <1>3 DEF Holds
<1> QED
  BY <1>1, <1>4 DEF Sticks

(* An answer that is right by what the pick has read is right.               *)
LEMMA Concludes ==
    ASSUME RoutingTyped, RoutingTyped', UNCHANGED now, watch \in [Request -> Watched], Observe,
           NEW p \in Request, Deciding(p),
           NEW outcome \in Outcome, NEW t \in Token \cup {Never}, Finish(p, outcome, t),
           outcome \in Handled =>
              /\ t \notin watch[p].dead \cup picks[p].set.exclude
              /\ outcome # "fallback" => t \notin watch[p].unfit
              /\ \A u \in PinOf(p) : u \in picks[p].offered \cap watch[p].fit => t = u
              /\ outcome # "pinned" => \A u \in Token : Owed(p, u) => t = u,
           (outcome \in {"fallback", "mapping_failed"} \/ (outcome = "unhandled" /\ Routable(p)))
              => picks[p].offered \cap watch[p].fit = {}
    PROVE  PickInv(p)'
<1>1. /\ picks'[p].step = "done"
      /\ picks'[p].outcome = outcome
      /\ picks'[p].token = t
      /\ picks'[p].session = picks[p].session
      /\ picks'[p].offered = picks[p].offered
      /\ picks'[p].seen = picks[p].seen
      /\ picks'[p].set = picks[p].set
  BY FinishMoves
<1>2. watch'[p] = watch[p]
  BY <1>1, WatchStands DEF Deciding
<1>3. Witnessed(p)' /\ Informed(p)' /\ Undecided(p)'
  BY <1>1, StaysWitnessed DEF Informed, Undecided, Deciding, At
<1>4. /\ Routable(p)' <=> Routable(p)
      /\ PinOf(p)' = PinOf(p)
      /\ \A u : Owed(p, u)' <=> Owed(p, u)
      /\ Answered(p)' <=> outcome \in Handled
  BY <1>1, <1>2 DEF Routable, Groups, PinOf, Owed, Answered, At
<1>5. Honest(p)' /\ Obedient(p)' /\ Loyal(p)'
  BY <1>1, <1>2, <1>4 DEF Honest, Obedient, Loyal
<1>6. Desperate(p)'
  BY <1>1, <1>2, <1>4 DEF Desperate
<1> QED
  BY <1>3, <1>5, <1>6 DEF PickInv, Settled

-----------------------------------------------------------------------------
(* The steps of a pick itself.                                              *)
Sound == RoutingTyped /\ RoutingTyped' /\ watch \in [Request -> Watched] /\ Observe

LEMMA BeginKeeps ==
    ASSUME Sound, UNCHANGED now, NEW p \in Request, PickBegin(p)
    PROVE  PickInv(p)'
<1>1. PICK s \in Session \cup {NoSession}, offered \in Offers :
        Becomes(p, [Idle EXCEPT !.step = IF Ready THEN "load" ELSE "done",
                                !.session = s, !.offered = offered, !.todo = offered])
  BY DEF PickBegin
<1> DEFINE step == IF Ready THEN "load" ELSE "done"
           c == [Idle EXCEPT !.step = step,
                             !.session = s, !.offered = offered, !.todo = offered]
<1>2. /\ c.step = step /\ c.outcome = "unhandled" /\ c.seen = [t \in {} |-> Never]
  BY DEF Idle
<1>3. picks'[p] = c
  BY <1>1, Moves DEF Sound
<1>4. picks'[p].step \in {"load", "done"} /\ picks'[p].outcome = "unhandled"
  BY <1>2, <1>3
<1>5. Witnessed(p)' /\ Informed(p)' /\ Undecided(p)'
  BY <1>4, StaysWitnessed DEF Sound, Informed, Undecided, Deciding, At
<1>6. ~Routable(p)'
  <2>1. Groups(p)' = {}
    BY <1>2, <1>3 DEF Groups
  <2> QED
    BY <2>1, FS_EmptySet DEF Routable
<1>7. ~Answered(p)'
  BY <1>4 DEF Answered, Handled
<1>8. Settled(p)'
  BY <1>4, <1>6, <1>7 DEF Settled, Honest, Desperate, Obedient, Loyal
<1> QED
  BY <1>5, <1>8 DEF PickInv

LEMMA LoadKeeps ==
    ASSUME Sound, UNCHANGED <<now, keys, settings>>, NEW p \in Request, PickLoad(p)
    PROVE  PickInv(p)'
<1> DEFINE c == [picks[p] EXCEPT !.step = "read", !.set = settings, !.at = now]
<1>1. Becomes(p, c) /\ picks[p].step = "load"
  BY DEF PickLoad, At
<1>2. /\ c.step = "read" /\ c.set = settings /\ c.at = now
      /\ c.offered = picks[p].offered /\ c.todo = picks[p].todo /\ c.seen = picks[p].seen
  BY CallType DEF Call, Sound
<1>3. picks'[p] = c
  BY <1>1, Moves DEF Sound
<1>4. picks'[p].todo = picks'[p].offered /\ DOMAIN picks'[p].seen = {}
  BY <1>1, <1>2, <1>3, CallType DEF InHand, Sound
<1>5. watch'[p].fit \subseteq Fit'
  BY <1>2, <1>3, StaysWitnessed DEF Witnessed, Deciding, Sound
<1>6. \A t \in watch'[p].fit :
        /\ t \notin picks'[p].set.exclude
        /\ ~Suspected429(keys'[t], picks'[p].at)
  BY <1>2, <1>3, <1>5 DEF Fit, Usable
<1>7. Informed(p)'
  BY <1>4, <1>6 DEF Informed
<1>8. Undecided(p)' /\ Settled(p)'
  BY <1>2, <1>3 DEF Undecided, Settled, Honest, Desperate, Obedient, Loyal, Answered, At
<1> QED
  BY <1>7, <1>8, StaysWitnessed DEF PickInv, Sound

(* One more credential read: its state is judged as it is now.               *)
LEMMA ReadKeeps ==
    ASSUME Sound, UNCHANGED <<now, settings>>, NEW p \in Request, PickInv(p), PickRead(p)
    PROVE  PickInv(p)'
<1>1. PICK t \in picks[p].todo :
        /\ Becomes(p, [picks[p] EXCEPT !.todo = @ \ {t}, !.seen = SeenWith(p, t)])
        /\ Touch(t, picks[p].at)
  BY ReadIs
<1>2. /\ picks'[p].todo = picks[p].todo \ {t}
      /\ picks'[p].seen = SeenWith(p, t)
      /\ picks'[p].step = "read" /\ picks[p].step = "read"
      /\ picks'[p].offered = picks[p].offered
      /\ picks'[p].at = picks[p].at
      /\ picks'[p].set = picks[p].set
  BY <1>1, ReadMoves, ReadIs DEF Sound, At
<1>3. /\ t \in Token /\ t \notin DOMAIN picks[p].seen /\ picks[p].at \in Nat
      /\ picks[p].at <= now /\ now \in Nat
  BY CallType DEF Call, InHand, Sound
<1>4. MarksMove
  BY <1>1, <1>3, TouchMoves DEF Sound, RoutingTyped
<1>5. Deciding(p) /\ Deciding(p)'
  BY <1>2 DEF Deciding
<1>6. /\ watch'[p].dead \subseteq watch[p].dead /\ watch[p].dead \subseteq Dead
      /\ watch'[p].unfit \subseteq watch[p].unfit /\ watch[p].unfit \subseteq Unfit
      /\ watch'[p].fit \subseteq watch[p].fit /\ watch[p].fit \subseteq Fit
      /\ watch'[p].fit \subseteq Fit'
  BY <1>5, WatchShrinks, StaysWitnessed DEF PickInv, Witnessed, Sound
<1> DEFINE view == Appraise(t, keys[t], picks[p].set, picks[p].at)
<1>7. /\ DOMAIN picks'[p].seen = DOMAIN picks[p].seen \cup ({t} \cap Tracked)
      /\ \A u \in DOMAIN picks[p].seen : picks'[p].seen[u] = picks[p].seen[u]
      /\ t \in Tracked => picks'[p].seen[t] = view
  BY <1>2, <1>3 DEF SeenWith
<1>8. /\ view.spared <=> Spared(t, keys[t], picks[p].set)
      /\ view.usable <=> Usable(t, keys[t], picks[p].set, picks[p].at)
  BY DEF Appraise
<1>9. t \in Tracked =>
        /\ view.spared => t \notin picks[p].set.exclude /\ t \notin watch[p].dead
        /\ view.usable => view.spared
  BY <1>6, <1>8 DEF Spared, Usable, Dead
<1>10. t \in Tracked /\ view.usable => t \notin watch[p].unfit
  <2> SUFFICES ASSUME t \in Tracked, view.usable, t \in Unfit PROVE FALSE
    BY <1>6
  <2>1. ~keys[t].revoked /\ ~Unavailable(keys[t].usage) /\ ~Suspected429(keys[t], picks[p].at)
    BY <1>8 DEF Usable
  <2>2. Suspected429(keys[t], now)
    BY <2>1 DEF Unfit, Dead
  <2>3. keys[t].suspectedAt \in Nat
    BY EntryType DEF State, Sound, RoutingTyped
  <2> QED
    BY <1>3, <2>1, <2>2, <2>3, HoldAssumption DEF Suspected429
<1>11. t \in watch[p].fit => t \in Tracked /\ view.usable
  <2> SUFFICES ASSUME t \in watch[p].fit PROVE t \in Tracked /\ view.usable
    OBVIOUS
  <2>1. t \in Tracked /\ Usable(t, keys[t], settings, now)
    BY <1>6 DEF Fit
  <2>2. t \notin picks[p].set.exclude /\ ~Suspected429(keys[t], picks[p].at)
    BY <1>5 DEF PickInv, Informed
  <2> QED
    BY <1>8, <2>1, <2>2 DEF Usable
<1> HIDE DEF view
<1>12. \A u \in DOMAIN picks'[p].seen :
         /\ picks'[p].seen[u].spared => u \notin picks[p].set.exclude
         /\ picks'[p].seen[u].spared => u \notin watch'[p].dead
         /\ picks'[p].seen[u].usable => picks'[p].seen[u].spared
         /\ picks'[p].seen[u].usable => u \notin watch'[p].unfit
  <2> TAKE u \in DOMAIN picks'[p].seen
  <2>1. CASE u = t
    BY <1>3, <1>6, <1>7, <1>9, <1>10, <2>1
  <2>2. CASE u # t
    <3>1. u \in DOMAIN picks[p].seen /\ picks'[p].seen[u] = picks[p].seen[u]
      BY <1>7, <2>2
    <3> QED
      BY <1>5, <1>6, <3>1 DEF PickInv, Informed
  <2> QED
    BY <2>1, <2>2
<1>13. \A u \in watch'[p].fit :
         /\ u \notin picks[p].set.exclude
         /\ ~Suspected429(keys'[u], picks[p].at)
  <2> TAKE u \in watch'[p].fit
  <2>1. u \in Fit /\ u \in Fit'
    BY <1>6
  <2>2. u \notin picks[p].set.exclude /\ ~Suspected429(keys[u], picks[p].at)
    BY <1>5, <1>6 DEF PickInv, Informed
  <2> QED
    BY <1>3, <1>4, <2>1, <2>2, MarkUnseen DEF Sound
<1>14. \A u \in watch'[p].fit \cap (picks[p].offered \ (picks[p].todo \ {t})) : u \in Judged(p)'
  <2> TAKE u \in watch'[p].fit \cap (picks[p].offered \ (picks[p].todo \ {t}))
  <2>1. CASE u = t
    BY <1>6, <1>7, <1>11, <2>1 DEF Judged, Eligible
  <2>2. CASE u # t
    <3>1. u \in Judged(p)
      BY <1>5, <1>6, <2>2 DEF PickInv, Informed
    <3> QED
      BY <1>7, <3>1 DEF Judged, Eligible
  <2> QED
    BY <2>1, <2>2
<1>15. Informed(p)'
  BY <1>2, <1>12, <1>13, <1>14 DEF Informed
<1>16. Undecided(p)' /\ Settled(p)'
  BY <1>2 DEF Undecided, Settled, Honest, Desperate, Obedient, Loyal, Answered, At
<1> QED
  BY <1>15, <1>16, StaysWitnessed DEF PickInv, Sound

LEMMA DeclineKeeps ==
    ASSUME Sound, UNCHANGED now, NEW p \in Request, PickInv(p), PickDecline(p)
    PROVE  PickInv(p)'
<1> DEFINE outcome == IF picks[p].offered # {} /\ DOMAIN picks[p].seen = {}
                        THEN "mapping_failed" ELSE "unhandled"
<1>1. Finish(p, outcome, Never) /\ Judging(p)
      /\ (Routable(p) => Releasable(picks[p].seen) = {})
  BY DEF PickDecline
<1>2. outcome \in Outcome /\ outcome \notin Handled /\ outcome # "fallback"
  BY DEF Outcome, Handled
<1>3. Deciding(p) /\ picks[p].todo = {}
  BY <1>1 DEF Judging, Deciding, At
<1>4. picks[p].offered \cap watch[p].fit \subseteq Judged(p)
  BY <1>3, FitJudged
<1>5. outcome = "mapping_failed" => Judged(p) = {}
  BY DEF Judged, Eligible
<1>6. Routable(p) => Judged(p) = {}
  BY <1>1, <1>3, JudgedRight
<1> HIDE DEF outcome
<1> QED
  BY <1>1, <1>2, <1>3, <1>4, <1>5, <1>6, Concludes DEF Sound

LEMMA FallbackKeeps ==
    ASSUME Sound, UNCHANGED now, NEW p \in Request, PickInv(p), PickFallback(p)
    PROVE  PickInv(p)'
<1>1. PICK t \in Token : BestReleasable(t, picks[p].seen) /\ Finish(p, "fallback", t)
  BY DEF PickFallback
<1>2. Deciding(p) /\ picks[p].todo = {} /\ Judged(p) = {}
  BY DEF PickFallback, Judging, Deciding, At
<1>3. picks[p].offered \cap watch[p].fit = {}
  BY <1>2, FitJudged
<1>4. t \in Releasable(picks[p].seen)
  BY <1>1 DEF BestReleasable, IsFirst
<1>5. t \notin watch[p].dead \cup picks[p].set.exclude
  BY <1>2, <1>4, JudgedRight
<1>6. \A u : ~Owed(p, u)
  BY <1>3 DEF Owed
<1>7. "fallback" \in Outcome
  BY DEF Outcome
<1> QED
  BY <1>1, <1>2, <1>3, <1>5, <1>6, <1>7, Concludes DEF Sound

(* A pin of the session is one credential.                                  *)
LEMMA OnePin ==
    ASSUME NEW p, NEW t \in PinOf(p), NEW u \in PinOf(p)
    PROVE  t = u
  BY DEF PinOf

LEMMA PinnedKeeps ==
    ASSUME Sound, UNCHANGED now, NEW p \in Request, PickInv(p), PickPinned(p)
    PROVE  PickInv(p)'
<1>1. PICK t \in PinOf(p) \cap Judged(p) : Finish(p, "pinned", t)
  BY DEF PickPinned
<1>2. Deciding(p) /\ picks[p].todo = {}
  BY DEF PickPinned, Judging, Deciding, At
<1>3. t \notin watch[p].dead \cup picks[p].set.exclude \cup watch[p].unfit
  BY <1>2, JudgedRight
<1>4. \A u \in PinOf(p) : t = u
  BY OnePin
<1>5. "pinned" \in Outcome /\ t \in Token
  BY JudgedType DEF Outcome, Sound
<1> QED
  BY <1>1, <1>2, <1>3, <1>4, <1>5, Concludes DEF Sound

LEMMA LookupKeeps ==
    ASSUME Sound, UNCHANGED <<now, settings>>, NEW p \in Request, PickInv(p), PickLookup(p)
    PROVE  PickInv(p)'
<1>1. /\ Judging(p) /\ Routable(p) /\ Judged(p) # {} /\ PinOf(p) \cap Judged(p) = {}
      /\ Get(KeyOf(p)) /\ UNCHANGED keys
  BY LookupIs DEF Sound
<1>2. Deciding(p) /\ picks[p].todo = {}
  BY <1>1 DEF Judging, Deciding, At
<1>3. picks[p].offered \cap watch[p].fit \subseteq Judged(p)
  BY <1>2, FitJudged
<1>4. \A u \in Token : Owed(p, u) => Sticks(p) /\ items[KeyOf(p)].token = u
  BY <1>1, <1>2, OwedSticks DEF Sound
<1>5. CASE Sticks(p)
  <2> DEFINE t == items[KeyOf(p)].token
  <2>1. t \in Judged(p) /\ Finish(p, "bound", t)
    BY <1>5, LookupIs DEF Sound
  <2>2. t \notin watch[p].dead \cup picks[p].set.exclude \cup watch[p].unfit
    BY <1>2, <2>1, JudgedRight
  <2>3. \A u \in PinOf(p) : u \notin picks[p].offered \cap watch[p].fit
    BY <1>1, <1>3
  <2>4. "bound" \in Outcome /\ t \in Token
    BY <2>1, JudgedType DEF Outcome, Sound
  <2> HIDE DEF t
  <2>5. \A u \in Token : Owed(p, u) => t = u
    BY <1>4 DEF t
  <2> QED
    BY <1>2, <2>1, <2>2, <2>3, <2>4, <2>5, Concludes DEF Sound
<1>6. CASE ~Sticks(p)
  <2>1. /\ picks'[p].step = "bind"
        /\ picks'[p].outcome \in {"rebound", "assigned"}
        /\ picks'[p].session = picks[p].session
        /\ picks'[p].offered = picks[p].offered
        /\ picks'[p].todo = picks[p].todo
        /\ picks'[p].seen = picks[p].seen
        /\ picks'[p].set = picks[p].set
        /\ picks'[p].at = picks[p].at
    BY <1>6, LookupIs DEF Sound
  <2>2. KeepsView(p) /\ Deciding(p)'
    BY <1>2, <2>1 DEF KeepsView, Deciding
  <2>3. MarksMove
    BY <1>1, KeysRest DEF Sound, RoutingTyped
  <2>4. Informed(p)'
    BY <2>2, <2>3, StaysInformed DEF Sound
  <2>5. /\ watch'[p].fit \subseteq watch[p].fit /\ watch'[p].holds \subseteq watch[p].holds
    BY <1>2, <2>2, WatchShrinks DEF Sound
  <2>6. \A u \in Token : ~Owed(p, u)'
    BY <1>4, <1>6, <2>1, <2>5 DEF Owed
  <2>7. /\ Routable(p)' <=> Routable(p)
        /\ Judged(p)' = Judged(p) /\ PinOf(p)' = PinOf(p) /\ KeyOf(p)' = KeyOf(p)
    BY <2>1 DEF Routable, Groups, Judged, PinOf, KeyOf
  <2>8. ~Sticks(p)'
    <3>1. Rests(KeyOf(p))
      BY <1>1, GetRests DEF Sound, RoutingTyped
    <3>2. KeyOf(p) \in DOMAIN items' => items'[KeyOf(p)].expiry \in Nat /\ now' \in Nat
      BY DEF Sound, RoutingTyped, SessionsInv, SessionsTypeOK, Binding, Bound
    <3> QED
      BY <1>6, <2>7, <3>1, <3>2 DEF Rests, Sticks, Live, Bound, Expired
  <2>9. Undecided(p)'
    BY <1>1, <1>2, <2>1, <2>6, <2>7, <2>8 DEF Undecided
  <2>10. Settled(p)'
    BY <2>1 DEF Settled, Honest, Desperate, Obedient, Loyal, Answered, At
  <2> QED
    BY <2>4, <2>9, <2>10, StaysWitnessed DEF PickInv, Sound
<1> QED
  BY <1>5, <1>6

LEMMA BindKeeps ==
    ASSUME Sound, UNCHANGED now, NEW p \in Request, PickInv(p), PickBind(p)
    PROVE  PickInv(p)'
<1>1. PICK t \in Judged(p) : Finish(p, picks[p].outcome, t)
  BY DEF PickBind
<1>2. Undecided(p) /\ At(p, "bind")
  BY DEF PickBind, PickInv
<1>3. /\ Deciding(p) /\ picks[p].todo = {} /\ PinOf(p) \cap Judged(p) = {}
      /\ picks[p].outcome \in {"rebound", "assigned"}
      /\ \A u \in Token : ~Owed(p, u)
  BY <1>2 DEF Undecided, Deciding, At
<1>4. \A u \in PinOf(p) : u \notin picks[p].offered \cap watch[p].fit
  BY <1>3, FitJudged
<1>5. t \notin watch[p].dead \cup picks[p].set.exclude \cup watch[p].unfit
  BY <1>3, JudgedRight
<1>6. picks[p].outcome \in Outcome /\ t \in Token
  BY <1>3, JudgedType DEF Outcome, Sound
<1> QED
  BY <1>1, <1>3, <1>4, <1>5, <1>6, Concludes DEF Sound

LEMMA ReturnKeeps ==
    ASSUME Sound, NEW p \in Request, PickReturn(p)
    PROVE  PickInv(p)'
<1>1. picks'[p] = Idle
  BY Moves DEF PickReturn, Sound
<1>2. picks'[p].step = "idle"
  BY <1>1 DEF Idle
<1> QED
  BY <1>2, StaysWitnessed
  DEF PickInv, Sound, Informed, Undecided, Settled, Honest, Desperate, Obedient, Loyal,
      Answered, Deciding, At

-----------------------------------------------------------------------------
(* What a pick does to the rest of the system: it may bind the key of its    *)
(* own session when it answers, and nothing else moves a binding.            *)
Binds(p) ==
    /\ \E t \in Token : Bind(KeyOf(p), t)
    /\ Deciding(p)
    /\ picks'[p].step = "done"
    /\ picks'[p].session = picks[p].session
    /\ Judged(p) = {} \/ picks'[p].outcome = "pinned" \/ At(p, "bind")

PickEffect(p) ==
    /\ MarksMove
    /\ \A q \in Request \ {p} : picks'[q] = picks[q]
    /\ (\A k : Rests(k)) \/ Binds(p)

LEMMA QuietEffect ==
    ASSUME RoutingTyped, UNCHANGED <<now, keys, sessionsVars>>, NEW p \in Request, NEW c,
           Becomes(p, c)
    PROVE  PickEffect(p)
<1>1. now \in Nat /\ items' = items
  BY CallType DEF sessionsVars
<1>2. MarksMove
  BY KeysRest DEF RoutingTyped
<1>3. \A k : Rests(k)
  BY <1>1, ItemsRest DEF RoutingTyped
<1> QED
  BY <1>2, <1>3, Moves DEF PickEffect

LEMMA BindEffect ==
    ASSUME RoutingTyped, UNCHANGED <<now, keys>>, NEW p \in Request, Deciding(p),
           NEW t \in Token, NEW outcome \in Outcome,
           Bind(KeyOf(p), t), Finish(p, outcome, t),
           Judged(p) = {} \/ outcome = "pinned" \/ At(p, "bind")
    PROVE  PickEffect(p)
<1>1. MarksMove
  BY KeysRest DEF RoutingTyped
<1>2. /\ \A q \in Request \ {p} : picks'[q] = picks[q]
      /\ picks'[p].step = "done" /\ picks'[p].outcome = outcome
      /\ picks'[p].session = picks[p].session
  BY FinishMoves
<1>3. Binds(p)
  BY <1>2 DEF Binds
<1> QED
  BY <1>1, <1>2, <1>3 DEF PickEffect

LEMMA PickEffects ==
    ASSUME RoutingTyped, UNCHANGED now, NEW p \in Request, Pick(p)
    PROVE  PickEffect(p)
<1>1. CASE PickBegin(p)
  BY <1>1, QuietEffect DEF PickBegin
<1>2. CASE PickLoad(p)
  BY <1>2, QuietEffect DEF PickLoad
<1>3. CASE PickRead(p)
  <2>1. PICK t \in picks[p].todo :
          /\ Becomes(p, [picks[p] EXCEPT !.todo = @ \ {t}, !.seen = SeenWith(p, t)])
          /\ Touch(t, picks[p].at)
    BY <1>3, ReadIs
  <2>2. t \in Token /\ picks[p].at \in Nat /\ now \in Nat /\ items' = items
    BY <1>3, CallType, ReadIs DEF Call, sessionsVars
  <2>3. MarksMove
    BY <2>1, <2>2, TouchMoves DEF RoutingTyped
  <2>4. \A k : Rests(k)
    BY <2>2, ItemsRest DEF RoutingTyped
  <2> QED
    BY <2>1, <2>3, <2>4, Moves DEF PickEffect
<1>4. CASE PickDecline(p)
  BY <1>4, QuietEffect DEF PickDecline, Finish
<1>5. CASE PickFallback(p)
  <2>1. PICK t \in Token : Bind(KeyOf(p), t) /\ Finish(p, "fallback", t)
    BY <1>5 DEF PickFallback
  <2>2. Deciding(p) /\ Judged(p) = {} /\ UNCHANGED keys /\ "fallback" \in Outcome
    BY <1>5 DEF PickFallback, Judging, Deciding, At, Outcome
  <2> QED
    BY <2>1, <2>2, BindEffect
<1>6. CASE PickPinned(p)
  <2>1. PICK t \in PinOf(p) \cap Judged(p) : Bind(KeyOf(p), t) /\ Finish(p, "pinned", t)
    BY <1>6 DEF PickPinned
  <2>2. Deciding(p) /\ UNCHANGED keys /\ "pinned" \in Outcome /\ t \in Token
    BY <1>6, JudgedType DEF PickPinned, Judging, Deciding, At, Outcome
  <2> QED
    BY <2>1, <2>2, BindEffect
<1>7. CASE PickLookup(p)
  <2>1. Get(KeyOf(p)) /\ UNCHANGED keys
    BY <1>7, LookupIs
  <2>2. \A q \in Request \ {p} : picks'[q] = picks[q]
    <3>1. CASE Sticks(p)
      BY <1>7, <3>1, Moves DEF PickLookup, Finish
    <3>2. CASE ~Sticks(p)
      BY <1>7, <3>2, Moves DEF PickLookup
    <3> QED
      BY <3>1, <3>2
  <2>3. MarksMove
    BY <2>1, KeysRest DEF RoutingTyped
  <2>4. \A k : Rests(k)
    BY <2>1, GetRests DEF RoutingTyped
  <2> QED
    BY <2>2, <2>3, <2>4 DEF PickEffect
<1>8. CASE PickBind(p)
  <2>1. PICK t \in Judged(p) : Bind(KeyOf(p), t) /\ Finish(p, picks[p].outcome, t)
    BY <1>8 DEF PickBind
  <2>2. /\ Deciding(p) /\ At(p, "bind") /\ UNCHANGED keys
        /\ picks[p].outcome \in Outcome /\ t \in Token
    BY <1>8, JudgedType, CallType DEF PickBind, Deciding, At, Call
  <2> QED
    BY <2>1, <2>2, BindEffect
<1>9. CASE PickReturn(p)
  BY <1>9, QuietEffect DEF PickReturn
<1> QED
  BY <1>1, <1>2, <1>3, <1>4, <1>5, <1>6, <1>7, <1>8, <1>9 DEF Pick

(* Another pick is right after a pick's step as it was before.               *)
LEMMA OthersKeep ==
    ASSUME Sound, UNCHANGED now, NEW p \in Request, PickEffect(p),
           NEW q \in Request \ {p}, PickInv(q)
    PROVE  PickInv(q)'
<1>1. picks'[q] = picks[q] /\ MarksMove
  BY DEF PickEffect
<1>2. \/ Rests(KeyOf(q))
      \/ \E r \in Request \ {q} : picks'[r].session = picks[q].session
  <2>1. CASE \A k : Rests(k)
    BY <2>1
  <2>2. CASE Binds(p) /\ KeyOf(q) # KeyOf(p)
    <3>1. PICK t \in Token : Bind(KeyOf(p), t)
      BY <2>2 DEF Binds
    <3> QED
      BY <2>2, <3>1, BindRests DEF Sound, RoutingTyped
  <2>3. CASE Binds(p) /\ KeyOf(q) = KeyOf(p)
    <3>1. picks[q].session = picks[p].session
      BY <2>3 DEF KeyOf
    <3> QED
      BY <2>3, <3>1 DEF Binds
  <2> QED
    BY <2>1, <2>2, <2>3 DEF PickEffect
<1> QED
  BY <1>1, <1>2, Bystander DEF Sound

-----------------------------------------------------------------------------
(* The invariant of the composition.                                        *)
LEMMA StaysDated ==
    ASSUME RoutingTyped, UNCHANGED now, NEW p \in Request, Dated(p), Pick(p)
    PROVE  Dated(p)'
<1>1. CASE PickBegin(p)
  <2>1. PICK s \in Session \cup {NoSession}, offered \in Offers :
          Becomes(p, [Idle EXCEPT !.step = IF Ready THEN "load" ELSE "done",
                                  !.session = s, !.offered = offered, !.todo = offered])
    BY <1>1 DEF PickBegin
  <2> DEFINE step == IF Ready THEN "load" ELSE "done"
             c == [Idle EXCEPT !.step = step,
                               !.session = s, !.offered = offered, !.todo = offered]
  <2>2. c.step = step
    BY DEF Idle
  <2>3. picks'[p] = c
    BY <2>1, Moves
  <2>4. picks'[p].step \in {"load", "done"}
    BY <2>2, <2>3
  <2> QED
    BY <2>4 DEF Dated, Deciding
<1>2. CASE PickLoad(p)
  <2> DEFINE c == [picks[p] EXCEPT !.step = "read", !.set = settings, !.at = now]
  <2>1. c.at = now
    BY CallType DEF Call
  <2>2. picks'[p] = c
    BY <1>2, Moves DEF PickLoad
  <2>3. picks'[p].at = now /\ now # 0
    BY <2>1, <2>2, CallType
  <2> QED
    BY <2>3 DEF Dated, Never
<1>3. CASE PickRead(p)
  <2>1. picks'[p].at = picks[p].at /\ picks'[p].step = picks[p].step
    BY <1>3, ReadIs, ReadMoves
  <2> QED
    BY <2>1 DEF Dated, Deciding
<1>4. CASE \E outcome \in Outcome, t \in Token \cup {Never} : Finish(p, outcome, t)
  <2>1. picks'[p].step = "done"
    BY <1>4, FinishMoves
  <2> QED
    BY <2>1 DEF Dated, Deciding
<1>5. CASE PickDecline(p)
  <2>1. \E outcome \in {"mapping_failed", "unhandled"} : Finish(p, outcome, Never)
    BY <1>5 DEF PickDecline
  <2> QED
    BY <1>4, <2>1 DEF Outcome
<1>6. CASE PickFallback(p)
  BY <1>4, <1>6 DEF PickFallback, Outcome
<1>7. CASE PickPinned(p)
  BY <1>4, <1>7, JudgedType DEF PickPinned, Outcome
<1>8. CASE PickLookup(p)
  <2>1. CASE Sticks(p)
    BY <1>4, <1>8, <2>1, LookupIs, JudgedType DEF Outcome
  <2>2. CASE ~Sticks(p)
    <3>1. picks'[p].at = picks[p].at /\ Deciding(p)
      BY <1>8, <2>2, LookupIs DEF Judging, At, Deciding
    <3> QED
      BY <3>1 DEF Dated
  <2> QED
    BY <2>1, <2>2
<1>9. CASE PickBind(p)
  BY <1>4, <1>9, JudgedType, CallType DEF PickBind, Call
<1>10. CASE PickReturn(p)
  <2>1. picks'[p].step = "idle"
    BY <1>10, Moves DEF PickReturn, Idle
  <2> QED
    BY <2>1 DEF Dated, Deciding
<1> QED
  BY <1>1, <1>2, <1>3, <1>5, <1>6, <1>7, <1>8, <1>9, <1>10 DEF Pick

LEMMA PickKeeps ==
    ASSUME Sound, UNCHANGED <<now, serviceVars>>, NEW p \in Request, PickInv(p), Pick(p)
    PROVE  PickInv(p)'
<1>1. UNCHANGED settings
  BY DEF serviceVars
<1>2. PickLoad(p) => UNCHANGED keys
  BY DEF PickLoad
<1> QED
  BY <1>1, <1>2, BeginKeeps, LoadKeeps, ReadKeeps, DeclineKeeps, FallbackKeeps, PinnedKeeps,
     LookupKeeps, BindKeeps, ReturnKeeps
  DEF Pick

LEMMA RoutingNextInv ==
    ASSUME RoutingInv, RoutingNext
    PROVE  RoutingInv'
<1>1. RoutingTyped /\ watch \in [Request -> Watched] /\ Observe
      /\ \A p \in Request : PickInv(p) /\ Dated(p)
  BY DEF RoutingInv, RoutingNext
<1>4. pruning' \in Pruning
  BY <1>1, PruningTyped DEF RoutingInv, RoutingNext
<1>2. CASE UNCHANGED <<now, serviceVars>> /\ \E p \in Request : Pick(p)
  <2>1. PICK p \in Request : Pick(p)
    BY <1>2
  <2>2. RoutingTyped'
    BY <1>1, <1>2, <2>1, PickTyped DEF PickInv
  <2>3. Sound /\ UNCHANGED now
    BY <1>1, <1>2, <2>2 DEF Sound
  <2>4. PickInv(p)'
    BY <1>1, <1>2, <2>1, <2>3, PickKeeps
  <2>5. \A q \in Request \ {p} : PickInv(q)'
    BY <1>1, <2>1, <2>3, PickEffects, OthersKeep
  <2>6. watch' \in [Request -> Watched]
    BY <1>1, <2>2, WatchType
  <2>7. Dated(p)'
    BY <1>1, <2>1, <2>3, StaysDated
  <2>8. \A q \in Request \ {p} : Dated(q)'
    BY <1>1, <2>1, <2>3, PickEffects DEF PickEffect, Dated, Deciding
  <2> QED
    BY <1>4, <2>2, <2>4, <2>5, <2>6, <2>7, <2>8 DEF RoutingInv
<1>3. CASE Around
  <2>1. \A p \in Request : PickInv(p)'
    BY <1>1, <1>3, Bystander DEF Around
  <2>2. watch' \in [Request -> Watched]
    BY <1>1, <1>3, WatchType DEF Around
  <2>3. \A p \in Request : Dated(p)'
    BY <1>1, <1>3 DEF Around, Dated, Deciding
  <2> QED
    BY <1>3, <1>4, <2>1, <2>2, <2>3 DEF RoutingInv, Around
<1> QED
  BY <1>1, <1>2, <1>3, RoutingStepIs DEF RoutingNext

LEMMA RoutingStutters ==
    ASSUME RoutingInv, UNCHANGED RoutingVars
    PROVE  RoutingInv'
<1>1. UNCHANGED <<now, keys, items, newer, ttl, max, cfg, healthy, settings, sync, pruning,
                  picks, watch>>
  BY DEF RoutingVars
<1>2. RegistryInv' /\ SessionsInv'
  BY <1>1, KeysRest, SessionsRest
  DEF RoutingInv, RoutingTyped, sessionsVars, RegistryInv, RegistryTypeOK
<1>3. \A p \in Request : InHand(p)'
  BY <1>1 DEF RoutingInv, RoutingTyped, InHand
<1>4. RoutingTyped'
  BY <1>1, <1>2, <1>3 DEF RoutingInv, RoutingTyped
<1>5. /\ Dead' = Dead /\ Unfit' = Unfit /\ Fit' = Fit
      /\ \A p \in Request : Holds(p)' = Holds(p) /\ Elsewhere(p)' = Elsewhere(p)
      /\ \A k : Live(k)' <=> Live(k)
  BY <1>1 DEF Dead, Unfit, Fit, Tracked, Holds, Elsewhere, Live, Bound, Expired
<1>6. ASSUME NEW p \in Request PROVE PickInv(p)'
  <2>1. PickInv(p)
    BY DEF RoutingInv
  <2>2. Witnessed(p)' /\ Informed(p)'
    BY <1>1, <1>5, <2>1, SameCall DEF PickInv, Witnessed, Informed
  <2>3. \A t : Owed(p, t)' <=> Owed(p, t)
    BY <1>1 DEF Owed
  <2>4. Sticks(p)' <=> Sticks(p)
    BY <1>1, <1>5, SameCall DEF Sticks
  <2>5. Undecided(p)' /\ Settled(p)'
    BY <1>1, <2>1, <2>3, <2>4, SameCall
    DEF PickInv, Undecided, Settled, Honest, Desperate, Obedient, Loyal
  <2> QED
    BY <2>2, <2>5 DEF PickInv
<1>7. \A p \in Request : Dated(p)'
  BY <1>1 DEF RoutingInv, Dated, Deciding
<1> QED
  BY <1>1, <1>4, <1>6, <1>7 DEF RoutingInv

LEMMA RoutingInitInv ==
    ASSUME RoutingInit
    PROVE  RoutingInv
<1>1. PICK listing \in Listings : keys = [t \in DOMAIN listing |-> Fresh(listing[t])]
  BY DEF RoutingInit
<1>2. listing \in Config
  BY ListingsAssumption
<1>3. DOMAIN listing \subseteq Token /\ \A t \in DOMAIN listing : listing[t] \in Provider
  BY <1>2 DEF Config
<1>4. RegistryInv
  <2>1. \A t \in DOMAIN listing : Fresh(listing[t]) \in State
    BY <1>3, FreshIsState
  <2>2. now = 1
    BY DEF RoutingInit, ClockInit
  <2>3. RegistryTypeOK
    BY <1>1, <1>3, <2>1, <2>2 DEF RegistryTypeOK, Tracked
  <2>4. ReadingsCoherent
    BY <1>1 DEF ReadingsCoherent, Tracked, Fresh
  <2> QED
    BY <2>3, <2>4 DEF RegistryInv
<1>5. cfg \in PluginConfigs /\ cfg.ttl \in TTLs /\ cfg.max \in Maxes
  BY PluginConfigAssumption DEF RoutingInit, PluginConfig
<1>6. SessionsInv
  BY <1>5, SessionsInitInv DEF RoutingInit, SessionsInit
<1>7. settings \in Settings
  BY <1>4, <1>5, ResolvedType DEF RoutingInit, RegistryInv, RegistryTypeOK
<1>8. \A p \in Request : picks[p] = Idle
  BY DEF RoutingInit
<1>9. \A p \in Request : InHand(p)
  <2>1. now = 1
    BY DEF RoutingInit, ClockInit
  <2>2. /\ Idle.at = 0 /\ Idle.offered = {} /\ Idle.todo = {} /\ Idle.step = "idle"
        /\ DOMAIN Idle.seen = {}
    BY DEF Idle, Never
  <2> QED
    BY <1>8, <2>1, <2>2, FS_EmptySet DEF InHand
<1>10. RoutingTyped
  <2>1. picks \in [Request -> Call]
    BY IdleCall DEF RoutingInit
  <2>2. sync \in [step : {"idle", "forget"}, removed : SUBSET Token] /\ healthy \in BOOLEAN
    BY DEF RoutingInit, SyncIdle
  <2> QED
    BY <1>4, <1>5, <1>6, <1>7, <1>9, <2>1, <2>2 DEF RoutingTyped
<1>11. watch \in [Request -> Watched]
  BY DEF RoutingInit, Nothing, Watched
<1>12. \A p \in Request : picks[p].step = "idle"
  BY <1>8 DEF Idle
<1>13. \A p \in Request : PickInv(p)
  BY <1>12
  DEF PickInv, Witnessed, Informed, Undecided, Settled, Honest, Desperate, Obedient, Loyal,
      Answered, Deciding, At
<1>14. \A p \in Request : Dated(p)
  BY <1>12 DEF Dated, Deciding
<1>15. pruning \in Pruning
  BY DEF RoutingInit, PruneIdle, Pruning
<1> QED
  BY <1>10, <1>11, <1>13, <1>14, <1>15 DEF RoutingInv

(* Everything below follows from this one invariant.                        *)
THEOREM RoutingInvariant == RoutingSpec => []RoutingInv
<1>1. RoutingInit => RoutingInv
  BY RoutingInitInv
<1>2. RoutingInv /\ [RoutingNext]_RoutingVars => RoutingInv'
  BY RoutingNextInv, RoutingStutters
<1> QED
  BY <1>1, <1>2, PTL DEF RoutingSpec

(* Type correctness of the composition: whatever the picks, the syncs and    *)
(* the workers interleave to, the tables, the settings and every pick's      *)
(* copies stay well formed.                                                 *)
THEOREM RoutingTypeCorrect == RoutingSpec => []RoutingTypeOK
<1>1. RoutingInv => RoutingTypeOK
  <2> SUFFICES ASSUME RoutingInv PROVE RoutingTypeOK
    OBVIOUS
  <2>1. \A p \in Request :
          /\ picks[p].step \in {"idle", "load", "read", "bind", "done"}
          /\ picks[p].session \in Session \cup {NoSession}
          /\ picks[p].todo \subseteq picks[p].offered
          /\ picks[p].seen \in [DOMAIN picks[p].seen -> Appraisal]
          /\ picks[p].outcome \in Outcome
    BY CallType DEF RoutingInv, Call, Steps, InHand
  <2> QED
    BY <2>1 DEF RoutingInv, RoutingTyped, RegistryInv, SessionsInv, RoutingTypeOK, Pruning
<1> QED
  BY <1>1, RoutingInvariant, PTL

(* No pick answers a credential that was dead all through it or that its     *)
(* settings exclude, and one that was unfit all through it only as the last  *)
(* resort, for any interleaving and every constant.                         *)
THEOREM RoutingNeverDead == RoutingSpec => []NeverRoutesDead
<1>1. RoutingInv => NeverRoutesDead
  BY DEF RoutingInv, PickInv, Settled, Honest, NeverRoutesDead
<1> QED
  BY <1>1, RoutingInvariant, PTL

(* Neither a fallback nor a refusal happens to a request that had a          *)
(* candidate which stayed usable throughout, for every constant.             *)
THEOREM RoutingLastResort == RoutingSpec => []FallbackIsLastResort
<1>1. RoutingInv => FallbackIsLastResort
  BY DEF RoutingInv, PickInv, Settled, Desperate, FallbackIsLastResort
<1> QED
  BY <1>1, RoutingInvariant, PTL

(* A pin to a credential that stayed usable decides the answer, for every    *)
(* constant.                                                                *)
THEOREM RoutingPinned == RoutingSpec => []PinHonoured
<1>1. RoutingInv => PinHonoured
  BY DEF RoutingInv, PickInv, Settled, Obedient, PinOf, PinHonoured
<1> QED
  BY <1>1, RoutingInvariant, PTL

(* A session whose binding held, to a credential that stayed usable and was  *)
(* offered, is answered with it, for any number of concurrent picks.         *)
THEOREM RoutingSticky == RoutingSpec => []StickyWhileFit
<1>1. RoutingInv => StickyWhileFit
  <2> SUFFICES ASSUME RoutingInv, NEW p \in Request, Answered(p), picks[p].outcome # "pinned",
                      NEW t \in picks[p].offered \cap watch[p].fit,
                      <<picks[p].seen[t].provider, t>> \in watch[p].holds
               PROVE  picks[p].token = t
    BY DEF StickyWhileFit
  <2>1. t \in Token
    BY CallType DEF RoutingInv
  <2> QED
    BY <2>1 DEF RoutingInv, PickInv, Settled, Loyal, Owed
<1> QED
  BY <1>1, RoutingInvariant, PTL

(* The promises of the two tables survive the composition: recency stays an  *)
(* order, the bindings stay within capacity and the readings coherent with   *)
(* picks that touch, bind and look up beside the syncs and the workers.      *)
THEOREM RoutingTables ==
    RoutingSpec => [](RecencyIsOrder /\ WithinCapacity /\ ReadingsCoherent)
<1>1. RoutingInv => RecencyIsOrder /\ WithinCapacity /\ ReadingsCoherent
  BY DEF RoutingInv, RoutingTyped, SessionsInv, RegistryInv
<1> QED
  BY <1>1, RoutingInvariant, PTL

-----------------------------------------------------------------------------
(* Only a pick that binds moves a binding, and it has cause: everything it   *)
(* had seen was ineligible, a pin said so, or it had found the binding       *)
(* unusable when it looked it up, and another pick of the session made this  *)
(* one since.                                                               *)
LEMMA BinderHasCause ==
    ASSUME RoutingInv, NEW p \in Request, Binds(p), NEW k \in Bound, Live(k), k = KeyOf(p)
    PROVE  /\ Answers(p, k)
           /\ HasCause(p, k) \/ watch[p].elsewhere # Request \ {p}
<1>1. Answers(p, k)
  BY DEF Binds, Answers, Deciding, At, KeyOf
<1>2. CASE Judged(p) = {} \/ picks'[p].outcome = "pinned"
  BY <1>1, <1>2 DEF HasCause
<1>3. CASE At(p, "bind")
  <2>1. Sticks(p) => watch[p].elsewhere # Request \ {p}
    BY <1>3 DEF RoutingInv, PickInv, Undecided
  <2> QED
    BY <1>1, <2>1 DEF HasCause, Sticks
<1> QED
  BY <1>2, <1>3 DEF Binds

LEMMA DriftHasCause ==
    ASSUME RoutingInv, RoutingNext, NEW k \in Bound \cap DOMAIN items', Drifts(k)
    PROVE  \E p \in Request :
              /\ Answers(p, k)
              /\ HasCause(p, k) \/ watch[p].elsewhere # Request \ {p}
<1>1. ~Rests(k)
  BY DEF Drifts, Rests
<1>2. RoutingTyped
  BY DEF RoutingInv
<1>3. PICK p \in Request : Pick(p) /\ UNCHANGED now
  BY <1>1, <1>2, RoutingStepIs DEF RoutingNext, Around
<1>4. Binds(p)
  BY <1>1, <1>2, <1>3, PickEffects DEF PickEffect
<1>5. k = KeyOf(p)
  <2>1. PICK t \in Token : Bind(KeyOf(p), t)
    BY <1>4 DEF Binds
  <2> QED
    BY <1>1, <1>2, <1>3, <2>1, BindRests DEF RoutingTyped
<1> QED
  BY <1>4, <1>5, BinderHasCause DEF Drifts

(* No drift while the requests of a session come one after the other, for    *)
(* any number of sessions, requests and changes around them.                 *)
THEOREM RoutingDrift == RoutingSpec => DriftNeedsOverlap
<1>1. RoutingInv /\ [RoutingNext]_RoutingVars =>
        [\A k \in Bound \cap DOMAIN items' : Drifts(k) =>
            \E p \in Request :
               /\ Answers(p, k)
               /\ HasCause(p, k) \/ watch[p].elsewhere # Request \ {p}]_RoutingVars
  BY DriftHasCause
<1> QED
  BY <1>1, RoutingInvariant, PTL DEF RoutingSpec, DriftNeedsOverlap

-----------------------------------------------------------------------------
(* A pick that has candidates left is never stuck on its choice, and never   *)
(* has two: the ranking that PickBind and PickFallback follow names exactly  *)
(* one candidate.                                                           *)
OneAnswer(p) ==
    /\ Judged(p) # {} =>
          \E t \in Judged(p) : \A u : BestRanked(u, picks[p].seen) <=> u = t
    /\ Releasable(picks[p].seen) # {} =>
          \E t \in Releasable(picks[p].seen) :
             \A u : BestReleasable(u, picks[p].seen) <=> u = t

LEMMA OneFirst ==
    ASSUME NEW score, Ranks(score), IsFiniteSet(DOMAIN score), DOMAIN score # {}
    PROVE  \E a \in DOMAIN score : \A b : IsFirst(b, score) <=> b = a
<1>1. PICK a \in DOMAIN score : IsFirst(a, score)
  BY FirstExists
<1>2. \A b : IsFirst(b, score) => b = a
  BY <1>1, FirstIsUnique
<1> QED
  BY <1>1, <1>2

LEMMA AnswerIsOne ==
    ASSUME RoutingTyped, NEW p \in Request
    PROVE  OneAnswer(p)
<1> DEFINE seen == picks[p].seen
<1>1. DOMAIN seen \subseteq picks[p].offered /\ IsFiniteSet(picks[p].offered)
  BY CallType DEF InHand
<1>2. IsFiniteSet(DOMAIN seen) /\ DOMAIN seen \subseteq Nat
  BY <1>1, FS_Subset, CallType, TokenAssumption
<1>3. \A t \in DOMAIN seen : seen[t].rank \in Score /\ seen[t].peak \in Score
  <2>1. \A t \in DOMAIN seen : seen[t] \in Appraisal
    BY CallType
  <2> QED
    BY <2>1 DEF Appraisal
<1>4. ASSUME Judged(p) # {}
      PROVE  \E t \in Judged(p) : \A u : BestRanked(u, seen) <=> u = t
  <2> DEFINE score == [t \in Judged(p) |-> seen[t].rank]
  <2>1. Judged(p) \subseteq DOMAIN seen
    BY JudgedType
  <2>2. Ranks(score)
    BY <1>2, <1>3, <2>1 DEF Ranks
  <2>3. IsFiniteSet(DOMAIN score) /\ DOMAIN score = Judged(p)
    BY <1>2, <2>1, FS_Subset
  <2>4. \A u : BestRanked(u, seen) <=> IsFirst(u, score)
    BY DEF BestRanked, Judged
  <2> HIDE DEF score
  <2> QED
    BY <1>4, <2>2, <2>3, <2>4, OneFirst
<1>5. ASSUME Releasable(seen) # {}
      PROVE  \E t \in Releasable(seen) : \A u : BestReleasable(u, seen) <=> u = t
  <2> DEFINE score == [t \in Releasable(seen) |-> seen[t].peak]
  <2>1. Releasable(seen) \subseteq DOMAIN seen
    BY DEF Releasable
  <2>2. Ranks(score)
    BY <1>2, <1>3, <2>1 DEF Ranks
  <2>3. IsFiniteSet(DOMAIN score) /\ DOMAIN score = Releasable(seen)
    BY <1>2, <2>1, FS_Subset
  <2>4. \A u : BestReleasable(u, seen) <=> IsFirst(u, score)
    BY DEF BestReleasable
  <2> HIDE DEF score
  <2> QED
    BY <1>5, <2>2, <2>3, <2>4, OneFirst
<1> QED
  BY <1>4, <1>5 DEF OneAnswer

(* The branches of a decision do not overlap and leave nothing out: what may *)
(* be chosen may also be released, and a pick about to bind has a choice.    *)
Branches(p) ==
    /\ Deciding(p) => Judged(p) \subseteq Releasable(picks[p].seen)
    /\ At(p, "bind") => Judged(p) # {}

LEMMA BranchesApart ==
    ASSUME RoutingInv, NEW p \in Request
    PROVE  Branches(p)
<1>1. PickInv(p)
  BY DEF RoutingInv
<1>2. Deciding(p) => \A t \in DOMAIN picks[p].seen :
        picks[p].seen[t].usable => picks[p].seen[t].spared
  BY <1>1 DEF PickInv, Informed
<1> QED
  BY <1>1, <1>2 DEF Branches, Judged, Eligible, Releasable, PickInv, Undecided

(* Every pick, at every moment, has exactly one best candidate among those   *)
(* it may choose from, and one among those it may release: whatever it has   *)
(* read, PickBind and PickFallback find an answer and cannot differ on it    *)
(* (select.go:202-214, 237-254, 286-309).                                   *)
THEOREM RoutingHasOneAnswer ==
    RoutingSpec => [](\A p \in Request : OneAnswer(p) /\ Branches(p))
<1>1. RoutingInv => \A p \in Request : OneAnswer(p) /\ Branches(p)
  BY AnswerIsOne, BranchesApart DEF RoutingInv
<1> QED
  BY <1>1, RoutingInvariant, PTL

-----------------------------------------------------------------------------
(* The composition uses the binding table as the table allows: each of its   *)
(* steps is one call on the table or none.                                  *)
LEMMA PickUsesSessions ==
    ASSUME RoutingInv, UNCHANGED now, NEW p \in Request, Pick(p)
    PROVE  [SessionsNext]_SessionsVars
<1>1. RoutingTyped
  BY DEF RoutingInv
<1>2. ASSUME UNCHANGED sessionsVars PROVE [SessionsNext]_SessionsVars
  BY <1>2 DEF SessionsVars, sessionsVars
<1>3. ASSUME Routable(p), NEW t \in Token, Bind(KeyOf(p), t)
      PROVE  SessionsNext
  BY <1>1, <1>3, OneGroup DEF SessionsNext, SessionsStep
<1>4. CASE PickFallback(p)
  BY <1>3, <1>4 DEF PickFallback
<1>5. CASE PickPinned(p)
  BY <1>1, <1>3, <1>5, JudgedType DEF PickPinned
<1>6. CASE PickBind(p)
  <2>1. Routable(p)
    BY <1>6 DEF PickBind, RoutingInv, PickInv, Undecided
  <2> QED
    BY <1>1, <1>3, <1>6, <2>1, JudgedType DEF PickBind
<1>7. CASE PickLookup(p)
  <2>1. Get(KeyOf(p)) /\ Routable(p)
    BY <1>7 DEF PickLookup
  <2> QED
    BY <1>1, <2>1, OneGroup DEF SessionsNext, SessionsStep
<1> QED
  BY <1>2, <1>4, <1>5, <1>6, <1>7
  DEF Pick, PickBegin, PickLoad, PickRead, PickDecline, PickReturn

LEMMA StepUsesSessions ==
    ASSUME RoutingInv, RoutingNext
    PROVE  [SessionsNext]_SessionsVars
<1>1. ASSUME UNCHANGED <<now, sessionsVars>> PROVE [SessionsNext]_SessionsVars
  BY <1>1 DEF SessionsVars, sessionsVars
<1>2. ASSUME UNCHANGED now, SessionsStep PROVE SessionsNext
  BY <1>2 DEF SessionsNext
<1>3. ASSUME UNCHANGED now, NEW config \in PluginConfigs, Reconfigure(config)
      PROVE  SessionsNext
  <2>1. config.ttl \in TTLs /\ config.max \in Maxes
    BY PluginConfigAssumption DEF PluginConfig
  <2> QED
    BY <1>2, <1>3, <2>1 DEF Reconfigure, SessionsStep
<1>4. CASE UNCHANGED now /\ \E p \in Request : Pick(p)
  BY <1>4, PickUsesSessions
<1>5. CASE UNCHANGED now /\ Event
  BY <1>1, <1>2, <1>3, <1>5
  DEF Event, SyncTable, SyncFails, Answer, Note429, SweepSessions, SessionsStep
<1>6. CASE UNCHANGED now /\ Aftermath
  BY <1>1, <1>2, <1>6 DEF Aftermath, SyncForget, SyncPublish, SessionsStep
<1>7. CASE Tick /\ UNCHANGED sessionsVars
  BY <1>7 DEF SessionsNext, sessionsVars
<1>8. CASE UNCHANGED now /\ Prune
  BY <1>1, <1>2, <1>8 DEF Prune, PruneBegin, PruneRemove, PruneForget, SessionsStep
<1> QED
  BY <1>4, <1>5, <1>6, <1>7, <1>8 DEF RoutingNext, RoutingStep

(* Picks, syncs, prunes, reconfigurations and sweeps drive the binding table *)
(* as its own specification allows, whatever they interleave to.             *)
THEOREM RoutingUsesSessions == RoutingSpec => SessionsSpec
<1>1. RoutingInit => SessionsInit
  BY PluginConfigAssumption DEF RoutingInit, SessionsInit, PluginConfig
<1>2. RoutingInv /\ [RoutingNext]_RoutingVars => [SessionsNext]_SessionsVars
  BY StepUsesSessions DEF RoutingVars, SessionsVars
<1> QED
  BY <1>1, <1>2, RoutingInvariant, PTL DEF RoutingSpec, SessionsSpec

(* So a live session loses its binding only in a step that drops its token   *)
(* and nothing else, or to a full table that used every other binding later, *)
(* with any number of picks, syncs and reconfigurations around it.           *)
THEOREM RoutingKeepsSessions == RoutingSpec => LiveBindingsSurvive
  BY RoutingUsesSessions, SessionsSurvive, PTL

(* How a binding ends, call by call.                                        *)
Ends(k) ==
    IF k \in DOMAIN items'
      THEN Expired(items[k]) /\ items'[k] # items[k] => \E p \in Request : Answers(p, k)
      ELSE Expired(items[k]) \/ LostToPressure(k) \/ items[k].token \in Forgotten

LEMMA KeepEnds ==
    ASSUME NEW S \in SUBSET Bound, Keep(S), NEW k \in Bound,
           k \in S \/ Expired(items[k]) \/ items[k].token \in Forgotten
    PROVE  Ends(k)
  BY DEF Keep, Ends

LEMMA BindEnds ==
    ASSUME RoutingTyped, UNCHANGED now, NEW p \in Request, Routable(p), NEW t \in Token,
           Bind(KeyOf(p), t), Answers(p, KeyOf(p)), NEW k \in Bound
    PROVE  Ends(k)
<1>1. KeyOf(p) \in Key
  BY OneGroup
<1>2. CASE k \notin DOMAIN items'
  <2>1. LostToPressure(k)
    BY <1>1, <1>2, BindPresses
  <2> QED
    BY <1>2, <2>1 DEF Ends
<1>3. CASE k \in DOMAIN items' /\ k = KeyOf(p)
  BY <1>3 DEF Ends
<1>4. CASE k \in DOMAIN items' /\ k # KeyOf(p)
  <2>1. items'[k] = items[k]
    BY <1>4 DEF Bind
  <2> QED
    BY <1>4, <2>1 DEF Ends
<1> QED
  BY <1>2, <1>3, <1>4

LEMMA PickEnds ==
    ASSUME RoutingInv, UNCHANGED now, NEW p \in Request, Pick(p), NEW k \in Bound
    PROVE  Ends(k)
<1>1. RoutingTyped
  BY DEF RoutingInv
<1>2. CASE UNCHANGED items
  BY <1>2 DEF Ends, Bound
<1>3. CASE PickLookup(p)
  <2>1. Get(KeyOf(p))
    BY <1>3 DEF PickLookup
  <2>2. CASE Expired(items[KeyOf(p)]) /\ Keep(Bound \ {KeyOf(p)})
    BY <2>2, KeepEnds
  <2>3. CASE Live(KeyOf(p)) /\ items' = [items EXCEPT ![KeyOf(p)].expiry = now + ttl]
    <3>1. DOMAIN items' = Bound /\ (k # KeyOf(p) => items'[k] = items[k])
      BY <2>3 DEF Bound
    <3>2. k = KeyOf(p) => ~Expired(items[k])
      BY <2>3 DEF Live
    <3> QED
      BY <3>1, <3>2 DEF Ends
  <2> QED
    BY <1>2, <2>1, <2>2, <2>3 DEF Get
<1>4. CASE PickFallback(p) \/ PickPinned(p) \/ PickBind(p)
  <2>1. \E t \in Token : Bind(KeyOf(p), t)
    BY <1>1, <1>4, JudgedType DEF PickFallback, PickPinned, PickBind
  <2>2. Routable(p)
    BY <1>4 DEF PickFallback, PickPinned, PickBind, RoutingInv, PickInv, Undecided
  <2>3. \E outcome \in Outcome, t \in Token : Finish(p, outcome, t)
    BY <1>1, <1>4, JudgedType, CallType
    DEF PickFallback, PickPinned, PickBind, Outcome, Call
  <2>4. Answers(p, KeyOf(p))
    <3>1. picks'[p].step = "done"
      BY <1>1, <2>3, FinishMoves
    <3>2. ~At(p, "done")
      BY <1>4 DEF PickFallback, PickPinned, PickBind, Judging, At
    <3> QED
      BY <3>1, <3>2 DEF Answers, KeyOf
  <2> QED
    BY <1>1, <2>1, <2>2, <2>4, BindEnds
<1> QED
  BY <1>2, <1>3, <1>4
  DEF Pick, PickBegin, PickLoad, PickRead, PickDecline, PickReturn, sessionsVars

LEMMA StepEnds ==
    ASSUME RoutingInv, RoutingNext, NEW k \in Bound
    PROVE  Ends(k)
<1>1. CASE UNCHANGED items
  BY <1>1 DEF Ends, Bound
<1>2. CASE UNCHANGED now /\ \E p \in Request : Pick(p)
  BY <1>2, PickEnds
<1>3. CASE \E config \in PluginConfigs : Reconfigure(config)
  <2>1. PICK config \in PluginConfigs : Configure(config.ttl, config.max)
    BY <1>3 DEF Reconfigure
  <2>2. PICK kept \in SUBSET Bound :
          Trimmed(Bound, newer, config.max, kept) /\ Keep(kept) /\ max' = config.max
    BY <2>1 DEF Configure
  <2>3. CASE k \in kept
    BY <2>2, <2>3, KeepEnds
  <2>4. CASE k \notin kept
    <3>1. DOMAIN items' = kept
      BY <2>2 DEF Keep
    <3>2. LostToPressure(k)
      BY <2>2, <2>4, <3>1 DEF LostToPressure, Trimmed
    <3> QED
      BY <2>4, <3>1, <3>2 DEF Ends
  <2> QED
    BY <2>3, <2>4
<1>4. ASSUME NEW t \in Token, SyncForget(t) PROVE Ends(k)
  <2>1. t \in Forgotten
    BY <1>4 DEF SyncForget, Forgotten, RoutingInv, RoutingTyped
  <2> QED
    BY <1>4, <2>1, KeepEnds DEF SyncForget, DropToken
<1>5. ASSUME NEW t \in Token, PruneForget(t) PROVE Ends(k)
  <2>1. t \in Forgotten
    BY <1>5 DEF PruneForget, Forgotten, RoutingInv, Pruning
  <2> QED
    BY <1>5, <2>1, KeepEnds DEF PruneForget, DropToken
<1>6. CASE SweepSessions
  BY <1>6, KeepEnds DEF SweepSessions, Sweep
<1>7. CASE Event
  BY <1>1, <1>3, <1>6, <1>7 DEF Event, SyncTable, SyncFails, Answer, Note429, sessionsVars
<1>8. CASE Aftermath
  BY <1>1, <1>4, <1>8 DEF Aftermath, SyncPublish, sessionsVars
<1>9. CASE Prune
  BY <1>1, <1>5, <1>9 DEF Prune, PruneBegin, PruneRemove, sessionsVars
<1> QED
  BY <1>1, <1>2, <1>7, <1>8, <1>9 DEF RoutingNext, RoutingStep, sessionsVars

(* A live binding goes only with its forgotten credential or under real      *)
(* pressure, and an expired one comes back only by the answer of a pick of   *)
(* its session, for any number of picks, syncs, prunes and reconfigurations. *)
THEOREM RoutingBindingsEnd == RoutingSpec => BindingsEndForCause
<1>1. RoutingInv /\ [RoutingNext]_RoutingVars => [\A k \in Bound : Ends(k)]_RoutingVars
  BY StepEnds
<1> QED
  BY <1>1, RoutingInvariant, PTL DEF RoutingSpec, BindingsEndForCause, Ends

-----------------------------------------------------------------------------
(* And the credential table: its own steps, or the Touch of a pick that is   *)
(* older than the lag its specification allows a clock reading.              *)
LateTouch == UNCHANGED now /\ \E t \in Token, at \in Nat \ {0} : Touch(t, at)

LEMMA StepUsesRegistry ==
    ASSUME RoutingInv, RoutingNext
    PROVE  [RegistryNext]_RegistryVars \/ LateTouch
<1>1. RegistryInv /\ now \in ReadClock /\ Tracked \subseteq Token
  BY NowIsRead DEF RoutingInv, RoutingTyped, RegistryInv, RegistryTypeOK
<1>2. ASSUME UNCHANGED <<now, keys>> PROVE [RegistryNext]_RegistryVars
  BY <1>2 DEF RegistryVars
<1>3. ASSUME UNCHANGED now, NEW t \in Token, Mutate(t) PROVE RegistryNext
  BY <1>3 DEF RegistryNext
<1>4. CASE UNCHANGED now /\ \E p \in Request : Pick(p)
  <2>1. PICK p \in Request : Pick(p)
    BY <1>4
  <2>2. CASE PickRead(p)
    <3>1. PICK t \in picks[p].todo : Touch(t, picks[p].at)
      BY <2>2, ReadIs
    <3>2. t \in Token /\ picks[p].at \in Nat
      BY CallType DEF Call, RoutingInv
    <3>3. picks[p].at # 0
      BY <2>2, ReadIs DEF RoutingInv, Dated, Deciding, At, Never
    <3> QED
      BY <1>4, <3>1, <3>2, <3>3 DEF LateTouch
  <2>3. CASE ~PickRead(p)
    <3>1. UNCHANGED keys
      BY <2>1, <2>3
      DEF Pick, PickBegin, PickLoad, PickDecline, PickFallback, PickPinned, PickLookup,
          PickBind, PickReturn
    <3> QED
      BY <1>2, <1>4, <3>1
  <2> QED
    BY <2>2, <2>3
<1>5. CASE UNCHANGED now /\ Event
  <2>1. CASE \E listing \in Listings : SyncTable(listing)
    BY <1>5, <2>1, ListingsAssumption DEF SyncTable, RegistryNext
  <2>2. CASE \E t \in Tracked : Answer(t) \/ Note429(t)
    BY <1>1, <1>3, <1>5, <2>2 DEF Answer, Note429, Mutate
  <2>3. CASE \/ SyncFails \/ SweepSessions
             \/ \E config \in PluginConfigs : Reconfigure(config)
    BY <1>2, <1>5, <2>3 DEF SyncFails, Reconfigure, SweepSessions
  <2> QED
    BY <1>5, <2>1, <2>2, <2>3 DEF Event
<1>6. CASE UNCHANGED now /\ Aftermath
  BY <1>2, <1>6 DEF Aftermath, SyncForget, SyncPublish
<1>7. CASE Tick /\ UNCHANGED registryVars
  BY <1>7 DEF RegistryNext, registryVars
<1>8. CASE UNCHANGED now /\ Prune
  BY <1>2, <1>3, <1>8 DEF Prune, PruneBegin, PruneRemove, PruneForget, Mutate
<1> QED
  BY <1>4, <1>5, <1>6, <1>7, <1>8 DEF RoutingNext, RoutingStep

(* A Touch changes nothing but when a credential was last seen.              *)
LEMMA TouchIsLight ==
    ASSUME RegistryInv, LateTouch
    PROVE  /\ DOMAIN keys' = Tracked /\ now' = now
           /\ \A u \in Tracked : /\ keys'[u].suspectedAt = keys[u].suspectedAt
                                 /\ keys'[u].revoked = keys[u].revoked
           /\ \A u \in Tracked : Clean(u)
<1>1. PICK t \in Token, at \in Nat \ {0} : Touch(t, at) /\ now' = now
  BY DEF LateTouch
<1> DEFINE s == [keys[t] EXCEPT !.lastSeenAt = at]
<1>2. /\ DOMAIN keys' = Tracked
      /\ \A u \in Tracked : keys'[u] = IF u = t THEN s ELSE keys[u]
  BY <1>1, UpdatedEntries DEF Touch
<1>3. \A u \in Tracked : keys[u] \in State
  BY EntryType
<1>4. t \in Tracked => s.provider = keys[t].provider /\ Superseded(keys[t], s)
  BY <1>3 DEF State, Superseded, Never
<1>5. \A u \in Tracked : Clean(u)
  BY <1>1, <1>2, <1>4, UpdateIsClean DEF Touch
<1> QED
  BY <1>1, <1>2, <1>3, <1>5 DEF State

(* What the credential table promises of every call holds of every step of   *)
(* the composition, prunes and picks with an old clock included: a 429's     *)
(* hold is a floor, a reload is clean, and only a reading lifts a revocation.*)
THEOREM RoutingKeepsRegistry ==
    RoutingSpec => HoldIsAFloor /\ ReloadIsClean /\ RevocationSticks
<1>1. RoutingInv /\ [RoutingNext]_RoutingVars =>
        [\A t \in Tracked \cap DOMAIN keys' :
            Suspected429(keys[t], now') => Suspected429(keys'[t], now')]_RegistryVars
  <2> SUFFICES ASSUME RoutingInv, RoutingNext, NEW t \in Tracked \cap DOMAIN keys',
                      Suspected429(keys[t], now')
               PROVE  Suspected429(keys'[t], now')
    BY DEF RoutingVars, RegistryVars
  <2>1. RegistryInv
    BY DEF RoutingInv, RoutingTyped
  <2>2. CASE LateTouch
    BY <2>1, <2>2, TouchIsLight DEF Suspected429
  <2> QED
    BY <2>1, <2>2, StepUsesRegistry, NextHolds
<1>2. RoutingInv /\ [RoutingNext]_RoutingVars =>
        [\A t \in DOMAIN keys' : Clean(t)]_RegistryVars
  <2> SUFFICES ASSUME RoutingInv, RoutingNext, NEW t \in DOMAIN keys' PROVE Clean(t)
    BY DEF RoutingVars, RegistryVars
  <2>1. RegistryInv
    BY DEF RoutingInv, RoutingTyped
  <2>2. CASE LateTouch
    BY <2>1, <2>2, TouchIsLight
  <2>3. CASE UNCHANGED RegistryVars
    BY <2>1, <2>3, KeptIsClean DEF RegistryVars, Tracked
  <2> QED
    BY <2>1, <2>2, <2>3, StepUsesRegistry, NextIsClean
<1>3. RoutingInv /\ [RoutingNext]_RoutingVars =>
        [\A t \in Tracked \cap DOMAIN keys' :
            keys[t].revoked /\ ~keys'[t].revoked =>
                keys'[t].hasUsage /\ keys'[t].failStreak = 0]_RegistryVars
  <2> SUFFICES ASSUME RoutingInv, RoutingNext, NEW t \in Tracked \cap DOMAIN keys', Lifted(t)
               PROVE  ByReading(t)
    BY DEF RoutingVars, RegistryVars, Lifted, ByReading
  <2>1. RegistryInv
    BY DEF RoutingInv, RoutingTyped
  <2>2. ~LateTouch
    BY <2>1, TouchIsLight DEF Lifted
  <2>3. ~UNCHANGED RegistryVars
    BY DEF Lifted, RegistryVars
  <2> QED
    BY <2>1, <2>2, <2>3, StepUsesRegistry, NextLifts
<1> QED
  BY <1>1, <1>2, <1>3, RoutingInvariant, PTL
  DEF RoutingSpec, HoldIsAFloor, ReloadIsClean, RevocationSticks, Clean

-----------------------------------------------------------------------------
(* What may orphan a binding.                                               *)
Orphaned(k) == Orphan(k)' /\ ~(Orphan(k) /\ items'[k].token = items[k].token)

(* A binding that was there before, to the same token, is not orphaned while *)
(* nothing leaves the table unnoticed.                                      *)
LEMMA NotOrphaned ==
    ASSUME NEW k \in DOMAIN items', Rests(k), Orphaned(k),
           items'[k].token \in Tracked \cup sync.removed \cup pruning.half =>
               items'[k].token \in DOMAIN keys' \cup sync'.removed \cup pruning'.half
    PROVE  FALSE
  BY DEF Rests, Orphaned, Orphan, Bound, Tracked

LEMMA SyncOrphansNone ==
    ASSUME RoutingInv, UNCHANGED <<now, pruning, picks>>, Event \/ Aftermath,
           NEW k \in DOMAIN items'
    PROVE  ~Orphaned(k)
<1> SUFFICES ASSUME Orphaned(k) PROVE FALSE
  OBVIOUS
<1>1. RoutingTyped /\ RegistryInv /\ SessionsInv
  BY DEF RoutingInv, RoutingTyped
<1>2. Rests(k)
  BY <1>1, SyncTableAround, SyncFailsAround, ReconfigureAround, AnswerAround, SweepAround,
     SyncForgetAround, SyncPublishAround
  DEF Event, Aftermath, Around
<1>3. CASE \E listing \in Listings : SyncTable(listing)
  <2>1. PICK listing \in Listings : SyncTable(listing)
    BY <1>3
  <2>2. /\ sync.removed = {}
        /\ DOMAIN keys' = DOMAIN listing /\ sync'.removed = Tracked \ DOMAIN listing
    BY <2>1 DEF SyncTable, SyncIdle, Sync
  <2> QED
    BY <1>2, <2>2, NotOrphaned
<1>4. CASE SyncFails \/ SweepSessions \/ \E config \in PluginConfigs : Reconfigure(config)
  <2>1. UNCHANGED <<keys, sync>>
    BY <1>4 DEF SyncFails, SweepSessions, Reconfigure, serviceVars
  <2> QED
    BY <1>2, <2>1, NotOrphaned DEF Tracked
<1>5. CASE \E t \in Tracked : Answer(t) \/ Note429(t)
  <2>1. PICK t \in Tracked : Answer(t) \/ Note429(t)
    BY <1>5
  <2>2. DOMAIN keys' = Tracked /\ t \in Token
    BY <1>1, <2>1, UpdatedEntries
    DEF Answer, Note429, StoreUsage, StoreFetchFailure, StoreRevoked, MarkSuspected429,
        RegistryInv, RegistryTypeOK
  <2>3. sync' = sync
    BY <2>1 DEF Answer, Note429, serviceVars
  <2> QED
    BY <1>2, <2>2, <2>3, NotOrphaned
<1>6. CASE \E t \in Token : SyncForget(t)
  <2>1. PICK t \in Token : SyncForget(t)
    BY <1>6
  <2>2. items'[k].token # t
    BY <2>1 DEF SyncForget, DropToken, Keep
  <2>3. keys' = keys /\ sync'.removed = sync.removed \ {t}
    BY <1>1, <2>1 DEF SyncForget, RoutingTyped
  <2> QED
    BY <1>2, <2>2, <2>3, NotOrphaned DEF Tracked
<1>7. CASE SyncPublish
  <2>1. keys' = keys /\ sync.removed = {}
    BY <1>7 DEF SyncPublish
  <2> QED
    BY <1>2, <2>1, NotOrphaned DEF Tracked
<1> QED
  BY <1>3, <1>4, <1>5, <1>6, <1>7 DEF Event, Aftermath

(* Nor by a prune, whose removed credential waits to be forgotten.           *)
LEMMA PruneOrphansNone ==
    ASSUME RoutingInv, UNCHANGED <<now, serviceVars, picks>>, Prune, NEW k \in DOMAIN items'
    PROVE  ~Orphaned(k)
<1> SUFFICES ASSUME Orphaned(k) PROVE FALSE
  OBVIOUS
<1>1. Rests(k) /\ sync' = sync
  BY PruneAround DEF RoutingInv, Around, serviceVars
<1>2. CASE PruneBegin
  <2>1. keys' = keys /\ pruning.half = {}
    BY <1>2 DEF PruneBegin, PruneIdle
  <2> QED
    BY <1>1, <2>1, NotOrphaned DEF Tracked
<1>3. ASSUME NEW t \in Token, PruneRemove(t) PROVE FALSE
  <2>1. DOMAIN keys' = Tracked \ {t} /\ pruning.half = {} /\ pruning'.half = {t}
    BY <1>3 DEF PruneRemove, Remove
  <2> QED
    BY <1>1, <2>1, NotOrphaned
<1>4. ASSUME NEW t \in Token, PruneForget(t) PROVE FALSE
  <2>1. items'[k].token # t /\ keys' = keys
    BY <1>4 DEF PruneForget, DropToken, Keep
  <2>2. pruning'.half = pruning.half \ {t}
    BY <1>4 DEF PruneForget, RoutingInv, Pruning
  <2> QED
    BY <1>1, <2>1, <2>2, NotOrphaned DEF Tracked
<1> QED
  BY <1>2, <1>3, <1>4 DEF Prune

(* A pick binds what it had seen.                                           *)
LEMMA BindsSeen ==
    ASSUME RoutingTyped, UNCHANGED now, NEW p \in Request, Pick(p), NEW k \in DOMAIN items',
           ~Rests(k)
    PROVE  Answers(p, k) /\ items'[k].token \in DOMAIN picks[p].seen
<1> DEFINE seen == picks[p].seen
<1>1. Binds(p)
  BY PickEffects DEF PickEffect
<1>2. ASSUME NEW t \in DOMAIN seen, Bind(KeyOf(p), t)
      PROVE  k = KeyOf(p) /\ items'[k].token = t
  <2>1. t \in Token
    BY CallType
  <2>2. k = KeyOf(p)
    BY <1>2, <2>1, BindRests DEF RoutingTyped
  <2> QED
    BY <1>2, <2>2 DEF Bind
<1>3. \E t \in DOMAIN seen : Bind(KeyOf(p), t)
  <2>1. CASE PickFallback(p)
    BY <2>1 DEF PickFallback, BestReleasable, IsFirst, Releasable
  <2>2. CASE PickPinned(p)
    BY <2>2, JudgedType DEF PickPinned
  <2>3. CASE PickBind(p)
    BY <2>3, JudgedType DEF PickBind
  <2>4. CASE PickLookup(p)
    BY <2>4, GetRests, LookupIs DEF RoutingTyped
  <2>5. CASE UNCHANGED sessionsVars
    BY <2>5, ItemsRest, CallType DEF RoutingTyped, sessionsVars
  <2> QED
    BY <2>1, <2>2, <2>3, <2>4, <2>5
    DEF Pick, PickBegin, PickLoad, PickRead, PickDecline, PickReturn
<1>4. k = KeyOf(p) /\ items'[k].token \in DOMAIN seen
  BY <1>2, <1>3
<1> QED
  BY <1>1, <1>4 DEF Binds, Answers, Deciding, At, KeyOf

LEMMA OrphanHasPick ==
    ASSUME RoutingInv, RoutingNext, NEW k \in DOMAIN items', Orphaned(k)
    PROVE  \E p \in Request : Answers(p, k) /\ items'[k].token \in DOMAIN picks[p].seen
<1>1. RoutingTyped /\ RegistryInv /\ SessionsInv /\ now \in Nat
  BY CallType DEF RoutingInv, RoutingTyped, RegistryInv, RegistryTypeOK
<1>2. CASE UNCHANGED <<now, serviceVars, pruning>> /\ \E p \in Request : Pick(p)
  <2>1. PICK p \in Request : Pick(p)
    BY <1>2
  <2>2. DOMAIN keys' = Tracked /\ sync' = sync /\ pruning' = pruning
    <3>1. CASE PickRead(p)
      <4>1. PICK t \in picks[p].todo : Touch(t, picks[p].at)
        BY <1>1, <1>2, <3>1, ReadIs
      <4>2. t \in Token
        BY <1>1, CallType DEF InHand
      <4> QED
        BY <1>1, <1>2, <4>1, <4>2, UpdatedEntries DEF Touch, serviceVars
    <3>2. CASE ~PickRead(p)
      BY <1>2, <2>1, <3>2
      DEF Pick, PickBegin, PickLoad, PickDecline, PickFallback, PickPinned, PickLookup,
          PickBind, PickReturn, serviceVars, Tracked
    <3> QED
      BY <3>1, <3>2
  <2>3. ~Rests(k)
    BY <2>2, NotOrphaned
  <2> QED
    BY <1>1, <1>2, <2>1, <2>3, BindsSeen
<1>3. CASE UNCHANGED <<now, pruning, picks>> /\ (Event \/ Aftermath)
  BY <1>3, SyncOrphansNone
<1>4. CASE Tick /\ UNCHANGED <<registryVars, sessionsVars, serviceVars, pruning>>
  BY <1>4 DEF registryVars, sessionsVars, serviceVars, Orphaned, Orphan, Bound, Tracked
<1>5. CASE UNCHANGED <<now, serviceVars, picks>> /\ Prune
  BY <1>5, PruneOrphansNone
<1> QED
  BY <1>2, <1>3, <1>4, <1>5 DEF RoutingNext, RoutingStep

(* However syncs, prunes, picks and reconfigurations interleave, a binding   *)
(* outlives its credential only if a pick that had read the credential made  *)
(* it.                                                                      *)
THEOREM RoutingOrphans == RoutingSpec => OrphansNeedPicks
<1>1. RoutingInv /\ [RoutingNext]_RoutingVars =>
        [\A k \in DOMAIN items' :
            Orphan(k)' /\ ~(Orphan(k) /\ items'[k].token = items[k].token) =>
                \E p \in Request :
                   Answers(p, k) /\ items'[k].token \in DOMAIN picks[p].seen]_RoutingVars
  BY OrphanHasPick DEF Orphaned
<1> QED
  BY <1>1, RoutingInvariant, PTL DEF RoutingSpec, OrphansNeedPicks
=============================================================================
