--------------------------- MODULE RefreshProofs ----------------------------
(***************************************************************************)
(* What holds of the refresh machinery for any number of credentials,        *)
(* workers and 429 reports, any queue depth and any reloads.                *)
(***************************************************************************)
EXTENDS Refresh, FiniteSetTheorems, TLAPS

-----------------------------------------------------------------------------
(* Types.  Every step preserves the type invariant.                         *)

LEMMA ReplyTypes == Replies \subseteq Reply /\ "error" \in Reply
  BY RepliesAssumption DEF Reply

LEMMA StampType ==
    ASSUME NEW entries, NEW t \in Token,
           DOMAIN entries \subseteq Token, entries \in [DOMAIN entries -> Age]
    PROVE  /\ DOMAIN Stamp(entries, t) \subseteq Token
           /\ Stamp(entries, t) \in [DOMAIN Stamp(entries, t) -> Age]
  BY DEF Stamp, Age

LEMMA WithoutType ==
    ASSUME NEW entries, NEW t,
           DOMAIN entries \subseteq Token, entries \in [DOMAIN entries -> Age]
    PROVE  /\ DOMAIN Without(entries, t) \subseteq Token
           /\ Without(entries, t) \in [DOMAIN Without(entries, t) -> Age]
  BY DEF Without

LEMMA RequestType ==
    ASSUME RefreshTypeOK, NEW t \in Token, NEW force, RequestRefresh(t, force)
    PROVE  /\ queue' \in Seq(Token)
           /\ inflight' \subseteq Token
           /\ DOMAIN lastAttempt' \subseteq Token
           /\ lastAttempt' \in [DOMAIN lastAttempt' -> Age]
<1>1. CASE Refused(t, force)
  BY <1>1 DEF RequestRefresh, queueVars, RefreshTypeOK
<1>2. CASE ~Refused(t, force)
  <2>1. /\ queue' = Append(queue, t)
        /\ inflight' = inflight \cup {t}
        /\ lastAttempt' = Stamp(lastAttempt, t)
    BY <1>2 DEF RequestRefresh
  <2>2. queue' \in Seq(Token) /\ inflight' \subseteq Token
    BY <2>1 DEF RefreshTypeOK
  <2>3. DOMAIN lastAttempt \subseteq Token /\ lastAttempt \in [DOMAIN lastAttempt -> Age]
    BY DEF RefreshTypeOK
  <2> QED
    BY <2>1, <2>2, <2>3, StampType
<1> QED
  BY <1>1, <1>2

(* The worker part of the type invariant, for a worker that only moves on.   *)
WorkerTypes ==
    /\ worker \in [Worker -> [step : {"top", "wait", "start", "fetch", "finish", "gone"},
                              token : Token \cup {Nobody},
                              reply : Reply]]
    /\ \A w \in Worker :
          worker[w].step \in {"start", "fetch", "finish"} => worker[w].token \in Token

LEMMA StepsType ==
    ASSUME WorkerTypes, NEW w \in Worker, NEW from, NEW to, Steps(w, from, to),
           to \in {"top", "wait", "start", "fetch", "finish", "gone"},
           to \in {"start", "fetch", "finish"} => worker[w].token \in Token
    PROVE  WorkerTypes'
  BY DEF Steps, WorkerTypes

(* All of the type invariant but the history of lost marks.                  *)
OwnTypes ==
    /\ tracked \subseteq Token
    /\ learnt \in [tracked -> Verdict]
    /\ queue \in Seq(Token)
    /\ inflight \subseteq Token
    /\ DOMAIN lastAttempt \subseteq Token
    /\ lastAttempt \in [DOMAIN lastAttempt -> Age]
    /\ DOMAIN lastSuspect \subseteq Token
    /\ lastSuspect \in [DOMAIN lastSuspect -> Age]
    /\ WorkerTypes
    /\ handler \in [Handler -> [step : {"idle", "suspect", "request"},
                                token : Token \cup {Nobody}]]
    /\ \A h \in Handler : handler[h].step # "idle" => handler[h].token \in Token
    /\ loop \in [step : {"select", "sweep", "unmark", "unsuspect", "request", "gone"},
                 due : SUBSET Token, half : SUBSET Token]
    /\ sync \in [step : {"idle", "forget", "request"}, removed : SUBSET Token,
                 half : SUBSET Token, added : SUBSET Token]
    /\ stopped \in BOOLEAN
    /\ late \subseteq Token
    /\ afterStop \in [Worker -> Nat]

LEMMA WorkerType ==
    ASSUME RefreshTypeOK, NEW w \in Worker, WorkerMoves(w)
    PROVE  OwnTypes'
<1> USE DEF WorkerMoves
<1>1. CASE CheckStop(w)
  <2>1. WorkerTypes'
    BY <1>1, StepsType DEF CheckStop, RefreshTypeOK, WorkerTypes
  <2> QED
    BY <1>1, <2>1 DEF CheckStop, RefreshTypeOK, OwnTypes, WorkerTypes, registryVars, queueVars
<1>2. CASE Quit(w)
  <2>1. WorkerTypes'
    BY <1>2, StepsType DEF Quit, RefreshTypeOK, WorkerTypes
  <2> QED
    BY <1>2, <2>1 DEF Quit, RefreshTypeOK, OwnTypes, WorkerTypes, registryVars, queueVars
<1>3. CASE Take(w)
  <2>1. Head(queue) \in Token /\ Tail(queue) \in Seq(Token)
    BY <1>3 DEF Take, RefreshTypeOK
  <2>2. afterStop' \in [Worker -> Nat]
    BY <1>3 DEF Take, RefreshTypeOK
  <2> QED
    BY <1>3, <2>1, <2>2, ReplyTypes DEF Take, RefreshTypeOK, OwnTypes, WorkerTypes, registryVars
<1>4. CASE Begin(w)
  <2>1. worker[w].token \in Token
    BY <1>4 DEF Begin, Steps, RefreshTypeOK
  <2>2. WorkerTypes'
    BY <1>4, <2>1, StepsType DEF Begin, RefreshTypeOK, WorkerTypes
  <2> QED
    BY <1>4, <2>2 DEF Begin, RefreshTypeOK, OwnTypes, WorkerTypes, registryVars, queueVars
<1>5. CASE Finish(w)
  BY <1>5, ReplyTypes DEF Finish, Resting, RefreshTypeOK, OwnTypes, WorkerTypes, registryVars, queueVars
<1>6. CASE \E reply \in Replies : Conclude(w, reply)
  <2>1. PICK reply \in Replies : Conclude(w, reply)
    BY <1>6
  <2>2. learnt' \in [tracked -> Verdict]
    BY <2>1 DEF Conclude, Says, RefreshTypeOK, Verdict
  <2>3. reply \in Reply /\ worker[w].token \in Token
    BY <2>1, ReplyTypes DEF Conclude, RefreshTypeOK
  <2>4. WorkerTypes'
    BY <2>1, <2>3 DEF Conclude, RefreshTypeOK, WorkerTypes
  <2> QED
    BY <2>1, <2>2, <2>4 DEF Conclude, RefreshTypeOK, OwnTypes, WorkerTypes, queueVars
<1> QED
  BY <1>1, <1>2, <1>3, <1>4, <1>5, <1>6 DEF WorkerStep

LEMMA UnmarkType ==
    ASSUME RefreshTypeOK, NEW t, Unmark(t)
    PROVE  /\ queue' \in Seq(Token)
           /\ inflight' \subseteq Token
           /\ DOMAIN lastAttempt' \subseteq Token
           /\ lastAttempt' \in [DOMAIN lastAttempt' -> Age]
  BY WithoutType DEF Unmark, RefreshTypeOK

LEMMA UnsuspectType ==
    ASSUME RefreshTypeOK, NEW t, Unsuspect(t)
    PROVE  /\ DOMAIN lastSuspect' \subseteq Token
           /\ lastSuspect' \in [DOMAIN lastSuspect' -> Age]
  BY WithoutType DEF Unsuspect, RefreshTypeOK

LEMMA PollType ==
    ASSUME RefreshTypeOK, PollMoves
    PROVE  OwnTypes'
<1> USE DEF PollMoves
<1>1. CASE LoopQuit
  BY <1>1 DEF LoopQuit, RefreshTypeOK, OwnTypes, WorkerTypes, registryVars, queueVars
<1>2. CASE PollTick
  BY <1>2 DEF PollTick, RefreshTypeOK, OwnTypes, WorkerTypes, registryVars, queueVars
<1>3. CASE RefreshAll
  BY <1>3 DEF RefreshAll, Selecting, RefreshTypeOK, OwnTypes, WorkerTypes, registryVars, queueVars
<1>4. CASE PollRequest
  <2>1. PICK t \in loop.due :
          /\ RequestRefresh(t, FALSE)
          /\ loop' = IF loop.due = {t} THEN Selecting ELSE [loop EXCEPT !.due = @ \ {t}]
    BY <1>4 DEF PollRequest
  <2>2. t \in Token
    BY DEF RefreshTypeOK
  <2>3. loop' \in [step : {"select", "sweep", "unmark", "unsuspect", "request", "gone"},
                   due : SUBSET Token, half : SUBSET Token]
    BY <2>1 DEF Selecting, RefreshTypeOK
  <2> QED
    BY <1>4, <2>1, <2>2, <2>3, RequestType DEF PollRequest, RefreshTypeOK, OwnTypes, WorkerTypes, registryVars
<1>5. ASSUME NEW t \in Token, PruneRemove(t) PROVE OwnTypes'
  <2>1. tracked' \subseteq Token /\ learnt' \in [tracked' -> Verdict]
    BY <1>5 DEF PruneRemove, RefreshTypeOK
  <2> QED
    BY <1>5, <2>1 DEF PruneRemove, RefreshTypeOK, OwnTypes, WorkerTypes, queueVars
<1>6. ASSUME NEW t \in Token, PruneUnmark(t) PROVE OwnTypes'
  BY <1>6, UnmarkType DEF PruneUnmark, RefreshTypeOK, OwnTypes, WorkerTypes, registryVars
<1>7. ASSUME NEW t \in Token, PruneUnsuspect(t) PROVE OwnTypes'
  BY <1>7, UnsuspectType DEF PruneUnsuspect, RefreshTypeOK, OwnTypes, WorkerTypes, registryVars, queueVars
<1> QED
  BY <1>1, <1>2, <1>3, <1>4, <1>5, <1>6, <1>7 DEF PollStep

LEMMA HandlerType ==
    ASSUME RefreshTypeOK, NEW h \in Handler, HandlerMoves(h)
    PROVE  OwnTypes'
<1> USE DEF HandlerMoves
<1>1. CASE Report(h)
  BY <1>1 DEF Report, RefreshTypeOK, OwnTypes, WorkerTypes, registryVars, queueVars
<1>2. CASE Suspect(h)
  <2>1. handler[h].token \in Token
    BY <1>2 DEF Suspect, RefreshTypeOK
  <2>2. DOMAIN lastSuspect' \subseteq Token /\ lastSuspect' \in [DOMAIN lastSuspect' -> Age]
    <3>1. DOMAIN lastSuspect \subseteq Token /\ lastSuspect \in [DOMAIN lastSuspect -> Age]
      BY DEF RefreshTypeOK
    <3>2. \/ lastSuspect' = lastSuspect
          \/ lastSuspect' = Stamp(lastSuspect, handler[h].token)
      BY <1>2 DEF Suspect
    <3> QED
      BY <2>1, <3>1, <3>2, StampType
  <2>3. /\ handler' \in [Handler -> [step : {"idle", "suspect", "request"},
                                     token : Token \cup {Nobody}]]
        /\ \A i \in Handler : handler'[i].step # "idle" => handler'[i].token \in Token
    <3>0. /\ handler \in [Handler -> [step : {"idle", "suspect", "request"},
                                      token : Token \cup {Nobody}]]
          /\ \A i \in Handler : handler[i].step # "idle" => handler[i].token \in Token
      BY DEF RefreshTypeOK
    <3>1. CASE handler' = [handler EXCEPT ![h] = Waiting]
      BY <3>0, <3>1 DEF Waiting
    <3>2. CASE handler' = [handler EXCEPT ![h].step = "request"]
      BY <2>1, <3>0, <3>2
    <3> QED
      BY <1>2, <3>1, <3>2 DEF Suspect
  <2> QED
    BY <1>2, <2>2, <2>3 DEF Suspect, RefreshTypeOK, OwnTypes, WorkerTypes, registryVars, queueVars
<1>3. CASE Retry(h)
  <2>1. handler[h].token \in Token
    BY <1>3 DEF Retry, RefreshTypeOK
  <2> QED
    BY <1>3, <2>1, RequestType DEF Retry, Waiting, RefreshTypeOK, OwnTypes, WorkerTypes, registryVars
<1> QED
  BY <1>1, <1>2, <1>3 DEF HandlerStep

LEMMA SyncType ==
    ASSUME RefreshTypeOK, SyncMoves
    PROVE  OwnTypes'
<1> USE DEF SyncMoves
<1>2. ASSUME NEW listing \in Listings, SyncTable(listing) PROVE OwnTypes'
  <2>1. listing \subseteq Token
    BY ListingsAssumption
  <2>2. learnt' \in [tracked' -> Verdict]
    BY <1>2 DEF SyncTable, RefreshTypeOK, Verdict
  <2> QED
    BY <1>2, <2>1, <2>2 DEF SyncTable, RefreshTypeOK, OwnTypes, WorkerTypes, queueVars
<1>3. ASSUME NEW t \in Token, ForgetQueue(t) PROVE OwnTypes'
  BY <1>3, UnmarkType DEF ForgetQueue, RefreshTypeOK, OwnTypes, WorkerTypes, registryVars
<1>4. ASSUME NEW t \in Token, ForgetSuspect(t) PROVE OwnTypes'
  BY <1>4, UnsuspectType DEF ForgetSuspect, RefreshTypeOK, OwnTypes, WorkerTypes, registryVars, queueVars
<1>5. ASSUME NEW t \in Token, SyncRequest(t) PROVE OwnTypes'
  BY <1>5, RequestType DEF SyncRequest, SyncIdle, RefreshTypeOK, OwnTypes, WorkerTypes, registryVars
<1>6. CASE SyncForgotten
  BY <1>6 DEF SyncForgotten, SyncIdle, RefreshTypeOK, OwnTypes, WorkerTypes, registryVars, queueVars
<1> QED
  BY <1>2, <1>3, <1>4, <1>5, <1>6 DEF SyncStep

LEMMA TimeType ==
    ASSUME RefreshTypeOK, NEW t \in Token, TimeMoves(t)
    PROVE  OwnTypes'
<1>1. /\ DOMAIN lastAttempt' \subseteq Token /\ lastAttempt' \in [DOMAIN lastAttempt' -> Age]
      /\ DOMAIN lastSuspect' \subseteq Token /\ lastSuspect' \in [DOMAIN lastSuspect' -> Age]
  BY DEF TimeMoves, Elapse, RefreshTypeOK, Age
<1> QED
  BY <1>1 DEF TimeMoves, RefreshTypeOK, OwnTypes, WorkerTypes, registryVars

LEMMA StopType ==
    ASSUME RefreshTypeOK, StopMoves
    PROVE  OwnTypes'
<1> QED
  BY DEF StopMoves, Stop, RefreshTypeOK, OwnTypes, WorkerTypes, registryVars, queueVars

LEMMA LateType ==
    ASSUME RefreshTypeOK, NEW t \in Token, LateMoves(t)
    PROVE  OwnTypes'
  BY DEF LateMoves, ReturnsLate, RefreshTypeOK, OwnTypes, WorkerTypes, registryVars, queueVars

(* Counting: the refreshes queued and those in hand are finitely many.       *)
LEMMA PlacesFinite ==
    ASSUME NEW q \in Seq(Token), NEW t
    PROVE  IsFiniteSet({n \in DOMAIN q : q[n] = t})
<1>1. DOMAIN q = 1 .. Len(q) /\ Len(q) \in Nat
  OBVIOUS
<1>2. IsFiniteSet(1 .. Len(q))
  BY <1>1, FS_Interval
<1> QED
  BY <1>1, <1>2, FS_Subset

LEMMA HoldersFinite ==
    ASSUME NEW H \in SUBSET Worker
    PROVE  IsFiniteSet(H)
  BY WorkerAssumption, FS_Subset

LEMMA Counts ==
    ASSUME NEW q \in Seq(Token), NEW t, NEW H \in SUBSET Worker
    PROVE  /\ Cardinality({n \in DOMAIN q : q[n] = t}) \in Nat
           /\ Cardinality(H) \in Nat
           /\ Cardinality({n \in DOMAIN q : q[n] = t}) = 0 <=> \A n \in DOMAIN q : q[n] # t
           /\ Cardinality(H) = 0 <=> H = {}
<1> DEFINE P == {n \in DOMAIN q : q[n] = t}
<1>1. IsFiniteSet(P) /\ IsFiniteSet(H)
  BY PlacesFinite, HoldersFinite
<1>2. Cardinality(P) \in Nat /\ Cardinality(H) \in Nat
  BY <1>1, FS_CardinalityType
<1>3. (Cardinality(P) = 0 <=> P = {}) /\ (Cardinality(H) = 0 <=> H = {})
  BY <1>1, FS_EmptySet
<1> QED
  BY <1>2, <1>3

LEMMA CountIs ==
    ASSUME queue \in Seq(Token), NEW t \in Token
    PROVE  Count(t) \in Nat /\ (Count(t) > 0 <=> UnderWay(t))
<1> DEFINE P == {n \in DOMAIN queue : queue[n] = t}
           H == Holders(t)
<1>1. H \in SUBSET Worker /\ (H = {} <=> \A w \in Worker : ~WorksOn(w, t))
  BY DEF Holders
<1>2. P = Places(t) /\ (Queued(t) <=> \E n \in DOMAIN queue : queue[n] = t)
  BY DEF Places, Queued
<1>3. /\ Cardinality(P) \in Nat /\ Cardinality(H) \in Nat
      /\ Cardinality(P) = 0 <=> \A n \in DOMAIN queue : queue[n] # t
      /\ Cardinality(H) = 0 <=> H = {}
  BY <1>1, Counts
<1>4. Count(t) = Cardinality(P) + Cardinality(H)
  BY <1>2 DEF Count
<1>5. UnderWay(t) <=> ~(Cardinality(P) = 0 /\ Cardinality(H) = 0)
  BY <1>1, <1>2, <1>3 DEF UnderWay
<1> HIDE DEF P, H
<1> QED
  BY <1>3, <1>4, <1>5

LEMMA CountWillBe ==
    ASSUME queue' \in Seq(Token), NEW t \in Token
    PROVE  Count(t)' \in Nat /\ (Count(t)' > 0 <=> UnderWay(t)')
<1> DEFINE P == {n \in DOMAIN queue' : queue'[n] = t}
           H == Holders(t)'
<1>1. H \in SUBSET Worker /\ (H = {} <=> \A w \in Worker : ~WorksOn(w, t)')
  BY DEF Holders
<1>2. P = Places(t)' /\ (Queued(t)' <=> \E n \in DOMAIN queue' : queue'[n] = t)
  BY DEF Places, Queued
<1>3. /\ Cardinality(P) \in Nat /\ Cardinality(H) \in Nat
      /\ Cardinality(P) = 0 <=> \A n \in DOMAIN queue' : queue'[n] # t
      /\ Cardinality(H) = 0 <=> H = {}
  BY <1>1, Counts
<1>4. Count(t)' = Cardinality(P) + Cardinality(H)
  BY <1>2 DEF Count
<1>5. UnderWay(t)' <=> ~(Cardinality(P) = 0 /\ Cardinality(H) = 0)
  BY <1>1, <1>2, <1>3 DEF UnderWay
<1> HIDE DEF P, H
<1> QED
  BY <1>3, <1>4, <1>5

LEMMA ObserveType ==
    ASSUME RefreshTypeOK, OwnTypes', Observe
    PROVE  RefreshTypeOK'
<1>1. \A t \in Token : unmarked'[t] \in Nat
  BY CountWillBe DEF Observe, RefreshTypeOK, OwnTypes
<1>2. unmarked' \in [Token -> Nat]
  BY <1>1 DEF Observe
<1> QED
  BY <1>2 DEF RefreshTypeOK, OwnTypes, WorkerTypes

LEMMA RefreshInitType == RefreshInit => RefreshTypeOK
<1> SUFFICES ASSUME RefreshInit PROVE RefreshTypeOK
  OBVIOUS
<1>1. queue \in Seq(Token) /\ learnt \in [tracked -> Verdict]
  BY DEF RefreshInit
<1>2. /\ DOMAIN lastAttempt = {} /\ lastAttempt \in [DOMAIN lastAttempt -> Age]
      /\ DOMAIN lastSuspect = {} /\ lastSuspect \in [DOMAIN lastSuspect -> Age]
  BY DEF RefreshInit
<1>3. WorkerTypes
  BY ReplyTypes DEF RefreshInit, Resting, WorkerTypes
<1>4. sync \in [step : {"idle", "forget", "request"}, removed : SUBSET Token,
                half : SUBSET Token, added : SUBSET Token]
  BY DEF RefreshInit, SyncIdle
<1> QED
  BY <1>1, <1>2, <1>3, <1>4 DEF RefreshInit, RefreshTypeOK, WorkerTypes, Waiting, Selecting

LEMMA RefreshNextType == RefreshTypeOK /\ [RefreshNext]_RefreshVars => RefreshTypeOK'
<1> SUFFICES ASSUME RefreshTypeOK, [RefreshNext]_RefreshVars PROVE RefreshTypeOK'
  OBVIOUS
<1>1. CASE UNCHANGED RefreshVars
  BY <1>1 DEF RefreshVars, RefreshTypeOK
<1>2. CASE RefreshNext
  <2>1. OwnTypes'
    BY <1>2, WorkerType, LateType, PollType, HandlerType, SyncType, TimeType, StopType
    DEF RefreshNext, RefreshStep
  <2> QED
    BY <1>2, <2>1, ObserveType DEF RefreshNext
<1> QED
  BY <1>1, <1>2

(* Type correctness of the refresh machinery.                               *)
THEOREM RefreshTypeCorrect == RefreshSpec => []RefreshTypeOK
  BY RefreshInitType, RefreshNextType, PTL DEF RefreshSpec

-----------------------------------------------------------------------------
(* What a step does to the queue, to the marks and to the workers' hands is  *)
(* one of four things.                                                      *)

Quiet ==
    /\ queue' = queue
    /\ \/ inflight' = inflight
       \/ worker' = worker /\ \E u \in Token : inflight' = inflight \ {u}
    /\ \A v \in Worker, u \in Token : WorksOn(v, u)' <=> WorksOn(v, u)

Accepted(t) ==
    /\ t \notin inflight
    /\ queue' = Append(queue, t)
    /\ inflight' = inflight \cup {t}
    /\ worker' = worker

Effect ==
    \/ Quiet
    \/ \E w \in Worker : Take(w)
    \/ \E w \in Worker : Finish(w)
    \/ \E t \in Token : Accepted(t)

LEMMA RequestEffect ==
    ASSUME NEW t \in Token, NEW force, RequestRefresh(t, force), worker' = worker
    PROVE  Quiet \/ Accepted(t)
<1>1. CASE Refused(t, force)
  BY <1>1 DEF RequestRefresh, queueVars, Quiet, WorksOn
<1>2. CASE ~Refused(t, force)
  BY <1>2 DEF RequestRefresh, Refused, Accepted
<1> QED
  BY <1>1, <1>2

LEMMA WorkerEffect ==
    ASSUME RefreshTypeOK, NEW w \in Worker, WorkerMoves(w)
    PROVE  Effect
<1> USE DEF WorkerMoves
<1>1. CASE CheckStop(w) \/ Quit(w) \/ Begin(w) \/ \E reply \in Replies : Conclude(w, reply)
  <2>1. queue' = queue /\ inflight' = inflight
    BY <1>1 DEF CheckStop, Quit, Begin, Conclude, queueVars
  <2>2. \A v \in Worker, u \in Token : WorksOn(v, u)' <=> WorksOn(v, u)
    <3>1. CASE CheckStop(w)
      BY <3>1 DEF CheckStop, Steps, WorksOn, RefreshTypeOK
    <3>2. CASE Quit(w)
      BY <3>2 DEF Quit, Steps, WorksOn, RefreshTypeOK
    <3>3. CASE Begin(w)
      BY <3>3 DEF Begin, Steps, WorksOn, RefreshTypeOK
    <3>4. CASE \E reply \in Replies : Conclude(w, reply)
      BY <3>4 DEF Conclude, WorksOn, RefreshTypeOK
    <3> QED
      BY <1>1, <3>1, <3>2, <3>3, <3>4
  <2> QED
    BY <2>1, <2>2 DEF Effect, Quiet
<1> QED
  BY <1>1 DEF WorkerStep, Effect

LEMMA SyncEffect ==
    ASSUME RefreshTypeOK, SyncMoves
    PROVE  Effect
<1> USE DEF SyncMoves
<1>1. CASE \/ \E listing \in Listings : SyncTable(listing)
           \/ \E t \in Token : ForgetSuspect(t)
           \/ SyncForgotten
  BY <1>1 DEF SyncTable, ForgetSuspect, SyncForgotten, queueVars, Effect, Quiet, WorksOn
<1>2. ASSUME NEW t \in Token, ForgetQueue(t) PROVE Effect
  BY <1>2 DEF ForgetQueue, Unmark, Effect, Quiet, WorksOn
<1>3. ASSUME NEW t \in Token, SyncRequest(t) PROVE Effect
  BY <1>3, RequestEffect DEF SyncRequest, Effect
<1> QED
  BY <1>1, <1>2, <1>3 DEF SyncStep

LEMMA PollEffect ==
    ASSUME RefreshTypeOK, PollMoves
    PROVE  Effect
<1> USE DEF PollMoves
<1>1. CASE \/ LoopQuit \/ PollTick \/ RefreshAll
           \/ \E t \in Token : PruneRemove(t) \/ PruneUnsuspect(t)
  BY <1>1 DEF LoopQuit, PollTick, RefreshAll, PruneRemove, PruneUnsuspect, queueVars,
              Effect, Quiet, WorksOn
<1>2. ASSUME NEW t \in Token, PruneUnmark(t) PROVE Effect
  BY <1>2 DEF PruneUnmark, Unmark, Effect, Quiet, WorksOn
<1>3. CASE PollRequest
  <2>1. PICK t \in loop.due : RequestRefresh(t, FALSE)
    BY <1>3 DEF PollRequest
  <2>2. t \in Token
    BY DEF RefreshTypeOK
  <2> QED
    BY <2>1, <2>2, RequestEffect DEF Effect
<1> QED
  BY <1>1, <1>2, <1>3 DEF PollStep

LEMMA StepEffect ==
    ASSUME RefreshTypeOK, RefreshStep
    PROVE  Effect
<1>1. ASSUME NEW t \in Token, LateMoves(t) PROVE Effect
  BY <1>1 DEF LateMoves, ReturnsLate, queueVars, Effect, Quiet, WorksOn
<1>2. ASSUME NEW h \in Handler, HandlerMoves(h) PROVE Effect
  <2>1. CASE Report(h) \/ Suspect(h)
    BY <1>2, <2>1 DEF HandlerMoves, Report, Suspect, queueVars, Effect, Quiet, WorksOn
  <2>2. CASE Retry(h)
    <3>1. handler[h].token \in Token
      BY <2>2 DEF Retry, RefreshTypeOK
    <3> QED
      BY <1>2, <2>2, <3>1, RequestEffect DEF HandlerMoves, Retry, Effect
  <2> QED
    BY <1>2, <2>1, <2>2 DEF HandlerMoves, HandlerStep
<1>3. ASSUME NEW t \in Token, TimeMoves(t) PROVE Effect
  BY <1>3 DEF TimeMoves, Effect, Quiet, WorksOn
<1>4. CASE StopMoves
  BY <1>4 DEF StopMoves, queueVars, Effect, Quiet, WorksOn
<1> QED
  BY <1>1, <1>2, <1>3, <1>4, WorkerEffect, PollEffect, SyncEffect DEF RefreshStep

(* What taking, finishing and accepting do to who is queued and who works.   *)
LEMMA TakeEffect ==
    ASSUME RefreshTypeOK, NEW w \in Worker, Take(w), NEW t \in Token
    PROVE  /\ \A v \in Worker : WorksOn(v, t)' <=> IF v = w THEN t = Head(queue) ELSE WorksOn(v, t)
           /\ ~WorksOn(w, t)
           /\ Queued(t) => t = Head(queue) \/ Queued(t)'
           /\ Queued(t)' => \E n \in DOMAIN queue : n # 1 /\ queue[n] = t
           /\ 1 \in DOMAIN queue /\ Head(queue) = queue[1]
           /\ inflight' = inflight
<1>1. queue \in Seq(Token) /\ queue # <<>> /\ queue' = Tail(queue)
  BY DEF Take, RefreshTypeOK
<1>2. /\ 1 \in DOMAIN queue /\ Head(queue) = queue[1]
      /\ \A n \in DOMAIN queue : n = 1 \/ (n - 1 \in DOMAIN queue' /\ queue'[n-1] = queue[n])
      /\ \A n \in DOMAIN queue' : n + 1 \in DOMAIN queue /\ queue[n+1] = queue'[n] /\ n + 1 # 1
  BY <1>1
<1>3. /\ \A v \in Worker : WorksOn(v, t)' <=> IF v = w THEN t = Head(queue) ELSE WorksOn(v, t)
      /\ ~WorksOn(w, t)
      /\ inflight' = inflight
  BY DEF Take, WorksOn, RefreshTypeOK
<1> QED
  BY <1>2, <1>3 DEF Queued

LEMMA FinishEffect ==
    ASSUME RefreshTypeOK, NEW w \in Worker, Finish(w), NEW t \in Token
    PROVE  /\ \A v \in Worker : WorksOn(v, t)' <=> v # w /\ WorksOn(v, t)
           /\ WorksOn(w, t) <=> worker[w].token = t
           /\ inflight' = inflight \ {worker[w].token}
           /\ queue' = queue
  BY DEF Finish, Resting, WorksOn, RefreshTypeOK

LEMMA AcceptEffect ==
    ASSUME RefreshTypeOK, NEW u \in Token, Accepted(u), NEW t \in Token
    PROVE  /\ \A n \in DOMAIN queue : n \in DOMAIN queue' /\ queue'[n] = queue[n]
           /\ \A n \in DOMAIN queue' : \/ n \in DOMAIN queue
                                       \/ n = Len(queue) + 1 /\ queue'[n] = u
           /\ Len(queue) + 1 \in DOMAIN queue'
           /\ queue'[Len(queue) + 1] = u
           /\ \A v \in Worker : WorksOn(v, t)' <=> WorksOn(v, t)
  BY DEF Accepted, WorksOn, RefreshTypeOK

-----------------------------------------------------------------------------
(* A mark always has a refresh behind it.                                   *)
LEMMA NoStuckStep ==
    ASSUME RefreshTypeOK, NoStuckInflight, RefreshStep, NEW t \in inflight'
    PROVE  UnderWay(t)'
<1>0. inflight \subseteq Token
  BY DEF RefreshTypeOK
<1>1. CASE Quiet
  BY <1>0, <1>1 DEF Quiet, NoStuckInflight, UnderWay, Queued
<1>2. ASSUME NEW w \in Worker, Take(w) PROVE UnderWay(t)'
  <2>1. t \in inflight /\ t \in Token
    BY <1>0, <1>2 DEF Take
  <2>2. UnderWay(t)
    BY <2>1 DEF NoStuckInflight
  <2> QED
    BY <1>2, <2>1, <2>2, TakeEffect DEF UnderWay
<1>3. ASSUME NEW w \in Worker, Finish(w) PROVE UnderWay(t)'
  <2>1. t \in inflight /\ t # worker[w].token /\ t \in Token
    BY <1>0, <1>3 DEF Finish
  <2>2. UnderWay(t)
    BY <2>1 DEF NoStuckInflight
  <2> QED
    BY <1>3, <2>1, <2>2, FinishEffect DEF UnderWay, Queued
<1>4. ASSUME NEW u \in Token, Accepted(u) PROVE UnderWay(t)'
  <2>1. t \in inflight \/ t = u
    BY <1>4 DEF Accepted
  <2>2. t \in Token
    BY <1>0, <2>1
  <2> QED
    BY <1>4, <2>1, <2>2, AcceptEffect DEF NoStuckInflight, UnderWay, Queued
<1> QED
  BY <1>1, <1>2, <1>3, <1>4, StepEffect DEF Effect

(* No mark blocks a credential without a refresh that will lift it.         *)
THEOREM RefreshNeverStuck == RefreshSpec => []NoStuckInflight
<1>1. RefreshInit => NoStuckInflight
  BY DEF RefreshInit, NoStuckInflight
<1>2. RefreshTypeOK /\ NoStuckInflight /\ [RefreshNext]_RefreshVars => NoStuckInflight'
  <2>1. ASSUME NoStuckInflight, UNCHANGED RefreshVars PROVE NoStuckInflight'
    BY <2>1 DEF RefreshVars, NoStuckInflight, UnderWay, Queued, WorksOn
  <2> QED
    BY <2>1, NoStuckStep DEF RefreshNext, NoStuckInflight
<1> QED
  BY <1>1, <1>2, RefreshTypeCorrect, PTL DEF RefreshSpec

-----------------------------------------------------------------------------
(* One refresh per credential.  How a step changes the number of refreshes   *)
(* under way: taking moves one from the queue to a worker, finishing and     *)
(* accepting change it by one, nothing else changes it.                      *)
LEMMA QuietCount ==
    ASSUME Quiet, NEW t \in Token
    PROVE  Count(t)' = Count(t)
<1>1. Places(t)' = Places(t) /\ Holders(t)' = Holders(t)
  BY DEF Quiet, Places, Holders
<1> QED
  BY <1>1 DEF Count

LEMMA TakeCount ==
    ASSUME RefreshTypeOK, NEW w \in Worker, Take(w), NEW t \in Token
    PROVE  Count(t)' = Count(t)
<1> DEFINE P == Places(t)
           Q == Places(t)'
<1>1. queue \in Seq(Token) /\ queue # <<>> /\ queue' = Tail(queue) /\ queue' \in Seq(Token)
  BY DEF Take, RefreshTypeOK
<1>2. /\ 1 \in DOMAIN queue /\ Head(queue) = queue[1]
      /\ \A n \in DOMAIN queue : n \in Int /\ (n = 1 \/ (n - 1 \in DOMAIN queue' /\ queue'[n-1] = queue[n]))
      /\ \A n \in DOMAIN queue' : n \in Int /\ n + 1 \in DOMAIN queue /\ queue[n+1] = queue'[n] /\ n + 1 # 1
  BY <1>1
<1>3. IsFiniteSet(P) /\ IsFiniteSet(Q) /\ IsFiniteSet(Holders(t))
  BY <1>1, PlacesFinite, HoldersFinite DEF Places, Holders
<1>4. Cardinality(P \ {1}) = Cardinality(Q)
  <2> DEFINE f == [n \in Q |-> n + 1]
  <2>1. f \in [Q -> P \ {1}]
    BY <1>2 DEF Places
  <2>2. \A m, n \in Q : f[m] = f[n] => m = n
    BY <1>2 DEF Places
  <2>3. \A m \in P \ {1} : \E n \in Q : f[n] = m
    <3>1. ASSUME NEW m \in P \ {1} PROVE m - 1 \in Q /\ (m - 1) + 1 = m
      BY <1>2 DEF Places
    <3> QED
      BY <3>1
  <2> HIDE DEF f
  <2>4. f \in Bijection(Q, P \ {1})
    BY <2>1, <2>2, <2>3 DEF Bijection, Injection, Surjection, IsInjective
  <2> QED
    BY <1>3, <2>4, FS_Bijection DEF ExistsBijection
<1>5. Cardinality(P \ {1}) = IF t = Head(queue) THEN Cardinality(P) - 1 ELSE Cardinality(P)
  <2>1. 1 \in P <=> t = Head(queue)
    BY <1>2 DEF Places
  <2> QED
    BY <1>3, <2>1, FS_RemoveElement
<1>6. Cardinality(Holders(t)') = IF t = Head(queue) THEN Cardinality(Holders(t)) + 1
                                                    ELSE Cardinality(Holders(t))
  <2>1. w \notin Holders(t)
    BY TakeEffect DEF Holders
  <2>2. Holders(t)' = IF t = Head(queue) THEN Holders(t) \cup {w} ELSE Holders(t)
    BY <2>1, TakeEffect DEF Holders
  <2> QED
    BY <1>3, <2>1, <2>2, FS_AddElement
<1>7. Cardinality(P) \in Nat /\ Cardinality(Holders(t)) \in Nat
  BY <1>3, FS_CardinalityType
<1> HIDE DEF P, Q
<1>8. Cardinality(P) + Cardinality(Holders(t)) = Cardinality(Q) + Cardinality(Holders(t)')
  BY <1>4, <1>5, <1>6, <1>7
<1> QED
  BY <1>8 DEF Count, P, Q

LEMMA FinishCount ==
    ASSUME RefreshTypeOK, NEW w \in Worker, Finish(w), NEW t \in Token
    PROVE  Count(t)' = IF t = worker[w].token THEN Count(t) - 1 ELSE Count(t)
<1>1. Places(t)' = Places(t)
  BY FinishEffect DEF Places
<1>2. Holders(t)' = Holders(t) \ {w} /\ (w \in Holders(t) <=> t = worker[w].token)
  BY FinishEffect DEF Holders
<1>3. IsFiniteSet(Places(t)) /\ IsFiniteSet(Holders(t))
  <2>1. queue \in Seq(Token)
    BY DEF RefreshTypeOK
  <2> QED
    BY <2>1, PlacesFinite, HoldersFinite DEF Places, Holders
<1>4. Cardinality(Places(t)) \in Nat /\ Cardinality(Holders(t)) \in Nat
  BY <1>3, FS_CardinalityType
<1>5. Cardinality(Holders(t)') = IF t = worker[w].token THEN Cardinality(Holders(t)) - 1
                                                        ELSE Cardinality(Holders(t))
  BY <1>2, <1>3, FS_RemoveElement
<1> QED
  BY <1>1, <1>4, <1>5 DEF Count

LEMMA AcceptCount ==
    ASSUME RefreshTypeOK, NEW u \in Token, Accepted(u), NEW t \in Token
    PROVE  Count(t)' = IF t = u THEN Count(t) + 1 ELSE Count(t)
<1>1. Holders(t)' = Holders(t)
  BY AcceptEffect DEF Holders
<1>2. queue \in Seq(Token) /\ Len(queue) + 1 \notin DOMAIN queue
  BY DEF RefreshTypeOK
<1>3. /\ Places(t)' = IF t = u THEN Places(t) \cup {Len(queue) + 1} ELSE Places(t)
      /\ Len(queue) + 1 \notin Places(t)
  BY <1>2, AcceptEffect DEF Places
<1>4. IsFiniteSet(Places(t)) /\ IsFiniteSet(Holders(t))
  BY <1>2, PlacesFinite, HoldersFinite DEF Places, Holders
<1>5. Cardinality(Places(t)) \in Nat /\ Cardinality(Holders(t)) \in Nat
  BY <1>4, FS_CardinalityType
<1>6. Cardinality(Places(t)') = IF t = u THEN Cardinality(Places(t)) + 1
                                         ELSE Cardinality(Places(t))
  BY <1>3, <1>4, FS_AddElement
<1> QED
  BY <1>1, <1>5, <1>6 DEF Count

(* The count stays within the lost marks and the one there is.               *)
Mark(t) == IF t \in inflight THEN 1 ELSE 0
Lost(t) == IF Loses(t) THEN 1 ELSE 0

LEMMA CountBounded ==
    ASSUME RefreshTypeOK, SingleFlight, RefreshStep, NEW t \in Token
    PROVE  Count(t)' <= unmarked[t] + Lost(t) + Mark(t)'
<1>0. /\ Count(t) \in Nat /\ unmarked[t] \in Nat
      /\ Count(t) <= unmarked[t] + Mark(t)
  BY CountIs DEF SingleFlight, Mark, RefreshTypeOK
<1>1. CASE Quiet
  <2>1. Mark(t) <= Lost(t) + Mark(t)'
    BY <1>1 DEF Quiet, Mark, Lost, Loses
  <2>2. Lost(t) \in Nat /\ Mark(t) \in Nat /\ Mark(t)' \in Nat
    BY DEF Lost, Mark
  <2> QED
    BY <1>0, <1>1, <2>1, <2>2, QuietCount
<1>2. ASSUME NEW w \in Worker, Take(w) PROVE Count(t)' <= unmarked[t] + Lost(t) + Mark(t)'
  <2>1. Mark(t)' = Mark(t) /\ Lost(t) \in Nat /\ Mark(t) \in Nat
    BY <1>2 DEF Take, Mark, Lost
  <2> QED
    BY <1>0, <1>2, <2>1, TakeCount
<1>3. ASSUME NEW w \in Worker, Finish(w) PROVE Count(t)' <= unmarked[t] + Lost(t) + Mark(t)'
  <2>1. inflight' = inflight \ {worker[w].token}
    BY <1>3 DEF Finish
  <2>2. /\ Lost(t) \in Nat /\ Mark(t)' \in Nat /\ Mark(t) \in Nat /\ Mark(t) <= 1
        /\ t # worker[w].token => Mark(t)' = Mark(t)
    BY <2>1 DEF Mark, Lost
  <2> QED
    BY <1>0, <1>3, <2>2, FinishCount
<1>4. ASSUME NEW u \in Token, Accepted(u) PROVE Count(t)' <= unmarked[t] + Lost(t) + Mark(t)'
  <2>1. /\ Lost(t) \in Nat /\ Mark(t)' \in Nat /\ Mark(t) \in Nat
        /\ Mark(t)' = IF t = u THEN Mark(t) + 1 ELSE Mark(t)
    BY <1>4 DEF Mark, Lost, Accepted
  <2> QED
    BY <1>0, <1>4, <2>1, AcceptCount
<1> QED
  BY <1>1, <1>2, <1>3, <1>4, StepEffect DEF Effect

LEMMA SingleFlightStep ==
    ASSUME RefreshTypeOK, RefreshTypeOK', SingleFlight, RefreshNext
    PROVE  SingleFlight'
<1> SUFFICES ASSUME NEW t \in Token PROVE Count(t)' <= unmarked'[t] + Mark(t)'
  BY DEF SingleFlight, Mark
<1>1. Count(t)' <= unmarked[t] + Lost(t) + Mark(t)'
  BY CountBounded DEF RefreshNext
<1>2. unmarked'[t] = IF Count(t)' < unmarked[t] + Lost(t) THEN Count(t)'
                                                         ELSE unmarked[t] + Lost(t)
  BY DEF RefreshNext, Observe, Lost
<1>3. Count(t)' \in Nat /\ Mark(t)' \in Nat
  BY CountWillBe DEF Mark, RefreshTypeOK
<1> QED
  BY <1>1, <1>2, <1>3

(* No credential is refreshed twice at once but for a mark that a forgetting *)
(* took.                                                                    *)
THEOREM RefreshSingleFlight == RefreshSpec => []SingleFlight
<1>1. ASSUME RefreshInit, NEW t \in Token PROVE Count(t) = 0 /\ unmarked[t] = 0
  <2>1. queue \in Seq(Token) /\ ~UnderWay(t)
    BY <1>1 DEF RefreshInit, UnderWay, Queued, WorksOn, Resting
  <2> QED
    BY <1>1, <2>1, CountIs DEF RefreshInit
<1>2. RefreshInit => SingleFlight
  BY <1>1 DEF SingleFlight
<1>3. RefreshTypeOK /\ RefreshTypeOK' /\ SingleFlight /\ [RefreshNext]_RefreshVars => SingleFlight'
  <2>1. ASSUME SingleFlight, UNCHANGED RefreshVars PROVE SingleFlight'
    BY <2>1 DEF RefreshVars, SingleFlight, Count, Places, Holders, WorksOn
  <2> QED
    BY <2>1, SingleFlightStep
<1> QED
  BY <1>2, <1>3, RefreshTypeCorrect, PTL DEF RefreshSpec

-----------------------------------------------------------------------------
(* After the stop.  A worker that began a refresh after the signal is past   *)
(* its first select, and the first select sees the signal.                  *)
StopInv ==
    /\ StopBoundsWork
    /\ \A w \in Worker : worker[w].step = "wait" \/ ~stopped => afterStop[w] = 0

LEMMA StopStep ==
    ASSUME RefreshTypeOK, StopInv, RefreshStep
    PROVE  StopInv'
<1>1. ASSUME NEW w \in Worker, WorkerMoves(w) PROVE StopInv'
  <2> USE DEF StopInv, StopBoundsWork, WorkerMoves, RefreshTypeOK
  <2>1. CASE CheckStop(w)
    BY <1>1, <2>1 DEF CheckStop, Steps
  <2>2. CASE Quit(w)
    BY <1>1, <2>2 DEF Quit, Steps
  <2>3. CASE Take(w)
    BY <1>1, <2>3 DEF Take
  <2>4. CASE Begin(w)
    BY <1>1, <2>4 DEF Begin, Steps
  <2>5. CASE Finish(w)
    BY <1>1, <2>5 DEF Finish, Resting
  <2>6. CASE \E reply \in Replies : Conclude(w, reply)
    BY <1>1, <2>6 DEF Conclude
  <2> QED
    BY <1>1, <2>1, <2>2, <2>3, <2>4, <2>5, <2>6 DEF WorkerStep
<1>2. CASE StopMoves
  BY <1>2 DEF StopMoves, Stop, StopInv, StopBoundsWork, RefreshTypeOK
<1>3. ASSUME UNCHANGED <<worker, stopped, afterStop>> PROVE StopInv'
  BY <1>3 DEF StopInv, StopBoundsWork
<1> QED
  BY <1>1, <1>2, <1>3 DEF RefreshStep, PollMoves, HandlerMoves, SyncMoves, TimeMoves, LateMoves

(* No worker begins a second refresh once the service was told to stop.     *)
THEOREM RefreshStopsSoon == RefreshSpec => []StopBoundsWork
<1>1. RefreshInit => StopInv
  BY DEF RefreshInit, StopInv, StopBoundsWork
<1>2. RefreshTypeOK /\ StopInv /\ [RefreshNext]_RefreshVars => StopInv'
  <2>1. ASSUME StopInv, UNCHANGED RefreshVars PROVE StopInv'
    BY <2>1 DEF RefreshVars, StopInv, StopBoundsWork
  <2> QED
    BY <2>1, StopStep DEF RefreshNext
<1>3. StopInv => StopBoundsWork
  BY DEF StopInv
<1> QED
  BY <1>1, <1>2, <1>3, RefreshTypeCorrect, PTL DEF RefreshSpec

-----------------------------------------------------------------------------
(* The refresh machinery implements RefreshCycle, for any number of          *)
(* credentials, workers and 429 reports, any queue depth and any reloads.    *)

Stage == [t \in Token |-> StageOf(t)]

(* A refresh that lost its mark is still under way.                         *)
Forgotten == {t \in Token : unmarked[t] > 0}

OnRecord == \A t \in Token : unmarked[t] <= Count(t)

CycleInv == RefreshTypeOK /\ NoStuckInflight /\ SingleFlight /\ OnRecord

LEMMA OnRecordStep ==
    ASSUME RefreshTypeOK', RefreshTypeOK, Observe
    PROVE  OnRecord'
<1>1. ASSUME NEW t \in Token PROVE unmarked'[t] <= Count(t)'
  <2>1. Count(t)' \in Nat /\ unmarked[t] \in Nat
    BY CountWillBe DEF RefreshTypeOK
  <2>2. unmarked'[t] = IF Count(t)' < unmarked[t] + Lost(t) THEN Count(t)'
                                                           ELSE unmarked[t] + Lost(t)
    BY DEF Observe, Lost
  <2> QED
    BY <2>1, <2>2 DEF Lost
<1> QED
  BY <1>1 DEF OnRecord

LEMMA ForgottenUnderWay ==
    ASSUME CycleInv, NEW t \in Forgotten
    PROVE  t \in Token /\ UnderWay(t)
<1>1. t \in Token /\ unmarked[t] \in Nat /\ unmarked[t] > 0 /\ unmarked[t] <= Count(t)
  BY DEF Forgotten, CycleInv, OnRecord, RefreshTypeOK
<1>2. Count(t) \in Nat /\ (Count(t) > 0 <=> UnderWay(t))
  BY <1>1, CountIs DEF CycleInv, RefreshTypeOK
<1> QED
  BY <1>1, <1>2

(* After a step: still under way, and forgotten before or by it.             *)
LEMMA ForgottenNow ==
    ASSUME CycleInv, RefreshTypeOK', Observe, NEW t \in Token
    PROVE  t \in Forgotten' <=> UnderWay(t)' /\ (t \in Forgotten \/ Loses(t))
<1>1. Count(t)' \in Nat /\ (Count(t)' > 0 <=> UnderWay(t)')
  BY CountWillBe DEF RefreshTypeOK
<1>2. unmarked[t] \in Nat
  BY DEF CycleInv, RefreshTypeOK
<1>3. unmarked'[t] = IF Count(t)' < unmarked[t] + Lost(t) THEN Count(t)'
                                                         ELSE unmarked[t] + Lost(t)
  BY DEF Observe, Lost
<1>4. unmarked'[t] > 0 <=> Count(t)' > 0 /\ (unmarked[t] > 0 \/ Loses(t))
  BY <1>1, <1>2, <1>3 DEF Lost
<1> QED
  BY <1>1, <1>4 DEF Forgotten

(* A credential whose mark was not taken has one refresh at most.            *)
Single(t) ==
    /\ UnderWay(t) => t \in inflight
    /\ \A v, w \in Worker : WorksOn(v, t) /\ WorksOn(w, t) => v = w
    /\ \A w \in Worker : ~(Queued(t) /\ WorksOn(w, t))

LEMMA SingleNow ==
    ASSUME CycleInv, NEW t \in Token, t \notin Forgotten
    PROVE  Single(t)
<1>0. queue \in Seq(Token)
  BY DEF CycleInv, RefreshTypeOK
<1>1. unmarked[t] = 0
  BY DEF Forgotten, CycleInv, RefreshTypeOK
<1>2. Count(t) \in Nat /\ (Count(t) > 0 <=> UnderWay(t))
  BY <1>0, CountIs
<1>3. Count(t) <= IF t \in inflight THEN 1 ELSE 0
  BY <1>1, <1>2 DEF CycleInv, SingleFlight
<1>4. IsFiniteSet(Places(t)) /\ IsFiniteSet(Holders(t))
  BY <1>0, PlacesFinite, HoldersFinite DEF Places, Holders
<1>5. /\ Cardinality(Places(t)) \in Nat /\ Cardinality(Holders(t)) \in Nat
      /\ Cardinality(Places(t)) = 0 <=> Places(t) = {}
      /\ Cardinality(Holders(t)) = 0 <=> Holders(t) = {}
  BY <1>4, FS_CardinalityType, FS_EmptySet
<1>6. Cardinality(Places(t)) + Cardinality(Holders(t)) <= 1
  BY <1>2, <1>3 DEF Count
<1>7. Places(t) = {} \/ Holders(t) = {}
  BY <1>5, <1>6
<1>8. ASSUME NEW v \in Holders(t), NEW w \in Holders(t) PROVE v = w
  <2>1. Cardinality(Holders(t)) = 1
    BY <1>5, <1>6, <1>8
  <2>2. PICK x : Holders(t) = {x}
    BY <1>4, <2>1, FS_Singleton
  <2> QED
    BY <1>8, <2>2
<1> QED
  BY <1>2, <1>3, <1>7, <1>8 DEF Single, Queued, Places, Holders

-----------------------------------------------------------------------------
(* What keeps a credential's stage.                                         *)
LEMMA SameStage ==
    ASSUME NEW t \in Token,
           t \in Forgotten' <=> t \in Forgotten,
           t \in inflight' <=> t \in inflight,
           Doing("fetch", t)' <=> Doing("fetch", t),
           Doing("finish", t)' <=> Doing("finish", t)
    PROVE  StageOf(t)' = StageOf(t)
  BY DEF StageOf, Fetching, Forgotten

LEMMA StaysForgotten ==
    ASSUME CycleInv, RefreshTypeOK', Observe, NEW t \in Token,
           UnderWay(t)' <=> UnderWay(t), ~Loses(t)
    PROVE  t \in Forgotten' <=> t \in Forgotten
  BY ForgottenNow, ForgottenUnderWay

LEMMA OneMoves ==
    ASSUME NEW t \in Token, \A u \in Token \ {t} : StageOf(u)' = StageOf(u)
    PROVE  Stage' = [Stage EXCEPT ![t] = StageOf(t)']
  BY DEF Stage

LEMMA NoneMoves ==
    ASSUME \A u \in Token : StageOf(u)' = StageOf(u)
    PROVE  Stage' = Stage
  BY DEF Stage

LEMMA StageDoing ==
    ASSUME NEW t, NEW w \in Worker
    PROVE  /\ worker[w].token = t /\ worker[w].step = "fetch" => Doing("fetch", t)
           /\ worker[w].token = t /\ worker[w].step = "finish" => Doing("finish", t)
           /\ Doing("fetch", t) \/ Doing("finish", t) => \E v \in Worker : WorksOn(v, t)
  BY DEF Doing, WorksOn

Allowed == Cycle!CycleNext \/ Stage' = Stage

-----------------------------------------------------------------------------
(* Steps that concern no credential's refresh.                              *)
Still ==
    /\ UNCHANGED <<queue, inflight>>
    /\ \A t \in Token :
          /\ Doing("fetch", t)' <=> Doing("fetch", t)
          /\ Doing("finish", t)' <=> Doing("finish", t)
          /\ \A w \in Worker : WorksOn(w, t)' <=> WorksOn(w, t)

LEMMA StillStep ==
    ASSUME CycleInv, Still, Observe, RefreshTypeOK'
    PROVE  Allowed
<1>1. ASSUME NEW t \in Token PROVE StageOf(t)' = StageOf(t)
  <2>1. UnderWay(t)' <=> UnderWay(t)
    BY DEF Still, UnderWay, Queued
  <2>2. t \in Forgotten' <=> t \in Forgotten
    BY <2>1, StaysForgotten DEF Still, Loses
  <2> QED
    BY <2>2, SameStage DEF Still
<1> QED
  BY <1>1, NoneMoves DEF Allowed

LEMMA StandsStill ==
    ASSUME UNCHANGED <<queue, inflight, worker>>
    PROVE  Still
  BY DEF Still, Doing, WorksOn

-----------------------------------------------------------------------------
(* The steps of a worker.  "t" is the credential it works on.                *)
LEMMA TakeStep ==
    ASSUME CycleInv, NEW w \in Worker, Take(w), Observe, RefreshTypeOK'
    PROVE  Allowed
<1>1. ASSUME NEW t \in Token PROVE StageOf(t)' = StageOf(t)
  <2>1. UnderWay(t)' <=> UnderWay(t)
    BY TakeEffect DEF CycleInv, UnderWay, Queued
  <2>2. t \in Forgotten' <=> t \in Forgotten
    BY <2>1, StaysForgotten DEF Take, Loses
  <2>3. /\ Doing("fetch", t)' <=> Doing("fetch", t)
        /\ Doing("finish", t)' <=> Doing("finish", t)
    BY DEF Take, Doing, CycleInv, RefreshTypeOK
  <2> QED
    BY <2>2, <2>3, SameStage DEF Take
<1> QED
  BY <1>1, NoneMoves DEF Allowed

(* A worker that moves on with its credential.                              *)
MovesOn(w, from, to) ==
    /\ worker[w].step = from
    /\ worker' \in [Worker -> [step : {"top", "wait", "start", "fetch", "finish", "gone"},
                               token : Token \cup {Nobody}, reply : Reply]]
    /\ worker'[w].step = to /\ worker'[w].token = worker[w].token
    /\ \A v \in Worker \ {w} : worker'[v] = worker[v]
    /\ UNCHANGED <<queue, inflight>>

LEMMA MovesOnStep ==
    ASSUME CycleInv, NEW w \in Worker, NEW from, NEW to, MovesOn(w, from, to), Observe, RefreshTypeOK',
           \/ from = "start" /\ to \in {"fetch", "finish"}
           \/ from = "fetch" /\ to = "finish"
    PROVE  Allowed
<1>1. PICK t \in Token : t = worker[w].token
  BY DEF CycleInv, RefreshTypeOK, MovesOn
<1>2. \A u \in Token, v \in Worker : WorksOn(v, u)' <=> WorksOn(v, u)
  BY DEF MovesOn, WorksOn
<1>3. \A u \in Token : u \in Forgotten' <=> u \in Forgotten
  <2>1. \A u \in Token : UnderWay(u)' <=> UnderWay(u)
    BY <1>2 DEF UnderWay, Queued, MovesOn
  <2> QED
    BY <2>1, StaysForgotten DEF MovesOn, Loses
<1>4. ASSUME NEW u \in Token \ {t} PROVE StageOf(u)' = StageOf(u)
  <2>1. /\ Doing("fetch", u)' <=> Doing("fetch", u)
        /\ Doing("finish", u)' <=> Doing("finish", u)
    BY <1>1 DEF Doing, MovesOn
  <2> QED
    BY <1>3, <2>1, SameStage DEF MovesOn
<1>5. CASE t \in Forgotten
  <2>1. StageOf(t)' = StageOf(t)
    BY <1>1, <1>3, <1>5 DEF StageOf, Forgotten
  <2> QED
    BY <1>4, <2>1, NoneMoves DEF Allowed
<1>6. CASE t \notin Forgotten
  <2>1. WorksOn(w, t) /\ \A v \in Worker : WorksOn(v, t) => v = w
    BY <1>1, <1>6, SingleNow DEF Single, WorksOn, MovesOn
  <2>2. t \in inflight
    BY <1>1, <1>6, <2>1, SingleNow DEF Single, UnderWay
  <2>3. /\ Doing("fetch", t) <=> from = "fetch"
        /\ ~Doing("finish", t)
    BY <1>1, <2>1 DEF Doing, WorksOn, MovesOn
  <2>4. /\ Doing("fetch", t)' <=> to = "fetch"
        /\ Doing("finish", t)' <=> to = "finish"
    <3>1. \A v \in Worker : worker'[v].token = t /\ worker'[v].step \in {"fetch", "finish"} => v = w
      BY <2>1 DEF WorksOn, MovesOn
    <3> QED
      BY <1>1, <3>1 DEF Doing, MovesOn
  <2>5. StageOf(t) = IF from = "fetch" THEN "fetching" ELSE "requested"
    BY <1>6, <2>2, <2>3 DEF StageOf, Fetching, Forgotten
  <2>6. StageOf(t)' = IF to = "fetch" THEN "fetching" ELSE "settling"
    BY <1>1, <1>3, <1>6, <2>4 DEF StageOf, Fetching, Forgotten
  <2>7. Stage' = [Stage EXCEPT ![t] = StageOf(t)'] /\ Stage[t] = StageOf(t)
    BY <1>1, <1>4, OneMoves DEF Stage
  <2>8. Cycle!Fetch(t) \/ Cycle!Skip(t) \/ Cycle!Conclude(t)
    BY <2>5, <2>6, <2>7 DEF Stage, Cycle!Fetch, Cycle!Skip, Cycle!Conclude, Cycle!Move
  <2> QED
    BY <1>1, <2>8 DEF Allowed, Cycle!CycleNext
<1> QED
  BY <1>5, <1>6

LEMMA FinishStep ==
    ASSUME CycleInv, NEW w \in Worker, Finish(w), Observe, RefreshTypeOK'
    PROVE  Allowed
<1>1. PICK t \in Token : t = worker[w].token
  BY DEF CycleInv, RefreshTypeOK, Finish
<1>2. \A u \in Token : /\ \A v \in Worker : WorksOn(v, u)' <=> v # w /\ WorksOn(v, u)
                       /\ WorksOn(w, u) <=> t = u
                       /\ inflight' = inflight \ {t}
                       /\ queue' = queue
  BY <1>1, FinishEffect DEF CycleInv
<1>3. ASSUME NEW u \in Token \ {t} PROVE StageOf(u)' = StageOf(u)
  <2>1. UnderWay(u)' <=> UnderWay(u)
    BY <1>2 DEF UnderWay, Queued
  <2>2. u \in Forgotten' <=> u \in Forgotten
    BY <1>2, <2>1, StaysForgotten DEF Loses
  <2>3. /\ Doing("fetch", u)' <=> Doing("fetch", u)
        /\ Doing("finish", u)' <=> Doing("finish", u)
    BY <1>1 DEF Finish, Resting, Doing, CycleInv, RefreshTypeOK
  <2> QED
    BY <1>2, <2>2, <2>3, SameStage
<1>4. Stage' = [Stage EXCEPT ![t] = StageOf(t)'] /\ Stage[t] = StageOf(t)
  BY <1>1, <1>3, OneMoves DEF Stage
<1>5. t \in Forgotten' <=> t \in Forgotten /\ UnderWay(t)'
  <2>2. worker' # worker
    BY DEF Finish, Resting, CycleInv, RefreshTypeOK
  <2> QED
    BY <1>1, <2>2, ForgottenNow DEF Loses
<1>6. ~UnderWay(t)' => StageOf(t)' = "idle"
  <2>1. ASSUME ~UnderWay(t)' PROVE ~Doing("fetch", t)' /\ ~Doing("finish", t)'
    BY <2>1 DEF UnderWay, WorksOn, Doing
  <2> QED
    BY <1>1, <1>2, <1>5, <2>1 DEF StageOf, Fetching, Forgotten
<1>7. CASE t \in Forgotten
  <2>1. StageOf(t) = "forgotten"
    BY <1>7 DEF StageOf, Forgotten
  <2>2. CASE UnderWay(t)'
    <3>1. StageOf(t)' = "forgotten"
      BY <1>1, <1>5, <1>7, <2>2 DEF StageOf, Forgotten
    <3> QED
      BY <1>3, <2>1, <3>1, NoneMoves DEF Allowed
  <2>3. CASE ~UnderWay(t)'
    BY <1>1, <1>4, <1>6, <2>1, <2>3
    DEF Stage, Allowed, Cycle!CycleNext, Cycle!Forgive, Cycle!Move
  <2> QED
    BY <2>2, <2>3
<1>8. CASE t \notin Forgotten
  <2>1. ~Queued(t) /\ \A v \in Worker : WorksOn(v, t) => v = w
    BY <1>1, <1>2, <1>8, SingleNow DEF Single
  <2>2. ~UnderWay(t)'
    BY <1>1, <1>2, <2>1 DEF UnderWay, Queued
  <2>3. StageOf(t) = "settling"
    <3>1. Doing("finish", t)
      BY <1>1 DEF Doing, Finish
    <3>2. ~Doing("fetch", t)
      BY <1>1, <2>1 DEF Doing, WorksOn, Finish
    <3> QED
      BY <1>8, <3>1, <3>2 DEF StageOf, Fetching, Forgotten
  <2> QED
    BY <1>1, <1>4, <1>6, <2>2, <2>3
    DEF Stage, Allowed, Cycle!CycleNext, Cycle!Rest, Cycle!Move
<1> QED
  BY <1>7, <1>8

-----------------------------------------------------------------------------
(* A request is accepted.                                                   *)
LEMMA AcceptStep ==
    ASSUME CycleInv, NEW t \in Token, Accepted(t), Observe, RefreshTypeOK'
    PROVE  Allowed
<1>1. \A u \in Token : \A v \in Worker : WorksOn(v, u)' <=> WorksOn(v, u)
  BY AcceptEffect DEF CycleInv
<1>2. \A u \in Token : /\ Doing("fetch", u)' <=> Doing("fetch", u)
                       /\ Doing("finish", u)' <=> Doing("finish", u)
  BY DEF Accepted, Doing
<1>3. ASSUME NEW u \in Token \ {t} PROVE StageOf(u)' = StageOf(u)
  <2>1. Queued(u)' <=> Queued(u)
    BY AcceptEffect DEF CycleInv, Queued
  <2>2. UnderWay(u)' <=> UnderWay(u)
    BY <1>1, <2>1 DEF UnderWay
  <2>3. u \in Forgotten' <=> u \in Forgotten
    BY <2>2, StaysForgotten DEF Accepted, Loses
  <2> QED
    BY <1>2, <2>3, SameStage DEF Accepted
<1>4. Stage' = [Stage EXCEPT ![t] = StageOf(t)'] /\ Stage[t] = StageOf(t)
  BY <1>3, OneMoves DEF Stage
<1>5. UnderWay(t)'
  BY AcceptEffect DEF CycleInv, UnderWay, Queued
<1>6. CASE t \in Forgotten'
  <2>1. StageOf(t)' = "forgotten"
    BY <1>6 DEF StageOf, Forgotten
  <2> QED
    BY <1>4, <2>1 DEF Stage, Allowed, Cycle!CycleNext, Cycle!Forget
<1>7. CASE t \notin Forgotten'
  <2>1. t \notin Forgotten
    BY <1>5, <1>7, ForgottenNow
  <2>2. ~UnderWay(t) /\ t \notin inflight
    BY <2>1, SingleNow DEF Single, Accepted
  <2>3. ~Doing("fetch", t) /\ ~Doing("finish", t)
    BY <2>2 DEF UnderWay, WorksOn, Doing
  <2>4. StageOf(t) = "idle"
    BY <2>1, <2>2, <2>3 DEF StageOf, Fetching, Forgotten
  <2>5. StageOf(t)' = "requested"
    BY <1>2, <1>7, <2>3 DEF StageOf, Fetching, Forgotten, Accepted
  <2> QED
    BY <1>4, <2>4, <2>5 DEF Stage, Allowed, Cycle!CycleNext, Cycle!Request, Cycle!Move
<1> QED
  BY <1>6, <1>7

LEMMA RequestStep ==
    ASSUME CycleInv, NEW t \in Token, NEW force, RequestRefresh(t, force), worker' = worker,
           Observe, RefreshTypeOK'
    PROVE  Allowed
<1>1. CASE Refused(t, force)
  <2>1. UNCHANGED <<queue, inflight, worker>>
    BY <1>1 DEF RequestRefresh, queueVars
  <2> QED
    BY <2>1, StandsStill, StillStep
<1>2. CASE ~Refused(t, force)
  <2>1. Accepted(t)
    BY <1>2 DEF RequestRefresh, Refused, Accepted
  <2> QED
    BY <2>1, AcceptStep
<1> QED
  BY <1>1, <1>2

(* A credential that left the table is forgotten.                           *)
LEMMA ForgetStep ==
    ASSUME CycleInv, NEW t \in Token, Unmark(t), worker' = worker, Observe, RefreshTypeOK'
    PROVE  Allowed
<1>1. inflight' = inflight \ {t} /\ queue' = queue
  BY DEF Unmark
<1>2. \A u \in Token : /\ UnderWay(u)' <=> UnderWay(u)
                       /\ Doing("fetch", u)' <=> Doing("fetch", u)
                       /\ Doing("finish", u)' <=> Doing("finish", u)
  BY <1>1 DEF UnderWay, Queued, WorksOn, Doing
<1>3. ASSUME NEW u \in Token \ {t} PROVE StageOf(u)' = StageOf(u)
  <2>1. u \in Forgotten' <=> u \in Forgotten
    BY <1>1, <1>2, StaysForgotten DEF Loses
  <2> QED
    BY <1>1, <1>2, <2>1, SameStage
<1>4. CASE UnderWay(t)
  <2>1. t \in Forgotten'
    <3>1. t \in inflight => Loses(t)
      BY <1>1 DEF Loses
    <3>2. t \notin Forgotten => t \in inflight
      BY <1>4, SingleNow DEF Single
    <3> QED
      BY <1>2, <1>4, <3>1, <3>2, ForgottenNow
  <2>3. StageOf(t)' = "forgotten"
    BY <2>1 DEF StageOf, Forgotten
  <2>2. Stage' = [Stage EXCEPT ![t] = StageOf(t)']
    BY <1>3, OneMoves
  <2> QED
    BY <2>2, <2>3 DEF Stage, Allowed, Cycle!CycleNext, Cycle!Forget
<1>5. CASE ~UnderWay(t)
  <2>1. t \notin inflight /\ t \notin Forgotten /\ t \notin Forgotten'
    BY <1>2, <1>5, ForgottenUnderWay, ForgottenNow DEF CycleInv, NoStuckInflight
  <2>2. StageOf(t)' = StageOf(t)
    BY <1>1, <1>2, <2>1, SameStage
  <2> QED
    BY <1>3, <2>2, NoneMoves DEF Allowed
<1> QED
  BY <1>4, <1>5

-----------------------------------------------------------------------------
(* Every step, by the goroutine that takes it.                              *)
LEMMA WorkerCycle ==
    ASSUME CycleInv, NEW w \in Worker, WorkerMoves(w), Observe, RefreshTypeOK'
    PROVE  Allowed
<1> USE DEF WorkerMoves
<1>1. CASE CheckStop(w) \/ Quit(w)
  <2>1. /\ worker[w].step \in {"top", "wait"}
        /\ \E to \in {"wait", "gone"} : worker' = [worker EXCEPT ![w].step = to]
        /\ UNCHANGED <<queue, inflight>>
    BY <1>1 DEF CheckStop, Quit, Steps, queueVars
  <2>2. Still
    BY <2>1 DEF Still, Doing, WorksOn, CycleInv, RefreshTypeOK
  <2> QED
    BY <2>2, StillStep
<1>2. CASE Take(w)
  BY <1>2, TakeStep
<1>3. CASE Begin(w)
  <2>2. \E to \in {"fetch", "finish"} : MovesOn(w, "start", to)
    BY <1>3 DEF Begin, Steps, MovesOn, CycleInv, RefreshTypeOK, queueVars
  <2> QED
    BY <2>2, MovesOnStep
<1>4. CASE Finish(w)
  BY <1>4, FinishStep
<1>5. CASE \E reply \in Replies : Conclude(w, reply)
  <2>2. MovesOn(w, "fetch", "finish")
    BY <1>5 DEF Conclude, MovesOn, CycleInv, RefreshTypeOK, queueVars
  <2> QED
    BY <2>2, MovesOnStep
<1> QED
  BY <1>1, <1>2, <1>3, <1>4, <1>5 DEF WorkerStep

LEMMA SyncCycle ==
    ASSUME CycleInv, SyncMoves, Observe, RefreshTypeOK'
    PROVE  Allowed
<1> USE DEF SyncMoves
<1>1. CASE \/ \E listing \in Listings : SyncTable(listing)
           \/ \E t \in Token : ForgetSuspect(t)
           \/ SyncForgotten
  BY <1>1, StandsStill, StillStep DEF SyncTable, ForgetSuspect, SyncForgotten, queueVars
<1>2. ASSUME NEW t \in Token, ForgetQueue(t) PROVE Allowed
  BY <1>2, ForgetStep DEF ForgetQueue
<1>3. ASSUME NEW t \in Token, SyncRequest(t) PROVE Allowed
  BY <1>3, RequestStep DEF SyncRequest
<1> QED
  BY <1>1, <1>2, <1>3 DEF SyncStep

LEMMA PollCycle ==
    ASSUME CycleInv, PollMoves, Observe, RefreshTypeOK'
    PROVE  Allowed
<1> USE DEF PollMoves
<1>1. CASE \/ LoopQuit \/ PollTick \/ RefreshAll
           \/ \E t \in Token : PruneRemove(t) \/ PruneUnsuspect(t)
  BY <1>1, StandsStill, StillStep
  DEF LoopQuit, PollTick, RefreshAll, PruneRemove, PruneUnsuspect, queueVars
<1>2. ASSUME NEW t \in Token, PruneUnmark(t) PROVE Allowed
  BY <1>2, ForgetStep DEF PruneUnmark
<1>3. CASE PollRequest
  <2>1. PICK t \in loop.due : RequestRefresh(t, FALSE)
    BY <1>3 DEF PollRequest
  <2>2. t \in Token
    BY DEF CycleInv, RefreshTypeOK
  <2> QED
    BY <2>1, <2>2, RequestStep
<1> QED
  BY <1>1, <1>2, <1>3 DEF PollStep

LEMMA StepAllowed ==
    ASSUME CycleInv, RefreshTypeOK', RefreshNext
    PROVE  Allowed
<1> USE DEF RefreshNext
<1>1. ASSUME NEW t \in Token, LateMoves(t) PROVE Allowed
  BY <1>1, StandsStill, StillStep DEF LateMoves, ReturnsLate, queueVars
<1>2. ASSUME NEW h \in Handler, HandlerMoves(h) PROVE Allowed
  <2>1. CASE Report(h) \/ Suspect(h)
    BY <1>2, <2>1, StandsStill, StillStep DEF HandlerMoves, Report, Suspect, queueVars
  <2>2. CASE Retry(h)
    <3>1. handler[h].token \in Token
      BY <2>2 DEF Retry, CycleInv, RefreshTypeOK
    <3> QED
      BY <1>2, <2>2, <3>1, RequestStep DEF HandlerMoves, Retry
  <2> QED
    BY <1>2, <2>1, <2>2 DEF HandlerMoves, HandlerStep
<1>3. ASSUME NEW t \in Token, TimeMoves(t) PROVE Allowed
  BY <1>3, StandsStill, StillStep DEF TimeMoves
<1>4. CASE StopMoves
  BY <1>4, StandsStill, StillStep DEF StopMoves, queueVars
<1> QED
  BY <1>1, <1>2, <1>3, <1>4, WorkerCycle, PollCycle, SyncCycle DEF RefreshStep

LEMMA OnRecordHolds == RefreshSpec => []OnRecord
<1>1. RefreshInit => OnRecord
  <2>1. ASSUME RefreshInit, NEW t \in Token PROVE unmarked[t] <= Count(t)
    <3>1. unmarked[t] = 0 /\ queue \in Seq(Token)
      BY <2>1 DEF RefreshInit
    <3> QED
      BY <3>1, CountIs
  <2> QED
    BY <2>1 DEF OnRecord
<1>2. RefreshTypeOK /\ RefreshTypeOK' /\ OnRecord /\ [RefreshNext]_RefreshVars => OnRecord'
  <2>1. OnRecord /\ UNCHANGED RefreshVars => OnRecord'
    BY DEF RefreshVars, OnRecord, Count, Places, Holders, WorksOn
  <2> QED
    BY <2>1, OnRecordStep DEF RefreshNext
<1> QED
  BY <1>1, <1>2, RefreshTypeCorrect, PTL DEF RefreshSpec

(* The machinery implements the cycle each credential was promised.         *)
THEOREM RefreshImplementsCycle == RefreshSpec => ImplementsCycle
<1>1. RefreshInit => Cycle!CycleInit
  BY DEF RefreshInit, Cycle!CycleInit, StageOf, Fetching, Doing, Resting
<1>2. CycleInv /\ RefreshTypeOK' /\ [RefreshNext]_RefreshVars => [Cycle!CycleNext]_Stage
  <2>1. UNCHANGED RefreshVars => Stage' = Stage
    BY DEF RefreshVars, Stage, StageOf, Fetching, Doing
  <2> QED
    BY <2>1, StepAllowed DEF Allowed
<1>3. RefreshSpec => []CycleInv
  BY RefreshTypeCorrect, RefreshNeverStuck, RefreshSingleFlight, OnRecordHolds, PTL DEF CycleInv
<1> QED
  BY <1>1, <1>2, <1>3, RefreshTypeCorrect, PTL
  DEF RefreshSpec, ImplementsCycle, Cycle!CycleSpec, Stage

-----------------------------------------------------------------------------
(* Only a refresh that concludes in time changes what is held of a           *)
(* credential that stays.                                                   *)
Earned(t) ==
    /\ (\A w \in Worker : ~Concludes(w, t)) => learnt'[t] = learnt[t]
    /\ \A w \in Worker : Concludes(w, t) =>
          learnt'[t] = CASE worker'[w].reply = "ok" -> "usage"
                         [] worker'[w].reply \in {"401", "403"} -> "revoked"
                         [] OTHER -> learnt[t]

LEMMA NothingConcluded ==
    ASSUME NEW t, worker' = worker, learnt'[t] = learnt[t]
    PROVE  Earned(t)
  BY DEF Earned, Concludes

LEMMA WorkerEarns ==
    ASSUME RefreshTypeOK, NEW w \in Worker, WorkerMoves(w), NEW t \in tracked \cap tracked'
    PROVE  Earned(t)
<1> USE DEF WorkerMoves
<1>1. CASE CheckStop(w) \/ Quit(w) \/ Take(w) \/ Begin(w) \/ Finish(w)
  <2>1. learnt' = learnt
    BY <1>1 DEF CheckStop, Quit, Take, Begin, Finish, registryVars
  <2>2. /\ worker[w].step # "fetch"
        /\ \A v \in Worker \ {w} : worker'[v] = worker[v]
    BY <1>1 DEF CheckStop, Quit, Take, Begin, Finish, Steps, RefreshTypeOK
  <2>3. \A v \in Worker : ~Concludes(v, t)
    BY <2>2 DEF Concludes
  <2> QED
    BY <2>1, <2>3 DEF Earned
<1>2. ASSUME NEW reply \in Replies, Conclude(w, reply) PROVE Earned(t)
  <2>1. \A v \in Worker \ {w} : ~Concludes(v, t)
    BY <1>2 DEF Conclude, Concludes, RefreshTypeOK
  <2>2. /\ Concludes(w, t) <=> worker[w].token = t
        /\ worker'[w].reply = reply
    BY <1>2 DEF Conclude, Concludes, RefreshTypeOK
  <2>3. learnt'[t] = IF worker[w].token # t THEN learnt[t]
                     ELSE CASE reply = "ok" -> "usage"
                            [] reply \in {"401", "403"} -> "revoked"
                            [] OTHER -> learnt[t]
    BY <1>2 DEF Conclude, Says, RefreshTypeOK
  <2> QED
    BY <2>1, <2>2, <2>3 DEF Earned
<1> QED
  BY <1>1, <1>2 DEF WorkerStep

LEMMA StepEarns ==
    ASSUME RefreshTypeOK, RefreshStep, NEW t \in tracked \cap tracked'
    PROVE  Earned(t)
<1>1. CASE PollMoves
  <2>1. worker' = worker /\ learnt'[t] = learnt[t]
    BY <1>1 DEF PollMoves, PollStep, LoopQuit, PollTick, RefreshAll, PollRequest, PruneRemove,
                PruneUnmark, PruneUnsuspect, registryVars
  <2> QED
    BY <2>1, NothingConcluded
<1>2. CASE SyncMoves
  <2>1. worker' = worker /\ learnt'[t] = learnt[t]
    BY <1>2 DEF SyncMoves, SyncStep, SyncTable, ForgetQueue, ForgetSuspect, SyncForgotten,
                SyncRequest, registryVars
  <2> QED
    BY <2>1, NothingConcluded
<1>3. CASE \/ \E u \in Token : LateMoves(u) \/ TimeMoves(u)
           \/ \E h \in Handler : HandlerMoves(h)
           \/ StopMoves
  <2>1. worker' = worker /\ learnt' = learnt
    BY <1>3 DEF LateMoves, ReturnsLate, TimeMoves, HandlerMoves, StopMoves, registryVars
  <2> QED
    BY <2>1, NothingConcluded
<1> QED
  BY <1>1, <1>2, <1>3, WorkerEarns DEF RefreshStep

(* What is held of a credential is what an answer in time said of it.        *)
THEOREM RefreshVerdictsEarned == RefreshSpec => VerdictsAreEarned
<1>1. RefreshTypeOK /\ [RefreshNext]_RefreshVars =>
        [\A t \in tracked \cap tracked' : Earned(t)]_RefreshVars
  BY StepEarns DEF RefreshNext
<1> QED
  BY <1>1, RefreshTypeCorrect, PTL DEF RefreshSpec, VerdictsAreEarned, Earned
=============================================================================
