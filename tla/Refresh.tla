------------------------------ MODULE Refresh -------------------------------
(***************************************************************************)
(* Usage refreshes (internal/service/poller.go, fetch.go and the parts of    *)
(* service.go that request or forget them): a bounded queue, workers, the    *)
(* poll loop with its prune, the 429 fast path, and the config sync that     *)
(* runs beside them.                                                        *)
(*                                                                         *)
(* Time appears only where the code compares it: a throttle entry is         *)
(* "recent" until its window has passed.  Of the registry there is the set   *)
(* of tracked tokens and what the last conclusive answer said of each.      *)
(***************************************************************************)
EXTENDS Integers, Sequences, FiniteSets

CONSTANTS Token,       \* credentials; their order is that of config.yaml
          Worker,      \* the worker goroutines
          Handler,     \* concurrent usage.handle calls
          QueueDepth,  \* capacity of Service.queue
          Listings,    \* the sets of tokens config.yaml may list
          Prunable,    \* those the sweep may find fit to prune
          Replies      \* the ways a fetch may end in this instance

ASSUME TokenAssumption == Token \subseteq Nat
ASSUME WorkerAssumption == IsFiniteSet(Worker)
ASSUME QueueDepthAssumption == QueueDepth \in Nat \ {0}
ASSUME ListingsAssumption == Listings \subseteq SUBSET Token

(* How a fetch may end for the worker: with an answer, an error, its own     *)
(* deadline, or at once when no usage_url is set.                           *)
Reply == {"ok", "unparsable", "401", "403", "404", "error", "timeout", "unset"}

ASSUME RepliesAssumption == Replies \subseteq Reply

VARIABLES tracked,     \* Registry.keys
          learnt,      \* its verdicts
          queue,       \* Service.queue
          inflight,    \* Service.inflight
          lastAttempt, \* Service.lastAttempt
          lastSuspect, \* Service.lastSuspect
          worker,      \* the workers
          handler,     \* the usage.handle calls
          loop,        \* the poll loop
          sync,        \* the config sync that holds fileMu
          stopped,     \* stopCh is closed
          late,        \* tokens with a host call that outlived its deadline
          unmarked,    \* history: refreshes under way that a forgetting left
                       \* without a mark
          afterStop    \* history: refreshes each worker began after the stop

queueVars    == <<queue, inflight, lastAttempt>>
registryVars == <<tracked, learnt>>
RefreshVars  == <<tracked, learnt, queue, inflight, lastAttempt, lastSuspect, worker,
                  handler, loop, sync, stopped, late, unmarked, afterStop>>

Verdict == {"nothing", "usage", "revoked"}
Age     == {"recent", "old"}

Nobody   == 0
Resting  == [step |-> "top", token |-> Nobody, reply |-> "error"]
Waiting  == [step |-> "idle", token |-> Nobody]
SyncIdle == [step |-> "idle", removed |-> {}, half |-> {}, added |-> {}]
Selecting == [step |-> "select", due |-> {}, half |-> {}]

ASSUME NobodyAssumption == Nobody \notin Token

(* Entries of the throttle maps.                                            *)
Recent(entries, t)  == t \in DOMAIN entries /\ entries[t] = "recent"
Stamp(entries, t)   == [u \in DOMAIN entries \cup {t} |->
                          IF u = t THEN "recent" ELSE entries[u]]
Without(entries, t) == [u \in DOMAIN entries \ {t} |-> entries[u]]

-----------------------------------------------------------------------------
(* The service as New leaves it, with its workers waiting.  Register runs    *)
(* the first sync before it starts them: letting them wait beside it adds    *)
(* only the interleavings every later sync has.                             *)
RefreshInit ==
    /\ tracked = {}
    /\ learnt = [t \in {} |-> "nothing"]
    /\ queue = <<>>
    /\ inflight = {}
    /\ lastAttempt = [t \in {} |-> "old"]
    /\ lastSuspect = [t \in {} |-> "old"]
    /\ worker = [w \in Worker |-> Resting]
    /\ handler = [h \in Handler |-> Waiting]
    /\ loop = Selecting
    /\ sync = SyncIdle
    /\ stopped = FALSE
    /\ late = {}
    /\ unmarked = [t \in Token |-> 0]
    /\ afterStop = [w \in Worker |-> 0]

-----------------------------------------------------------------------------
(* Mutant of Refused: force skips the mark as well as the throttle.          *)
RefusedUnlessForced(t, force) ==
    \/ ~force /\ (t \in inflight \/ Recent(lastAttempt, t))
    \/ Len(queue) >= QueueDepth

(* Mutant of Refused: the throttle never forgets.                            *)
RefusedOnceTried(t, force) ==
    \/ t \in inflight
    \/ ~force /\ t \in DOMAIN lastAttempt
    \/ Len(queue) >= QueueDepth

(* requestRefresh, all of it under queueMu: refused while the token is in    *)
(* flight, while it is throttled, and when the queue is full.               *)
Refused(t, force) ==
    \/ t \in inflight
    \/ ~force /\ Recent(lastAttempt, t)
    \/ Len(queue) >= QueueDepth

RequestRefresh(t, force) ==
    IF Refused(t, force)
      THEN UNCHANGED queueVars
      ELSE /\ queue' = Append(queue, t)
           /\ inflight' = inflight \cup {t}
           /\ lastAttempt' = Stamp(lastAttempt, t)

-----------------------------------------------------------------------------
(* A worker                                                                 *)

Steps(w, from, to) ==
    /\ worker[w].step = from
    /\ worker' = [worker EXCEPT ![w].step = to]

WorksOn(w, t) == worker[w].token = t /\ worker[w].step \in {"start", "fetch", "finish"}

(* Mutant of CheckStop: without the first select.                            *)
CheckStopNever(w) == Steps(w, "top", "wait") /\ UNCHANGED <<registryVars, queueVars, late, afterStop>>

(* The first select: the stop signal has priority.                          *)
CheckStop(w) ==
    /\ Steps(w, "top", IF stopped THEN "gone" ELSE "wait")
    /\ UNCHANGED <<registryVars, queueVars, late, afterStop>>

(* Mutant of Quit: the signal is seen only when work wakes the worker.       *)
QuitOnWork(w) ==
    /\ stopped /\ queue # <<>>
    /\ Steps(w, "wait", "gone")
    /\ UNCHANGED <<registryVars, queueVars, late, afterStop>>

(* The second select: when both are ready, either may be taken.             *)
Quit(w) ==
    /\ stopped
    /\ Steps(w, "wait", "gone")
    /\ UNCHANGED <<registryVars, queueVars, late, afterStop>>

Take(w) ==
    /\ queue # <<>>
    /\ worker[w].step = "wait"
    /\ worker' = [worker EXCEPT ![w] = [step |-> "start", token |-> Head(queue),
                                        reply |-> "error"]]
    /\ queue' = Tail(queue)
    /\ afterStop' = [afterStop EXCEPT ![w] = IF stopped THEN @ + 1 ELSE @]
    /\ UNCHANGED <<registryVars, inflight, lastAttempt, late>>

(* refreshOne: a token that left the registry meanwhile is not fetched.      *)
Begin(w) ==
    /\ Steps(w, "start", IF worker[w].token \in tracked THEN "fetch" ELSE "finish")
    /\ UNCHANGED <<registryVars, queueVars, late, afterStop>>

(* Mutant of Says: an answer for a token that left brings it back.           *)
SaysAnyway(reply, t) ==
    [u \in DOMAIN learnt \cup {t} |-> IF u = t THEN "usage" ELSE learnt[u]]

(* Mutant of Says: a 404 revokes, as README.md:193 has it.                   *)
SaysRevoked404(reply, t) ==
    IF t \notin tracked THEN learnt
    ELSE CASE reply = "ok"                    -> [learnt EXCEPT ![t] = "usage"]
           [] reply \in {"401", "403", "404"} -> [learnt EXCEPT ![t] = "revoked"]
           [] OTHER                           -> learnt

(* fetchUsage and applyFetchResult: the answer, or the deadline, whichever   *)
(* the worker's select sees first.  Every store ignores an unknown token.    *)
Says(reply, t) ==
    IF t \notin tracked THEN learnt
    ELSE CASE reply = "ok"             -> [learnt EXCEPT ![t] = "usage"]
           [] reply \in {"401", "403"} -> [learnt EXCEPT ![t] = "revoked"]
           [] OTHER                    -> learnt

(* At the deadline the worker moves on and leaves the host call behind.      *)
Conclude(w, reply) ==
    /\ worker[w].step = "fetch"
    /\ worker' = [worker EXCEPT ![w] = [step |-> "finish", token |-> @.token,
                                        reply |-> reply]]
    /\ learnt' = Says(reply, worker[w].token)
    /\ late' = IF reply = "timeout" THEN late \cup {worker[w].token} ELSE late
    /\ UNCHANGED <<tracked, queueVars, afterStop>>

(* Mutant of ReturnsLate: the answer is applied after all.                   *)
ReturnsLateApplied(t) ==
    /\ t \in late
    /\ late' = late \ {t}
    /\ learnt' = Says("ok", t)
    /\ UNCHANGED <<tracked, queueVars>>

(* A call left behind ends: its answer goes into a channel nobody reads.     *)
(* Another call for the same credential may still be out.                    *)
ReturnsLate(t) ==
    /\ t \in late
    /\ late' \in {late, late \ {t}}
    /\ UNCHANGED <<registryVars, queueVars>>

(* Mutant of Finish: the mark is deleted by the path that saw an answer.     *)
FinishAnswered(w) ==
    /\ worker[w].step = "finish"
    /\ inflight' = IF worker[w].reply = "timeout" THEN inflight
                                                  ELSE inflight \ {worker[w].token}
    /\ worker' = [worker EXCEPT ![w] = Resting]
    /\ UNCHANGED <<registryVars, queue, lastAttempt, late, afterStop>>

(* The deferred delete of refreshOne.                                       *)
Finish(w) ==
    /\ worker[w].step = "finish"
    /\ inflight' = inflight \ {worker[w].token}
    /\ worker' = [worker EXCEPT ![w] = Resting]
    /\ UNCHANGED <<registryVars, queue, lastAttempt, late, afterStop>>

WorkerStep(w) == \/ CheckStop(w) \/ Quit(w) \/ Take(w) \/ Begin(w) \/ Finish(w)
                 \/ \E reply \in Replies : Conclude(w, reply)

-----------------------------------------------------------------------------
(* forgetCredential takes queueMu, then suspectMu; the sync and the prune    *)
(* call it.                                                                 *)
Unmark(t) ==
    /\ inflight' = inflight \ {t}
    /\ lastAttempt' = Without(lastAttempt, t)
    /\ UNCHANGED queue

Unsuspect(t) == lastSuspect' = Without(lastSuspect, t)

-----------------------------------------------------------------------------
(* The poll loop.  When the stop signal and a ticker are both ready, its     *)
(* select may take either.                                                  *)
LoopQuit ==
    /\ loop.step = "select" /\ stopped
    /\ loop' = [loop EXCEPT !.step = "gone"]
    /\ UNCHANGED <<registryVars, queueVars, lastSuspect>>

(* sweep takes a snapshot.  How long ago a token was offered and how often   *)
(* its fetches failed is not kept here: any of Prunable may be fit.          *)
PollTick ==
    /\ loop.step = "select"
    /\ \E due \in SUBSET (tracked \cap Prunable) :
          loop' = [loop EXCEPT !.step = "sweep", !.due = due]
    /\ UNCHANGED <<registryVars, queueVars, lastSuspect>>

(* Registry.Remove, then forgetCredential, without fileMu: a sync may list   *)
(* the token again between any two of the three.                            *)
PruneRemove(t) ==
    /\ loop.step = "sweep" /\ t \in loop.due
    /\ tracked' = tracked \ {t}
    /\ learnt' = [u \in tracked' |-> learnt[u]]
    /\ loop' = [step |-> "unmark", due |-> loop.due \ {t}, half |-> {t}]
    /\ UNCHANGED <<queueVars, lastSuspect>>

PruneUnmark(t) ==
    /\ loop.step = "unmark" /\ t \in loop.half
    /\ Unmark(t)
    /\ loop' = [loop EXCEPT !.step = "unsuspect"]
    /\ UNCHANGED <<registryVars, lastSuspect>>

PruneUnsuspect(t) ==
    /\ loop.step = "unsuspect" /\ t \in loop.half
    /\ Unsuspect(t)
    /\ loop' = [loop EXCEPT !.step = "sweep", !.half = {}]
    /\ UNCHANGED <<registryVars, queueVars>>

(* refreshAll takes a snapshot of its own and requests in config order.      *)
RefreshAll ==
    /\ loop.step = "sweep" /\ loop.due = {}
    /\ loop' = IF tracked = {} THEN Selecting
                ELSE [step |-> "request", due |-> tracked, half |-> {}]
    /\ UNCHANGED <<registryVars, queueVars, lastSuspect>>

PollRequest ==
    /\ loop.step = "request"
    /\ \E t \in loop.due :
          /\ \A u \in loop.due : t <= u
          /\ RequestRefresh(t, FALSE)
          /\ loop' = IF loop.due = {t} THEN Selecting ELSE [loop EXCEPT !.due = @ \ {t}]
    /\ UNCHANGED <<registryVars, lastSuspect>>

PollStep ==
    \/ LoopQuit \/ PollTick \/ RefreshAll \/ PollRequest
    \/ \E t \in Token : PruneRemove(t) \/ PruneUnmark(t) \/ PruneUnsuspect(t)

-----------------------------------------------------------------------------
(* usage.handle reporting a 429: only for a tracked credential, throttled by *)
(* lastSuspect, then a forced request.  Each lock is a step.                *)
Report(h) ==
    /\ handler[h].step = "idle"
    /\ \E t \in tracked : handler' = [handler EXCEPT ![h] = [step |-> "suspect", token |-> t]]
    /\ UNCHANGED <<queueVars, lastSuspect>>

Suspect(h) ==
    LET t == handler[h].token IN
    /\ handler[h].step = "suspect"
    /\ IF Recent(lastSuspect, t)
         THEN /\ handler' = [handler EXCEPT ![h] = Waiting]
              /\ UNCHANGED lastSuspect
         ELSE /\ handler' = [handler EXCEPT ![h].step = "request"]
              /\ lastSuspect' = Stamp(lastSuspect, t)
    /\ UNCHANGED queueVars

Retry(h) ==
    /\ handler[h].step = "request"
    /\ RequestRefresh(handler[h].token, TRUE)
    /\ handler' = [handler EXCEPT ![h] = Waiting]
    /\ UNCHANGED lastSuspect

HandlerStep(h) == Report(h) \/ Suspect(h) \/ Retry(h)

-----------------------------------------------------------------------------
(* syncConfigFile: the table, forgetCredential for each token that left, a   *)
(* forced request for each that appeared.  A credential that comes back      *)
(* starts with no verdict.                                                  *)
SyncTable(listing) ==
    /\ sync = SyncIdle
    /\ tracked' = listing
    /\ learnt' = [t \in listing |-> IF t \in tracked THEN learnt[t] ELSE "nothing"]
    /\ sync' = [step |-> "forget", removed |-> tracked \ listing, half |-> {},
                added |-> listing \ tracked]
    /\ UNCHANGED <<queueVars, lastSuspect>>

(* forgetCredential, for each token that left.                              *)
ForgetQueue(t) ==
    /\ t \in sync.removed /\ sync.half = {}
    /\ Unmark(t)
    /\ sync' = [sync EXCEPT !.removed = @ \ {t}, !.half = {t}]
    /\ UNCHANGED <<registryVars, lastSuspect>>

ForgetSuspect(t) ==
    /\ t \in sync.half
    /\ Unsuspect(t)
    /\ sync' = [sync EXCEPT !.half = {}]
    /\ UNCHANGED <<registryVars, queueVars>>

SyncForgotten ==
    /\ sync.step = "forget" /\ sync.removed = {} /\ sync.half = {}
    /\ sync' = IF sync.added = {} THEN SyncIdle ELSE [sync EXCEPT !.step = "request"]
    /\ UNCHANGED <<registryVars, queueVars, lastSuspect>>

SyncRequest(t) ==
    /\ sync.step = "request" /\ t \in sync.added
    /\ RequestRefresh(t, TRUE)
    /\ sync' = IF sync.added = {t} THEN SyncIdle ELSE [sync EXCEPT !.added = @ \ {t}]
    /\ UNCHANGED <<registryVars, lastSuspect>>

SyncStep == \/ \E listing \in Listings : SyncTable(listing)
            \/ \E t \in Token : ForgetQueue(t) \/ ForgetSuspect(t) \/ SyncRequest(t)
            \/ SyncForgotten

-----------------------------------------------------------------------------
(* A throttle window passes.                                                *)
Elapse(t) ==
    \/ /\ Recent(lastAttempt, t)
       /\ lastAttempt' = [lastAttempt EXCEPT ![t] = "old"]
       /\ UNCHANGED lastSuspect
    \/ /\ Recent(lastSuspect, t)
       /\ lastSuspect' = [lastSuspect EXCEPT ![t] = "old"]
       /\ UNCHANGED lastAttempt

(* Stop: Quiesce, or the first thing Shutdown does.                         *)
Stop == ~stopped /\ stopped' = TRUE

Queued(t)   == \E n \in DOMAIN queue : queue[n] = t
UnderWay(t) == Queued(t) \/ \E w \in Worker : WorksOn(w, t)

(* How many refreshes of t are queued or in a worker's hands.                *)
Places(t)  == {n \in DOMAIN queue : queue[n] = t}
Holders(t) == {w \in Worker : WorksOn(w, t)}
Count(t)   == Cardinality(Places(t)) + Cardinality(Holders(t))

(* History: a forgetting takes the mark of t while a refresh of it is under  *)
(* way, which then has none, until no more are under way than that.          *)
Loses(t) == t \in inflight \ inflight' /\ worker' = worker

Observe ==
    unmarked' = [t \in Token |->
                   LET all == unmarked[t] + (IF Loses(t) THEN 1 ELSE 0)
                   IN  IF Count(t)' < all THEN Count(t)' ELSE all]

(* The steps of each goroutine, with what they leave alone.                 *)
WorkerMoves(w) ==
    WorkerStep(w) /\ UNCHANGED <<lastSuspect, handler, loop, sync, stopped>>

LateMoves(t) ==
    ReturnsLate(t) /\ UNCHANGED <<lastSuspect, worker, handler, loop, sync, stopped, afterStop>>

PollMoves ==
    PollStep /\ UNCHANGED <<worker, handler, sync, stopped, late, afterStop>>

HandlerMoves(h) ==
    HandlerStep(h) /\ UNCHANGED <<registryVars, worker, loop, sync, stopped, late, afterStop>>

SyncMoves == SyncStep /\ UNCHANGED <<worker, handler, loop, stopped, late, afterStop>>

TimeMoves(t) ==
    Elapse(t) /\ UNCHANGED <<registryVars, queue, inflight, worker, handler, loop, sync,
                             stopped, late, afterStop>>

StopMoves ==
    Stop /\ UNCHANGED <<registryVars, queueVars, lastSuspect, worker, handler, loop, sync,
                        late, afterStop>>

RefreshStep ==
    \/ \E w \in Worker : WorkerMoves(w)
    \/ \E t \in Token : LateMoves(t)
    \/ PollMoves
    \/ \E h \in Handler : HandlerMoves(h)
    \/ SyncMoves
    \/ \E t \in Token : TimeMoves(t)
    \/ StopMoves

RefreshNext == RefreshStep /\ Observe

RefreshSpec == RefreshInit /\ [][RefreshNext]_RefreshVars

-----------------------------------------------------------------------------
(* Fairness.  A goroutine that can run does: the deadline of a fetch always  *)
(* fires, so every worker step is weakly fair.  The tickers keep firing, so  *)
(* the poll loop is weakly fair and every throttle window passes.  Nothing   *)
(* makes a request fail with 429, the file change or the host stop us.      *)
FairSpec ==
    /\ RefreshSpec
    /\ \A w \in Worker : WF_RefreshVars(WorkerMoves(w) /\ Observe)
    /\ WF_RefreshVars(PollMoves /\ Observe)
    /\ \A t \in Token : WF_RefreshVars(TimeMoves(t) /\ Observe)

-----------------------------------------------------------------------------
(* The type invariant of the refresh machinery.                             *)
RefreshTypeOK ==
    /\ tracked \subseteq Token
    /\ learnt \in [tracked -> Verdict]
    /\ queue \in Seq(Token)
    /\ inflight \subseteq Token
    /\ DOMAIN lastAttempt \subseteq Token
    /\ lastAttempt \in [DOMAIN lastAttempt -> Age]
    /\ DOMAIN lastSuspect \subseteq Token
    /\ lastSuspect \in [DOMAIN lastSuspect -> Age]
    /\ worker \in [Worker -> [step : {"top", "wait", "start", "fetch", "finish", "gone"},
                              token : Token \cup {Nobody},
                              reply : Reply]]
    /\ \A w \in Worker :
          worker[w].step \in {"start", "fetch", "finish"} => worker[w].token \in Token
    /\ handler \in [Handler -> [step : {"idle", "suspect", "request"},
                                token : Token \cup {Nobody}]]
    /\ \A h \in Handler : handler[h].step # "idle" => handler[h].token \in Token
    /\ loop \in [step : {"select", "sweep", "unmark", "unsuspect", "request", "gone"},
                 due : SUBSET Token, half : SUBSET Token]
    /\ sync \in [step : {"idle", "forget", "request"}, removed : SUBSET Token,
                 half : SUBSET Token, added : SUBSET Token]
    /\ stopped \in BOOLEAN
    /\ late \subseteq Token
    /\ unmarked \in [Token -> Nat]
    /\ afterStop \in [Worker -> Nat]

(* A token marked in flight is queued or in some worker's hands: were it     *)
(* not, nothing would ever clear the mark and the credential would never be  *)
(* refreshed again (poller.go:125-137, fetch.go:20-25, service.go:394-397).  *)
NoStuckInflight == \A t \in inflight : UnderWay(t)

(* One refresh per credential, queued or in one worker's hands and marked in *)
(* flight.  A forgetting that takes the mark of a running refresh, because   *)
(* the credential left and may return at once or a prune was late, costs one *)
(* more at a time and no more, although whoever finishes first then lifts    *)
(* the other's mark (poller.go:125-137, fetch.go:20-25, service.go:394-397). *)
SingleFlight ==
    \A t \in Token : Count(t) <= unmarked[t] + (IF t \in inflight THEN 1 ELSE 0)

Concludes(w, t) ==
    worker[w].step = "fetch" /\ worker[w].token = t /\ worker'[w].step = "finish"

(* What the pool holds against a credential, or in its favour, is what an    *)
(* answer said that came before the deadline of a refresh under way: a       *)
(* reading for a readable success, a revocation for 401 and 403 alone, and   *)
(* nothing new for anything else, late answers and answers for credentials   *)
(* that left included (fetch.go:65-131).                                    *)
VerdictsAreEarned ==
    [][\A t \in tracked \cap tracked' :
          /\ (\A w \in Worker : ~Concludes(w, t)) => learnt'[t] = learnt[t]
          /\ \A w \in Worker : Concludes(w, t) =>
                learnt'[t] = CASE worker'[w].reply = "ok" -> "usage"
                               [] worker'[w].reply \in {"401", "403"} -> "revoked"
                               [] OTHER -> learnt[t]]_RefreshVars

(* Once the stop signal is out a worker begins at most one more refresh: the *)
(* select may still prefer the queue once, and the check at the top of the   *)
(* loop sees the signal after that (poller.go:47-62).                       *)
StopBoundsWork == \A w \in Worker : afterStop[w] <= 1

(* Stop does not wait for a worker in vain: whatever was queued and however  *)
(* long the host calls take, every worker leaves (poller.go:35-62, fetch.go: *)
(* 65-77).  The poll loop, which Stop waits for too, is in Lifecycle.        *)
StopTerminates == stopped ~> \A w \in Worker : worker[w].step = "gone"

(* An accepted request is worked off, so the mark that blocks the next one   *)
(* is always lifted (fetch.go:20-25).                                       *)
MarkIsLifted == \A t \in Token : t \in inflight ~> (t \notin inflight \/ stopped)

(* Every configured credential is refreshed again and again, as long as the  *)
(* queue can hold one request of each: no throttle, mark or order of the     *)
(* requests starves one of them (poller.go:105-140).  With more credentials  *)
(* than that, requests for the later ones may be dropped in every cycle.     *)
EveryKeyIsPolled ==
    \A t \in Token : []<>(t \in inflight \/ t \notin tracked \/ stopped)

-----------------------------------------------------------------------------
(* Each credential, seen from outside, goes through one refresh at a time.   *)
Doing(step, t) == \E w \in Worker : worker[w].step = step /\ worker[w].token = t
Fetching(t)    == Doing("fetch", t)

StageOf(t) ==
    IF unmarked[t] > 0         THEN "forgotten"
    ELSE IF Fetching(t)        THEN "fetching"
    ELSE IF Doing("finish", t) THEN "settling"
    ELSE IF t \in inflight     THEN "requested"
    ELSE "idle"

Cycle == INSTANCE RefreshCycle WITH stage <- [t \in Token |-> StageOf(t)]

(* The machinery implements the cycle: under every interleaving of poll,     *)
(* 429s, reloads and workers, an accepted request leads to one fetch that is *)
(* concluded before the next request is accepted, and no fetch happens that  *)
(* was not requested (poller.go:112-140, fetch.go:20-32, service.go:387-404).*)
ImplementsCycle == Cycle!CycleSpec
=============================================================================
