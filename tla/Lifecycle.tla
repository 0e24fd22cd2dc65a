----------------------------- MODULE Lifecycle ------------------------------
(***************************************************************************)
(* The life of the plugin (main.go; Register, Reconfigure, Quiesce and       *)
(* Shutdown of internal/service/service.go; Start, Stop, worker and pollLoop *)
(* of poller.go): the goroutines it starts, the host calls they are inside   *)
(* of, and what the host may free once shutdown has returned.               *)
(*                                                                         *)
(* The host serializes the lifecycle calls.  A usage fetch is a host call    *)
(* without a timeout of its own: it may never return.                       *)
(***************************************************************************)
EXTENDS Integers, FiniteSets

CONSTANTS Worker,      \* the worker goroutines
          Fetch,       \* bound: host.http.do calls outstanding at once
          MaxAsync,    \* bound: reconfigure syncs running at once
          MaxQueue,    \* bound: refreshes waiting in Service.queue
          MaxCalls     \* bound: lifecycle calls the host makes

ASSUME FetchAssumption == IsFiniteSet(Fetch)
ASSUME BoundsAssumption == MaxAsync \in Nat /\ MaxQueue \in Nat /\ MaxCalls \in Nat

VARIABLES calls,       \* bound: lifecycle calls so far
          host,        \* the lifecycle call under way, and its next step
          started,     \* startOnce has run
          stopped,     \* stopCh is closed
          queue,       \* how many refreshes wait
          worker,      \* the workers
          loop,        \* the poll loop
          fetch,       \* the host.http.do calls: whose answer each one is
          async,       \* how many reconfigure syncs are running
          joined,      \* history: Stop has returned
          late         \* history: Shutdown gave up on outstanding fetches

poolVars == <<started, stopped, queue, worker, loop, fetch, async>>
LifecycleVars == <<calls, host, poolVars, joined, late>>

HostStep == {"idle", "sync", "start", "await", "join", "freed"}

(* A fetch nobody waits for any more is detached; fetchWG counts all of      *)
(* them but the free ones.                                                  *)
Free == "free"
Detached == "detached"

ASSUME FetchStateAssumption == Free \notin Worker /\ Detached \notin Worker

Outstanding == {c \in Fetch : fetch[c] # Free}

-----------------------------------------------------------------------------
(* The service is made by the first call that reaches it: until then there   *)
(* are no goroutines, and shutdown has nothing to do.                       *)
LifecycleInit ==
    /\ calls = 0
    /\ host = [call |-> "none", step |-> "idle"]
    /\ started = FALSE /\ stopped = FALSE
    /\ queue = 0
    /\ worker = [w \in Worker |-> "none"]
    /\ loop = "none"
    /\ fetch = [c \in Fetch |-> Free]
    /\ async = 0
    /\ joined = FALSE /\ late = FALSE

-----------------------------------------------------------------------------
(* The host                                                                 *)

Calls(call, step) ==
    /\ host.step = "idle" /\ calls < MaxCalls
    /\ calls' = calls + 1
    /\ host' = [call |-> call, step |-> step]

Continues(from, to) == host.step = from /\ host' = [host EXCEPT !.step = to]

Returns(from) == host.step = from /\ host' = [call |-> "none", step |-> "idle"]

(* plugin.register: the configuration is applied and config.yaml read within *)
(* the call, then the poller starts.                                        *)
Register ==
    /\ Calls("register", "sync")
    /\ UNCHANGED <<poolVars, joined, late>>

(* A refresh for each credential that is new.                               *)
RegisterSync ==
    /\ Continues("sync", "start")
    /\ queue' \in queue..MaxQueue
    /\ UNCHANGED <<calls, started, stopped, worker, loop, fetch, async, joined, late>>

(* Start, which runs once in the life of the plugin.                         *)
Start ==
    /\ Returns("start")
    /\ started' = TRUE
    /\ IF started
         THEN UNCHANGED <<worker, loop>>
         ELSE worker' = [w \in Worker |-> "top"] /\ loop' = "select"
    /\ UNCHANGED <<calls, stopped, queue, fetch, async, joined, late>>

(* plugin.reconfigure starts a sync and returns at once.  The host sends it  *)
(* to plugins it has registered.                                            *)
Reconfigure ==
    /\ host.step = "idle" /\ calls < MaxCalls /\ async < MaxAsync
    /\ started
    /\ calls' = calls + 1
    /\ async' = async + 1
    /\ UNCHANGED <<host, started, stopped, queue, worker, loop, fetch, joined, late>>

(* plugin.quiesce and the C shutdown hook: close stopCh, once.               *)
Stop(call) ==
    /\ Calls(call, "await")
    /\ stopped' = TRUE
    /\ UNCHANGED <<started, queue, worker, loop, fetch, async, joined, late>>

AllGone == loop \in {"none", "gone"} /\ \A w \in Worker : worker[w] \in {"none", "gone"}

(* Mutant of Await: the wait group is not waited for.                        *)
AwaitNobody ==
    /\ host.step = "await"
    /\ joined' = TRUE
    /\ host' = IF host.call = "shutdown" THEN [host EXCEPT !.step = "join"]
                                         ELSE [call |-> "none", step |-> "idle"]
    /\ UNCHANGED <<calls, poolVars, late>>

(* workers.Wait: the end of Stop.                                           *)
Await ==
    /\ host.step = "await" /\ AllGone
    /\ joined' = TRUE
    /\ host' = IF host.call = "shutdown" THEN [host EXCEPT !.step = "join"]
                                         ELSE [call |-> "none", step |-> "idle"]
    /\ UNCHANGED <<calls, poolVars, late>>

(* Mutant of Join: without the timer.                                       *)
JoinForGood ==
    /\ Outstanding = {}
    /\ Continues("join", "freed")
    /\ UNCHANGED <<calls, poolVars, joined, late>>

(* Shutdown waits for the fetches, or for its 30 seconds.  Then the host     *)
(* frees what the plugin would call.                                        *)
Join ==
    /\ Continues("join", "freed")
    /\ late' = (Outstanding # {})
    /\ UNCHANGED <<calls, poolVars, joined>>

HostStepNext ==
    \/ Register \/ RegisterSync \/ Start \/ Reconfigure
    \/ Stop("quiesce") \/ Stop("shutdown")
    \/ Await \/ Join

-----------------------------------------------------------------------------
(* The goroutines                                                           *)

Moves(w, from, to) == worker[w] = from /\ worker' = [worker EXCEPT ![w] = to]

(* Mutant of CheckStop: without the first select.                            *)
CheckStopNever(w) ==
    /\ Moves(w, "top", "wait")
    /\ UNCHANGED <<queue, fetch>>

CheckStop(w) ==
    /\ Moves(w, "top", IF stopped THEN "gone" ELSE "wait")
    /\ UNCHANGED <<queue, fetch>>

(* The second select takes either of what is ready.                          *)
Quit(w) ==
    /\ stopped
    /\ Moves(w, "wait", "gone")
    /\ UNCHANGED <<queue, fetch>>

(* A refresh of a credential that left, or without a usage_url, ends at once.*)
TakeNothing(w) ==
    /\ queue > 0
    /\ queue' = queue - 1
    /\ Moves(w, "wait", "top")
    /\ UNCHANGED fetch

(* Mutant of TakeFetch: a receive that does not wait for work.               *)
TakeFetchBlindly(w) ==
    /\ queue' = queue - 1
    /\ Moves(w, "wait", "fetch")
    /\ \E c \in Fetch \ Outstanding : fetch' = [fetch EXCEPT ![c] = w]

(* fetchUsage makes the call in a goroutine of its own.                      *)
TakeFetch(w) ==
    /\ queue > 0
    /\ queue' = queue - 1
    /\ Moves(w, "wait", "fetch")
    /\ \E c \in Fetch \ Outstanding : fetch' = [fetch EXCEPT ![c] = w]

(* The answer comes: the call is over and the worker folds it in.            *)
Answered(w) ==
    /\ Moves(w, "fetch", "top")
    /\ \E c \in Fetch : fetch[c] = w /\ fetch' = [fetch EXCEPT ![c] = Free]
    /\ UNCHANGED queue

(* The deadline fires: the worker leaves the call running and moves on.      *)
GiveUp(w) ==
    /\ Moves(w, "fetch", "top")
    /\ \E c \in Fetch : fetch[c] = w /\ fetch' = [fetch EXCEPT ![c] = Detached]
    /\ UNCHANGED queue

(* A detached call returns after all, or never.                             *)
ReturnsLate(c) == fetch[c] = Detached /\ fetch' = [fetch EXCEPT ![c] = Free]

(* The poll loop: a tick, the sync or sweep and requests it leads to, or the *)
(* stop signal.                                                             *)
LoopTick ==
    /\ loop = "select"
    /\ loop' = "busy"
    /\ UNCHANGED queue

LoopDone ==
    /\ loop = "busy"
    /\ loop' = "select"
    /\ queue' \in queue..MaxQueue

LoopQuit ==
    /\ loop = "select" /\ stopped
    /\ loop' = "gone"
    /\ UNCHANGED queue

(* A reconfigure sync ends, with a refresh for each new credential.          *)
AsyncDone ==
    /\ async > 0
    /\ async' = async - 1
    /\ queue' \in queue..MaxQueue

WorkerMoves(w) ==
    /\ CheckStop(w) \/ Quit(w) \/ TakeNothing(w) \/ TakeFetch(w) \/ GiveUp(w)
    /\ UNCHANGED <<calls, host, started, stopped, loop, async, joined, late>>

AnswerMoves(w) ==
    /\ Answered(w)
    /\ UNCHANGED <<calls, host, started, stopped, loop, async, joined, late>>

LateMoves(c) ==
    /\ ReturnsLate(c)
    /\ UNCHANGED <<calls, host, started, stopped, queue, worker, loop, async, joined, late>>

LoopBusy ==
    /\ LoopTick \/ LoopDone
    /\ UNCHANGED <<calls, host, started, stopped, worker, fetch, async, joined, late>>

LoopStops ==
    /\ LoopQuit
    /\ UNCHANGED <<calls, host, started, stopped, worker, fetch, async, joined, late>>

AsyncMoves ==
    /\ AsyncDone
    /\ UNCHANGED <<calls, host, started, stopped, worker, loop, fetch, joined, late>>

LifecycleNext ==
    \/ HostStepNext
    \/ \E w \in Worker : WorkerMoves(w) \/ AnswerMoves(w)
    \/ \E c \in Fetch : LateMoves(c)
    \/ LoopBusy \/ LoopStops \/ AsyncMoves

LifecycleSpec == LifecycleInit /\ [][LifecycleNext]_LifecycleVars

(* Fairness.  Goroutines that can run do, the deadline of a fetch and the    *)
(* timer of Shutdown fire, and a call the host has made goes on.  The loop's *)
(* select picks at random among the ready cases, so it sees the stop signal  *)
(* sooner or later however often the tickers fire.  Nothing says that the    *)
(* host answers a fetch, or makes another lifecycle call.                    *)
FairLifecycleSpec ==
    /\ LifecycleSpec
    /\ WF_LifecycleVars(RegisterSync) /\ WF_LifecycleVars(Start)
    /\ WF_LifecycleVars(Await) /\ WF_LifecycleVars(Join)
    /\ \A w \in Worker : WF_LifecycleVars(WorkerMoves(w))
    /\ WF_LifecycleVars(LoopBusy) /\ SF_LifecycleVars(LoopStops)
    /\ WF_LifecycleVars(AsyncMoves)

-----------------------------------------------------------------------------
(* The type invariant of the lifecycle.                                     *)
LifecycleTypeOK ==
    /\ calls \in 0..MaxCalls
    /\ host \in [call : {"none", "register", "quiesce", "shutdown"}, step : HostStep]
    /\ started \in BOOLEAN /\ stopped \in BOOLEAN
    /\ queue \in 0..MaxQueue
    /\ worker \in [Worker -> {"none", "top", "wait", "fetch", "gone"}]
    /\ loop \in {"none", "select", "busy", "gone"}
    /\ fetch \in [Fetch -> Worker \cup {Free, Detached}]
    /\ async \in 0..MaxAsync
    /\ joined \in BOOLEAN /\ late \in BOOLEAN

Freed == host.step = "freed"

(* Once the host may free its context no worker, no poll loop and no fetch   *)
(* is left that could call it, unless Shutdown said so and gave up on        *)
(* fetches after its timeout (service.go:283-295, poller.go:40-45).          *)
NothingOutlivesShutdown ==
    Freed => AllGone /\ (late \/ Outstanding = {})

(* After Stop has returned, no usage fetch ever begins: not from what is     *)
(* still queued, and not when the plugin is registered again, or for the     *)
(* first time, after a quiesce (poller.go:23-34, 47-54).                     *)
StopIsForGood ==
    [][joined => \A c \in Fetch : fetch[c] = Free => fetch'[c] = Free]_LifecycleVars

(* Every lifecycle call returns, shutdown within its bounds, although host   *)
(* calls may hang forever (poller.go:40-45, service.go:284-296,              *)
(* fetch.go:65-68).                                                         *)
CallsReturn == host.step \notin {"idle", "freed"} ~> host.step \in {"idle", "freed"}

(* "Shutdown stops the poller and waits for every goroutine this plugin      *)
(* started" (service.go:277): a sync that a reconfigure started is over when *)
(* the host frees its context, unless Shutdown ran into its timeout.         *)
JoinsEverything == Freed /\ ~late => async = 0
=============================================================================
