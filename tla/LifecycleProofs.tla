--------------------------- MODULE LifecycleProofs ---------------------------
(***************************************************************************)
(* The plugin's life, for any number of workers, host calls, queued          *)
(* refreshes and lifecycle calls.                                           *)
(***************************************************************************)
EXTENDS Lifecycle, TLAPS

(* What the stop leaves behind.  A worker that Start launches afterwards     *)
(* sees the stop before it waits for work; from the join on there is none.   *)
StopOrder ==
    /\ joined \/ host.step \in {"await", "join", "freed"} => stopped
    /\ joined => \A w \in Worker : worker[w] \in {"none", "top", "gone"}
    /\ host.step \in {"join", "freed"} => AllGone

LifecycleInv == LifecycleTypeOK /\ StopOrder /\ NothingOutlivesShutdown

-----------------------------------------------------------------------------
(* Type correctness, one lemma for the host's steps and one for the others.  *)
LEMMA HostTypes ==
    ASSUME LifecycleTypeOK, HostStepNext
    PROVE  LifecycleTypeOK'
<1> USE BoundsAssumption DEF LifecycleTypeOK, HostStep, Calls, Continues, Returns, poolVars
<1>1. CASE Register
  BY <1>1 DEF Register
<1>2. CASE RegisterSync
  BY <1>2 DEF RegisterSync
<1>3. CASE Start
  BY <1>3 DEF Start
<1>4. CASE Reconfigure
  BY <1>4 DEF Reconfigure
<1>5. ASSUME NEW call \in {"quiesce", "shutdown"}, Stop(call)
      PROVE  LifecycleTypeOK'
  BY <1>5 DEF Stop
<1>6. CASE Await
  BY <1>6 DEF Await
<1>7. CASE Join
  <2>1. late' \in BOOLEAN
    BY <1>7 DEF Join
  <2> QED
    BY <1>7, <2>1 DEF Join
<1> QED
  BY <1>1, <1>2, <1>3, <1>4, <1>5, <1>6, <1>7 DEF HostStepNext

LEMMA WorkerTypes ==
    ASSUME LifecycleTypeOK, NEW w \in Worker, WorkerMoves(w) \/ AnswerMoves(w)
    PROVE  LifecycleTypeOK'
<1> USE BoundsAssumption DEF LifecycleTypeOK, HostStep, Moves
<1>1. /\ worker' \in [Worker -> {"none", "top", "wait", "fetch", "gone"}]
      /\ UNCHANGED <<calls, host, started, stopped, loop, async, joined, late>>
  BY DEF WorkerMoves, AnswerMoves, CheckStop, Quit, TakeNothing, TakeFetch, GiveUp, Answered
<1>2. queue' \in 0..MaxQueue
  BY DEF WorkerMoves, AnswerMoves, CheckStop, Quit, TakeNothing, TakeFetch, GiveUp, Answered
<1>3. fetch' \in [Fetch -> Worker \cup {Free, Detached}]
  <2>1. \/ UNCHANGED fetch
        \/ \E c \in Fetch, by \in {w, Free, Detached} : fetch' = [fetch EXCEPT ![c] = by]
    BY DEF WorkerMoves, AnswerMoves, CheckStop, Quit, TakeNothing, TakeFetch, GiveUp, Answered
  <2> QED
    BY <2>1
<1> QED
  BY <1>1, <1>2, <1>3

LEMMA OtherTypes ==
    ASSUME LifecycleTypeOK,
           (\E c \in Fetch : LateMoves(c)) \/ LoopBusy \/ LoopStops \/ AsyncMoves
    PROVE  LifecycleTypeOK'
<1> USE BoundsAssumption DEF LifecycleTypeOK, HostStep
<1>1. CASE \E c \in Fetch : LateMoves(c)
  BY <1>1 DEF LateMoves, ReturnsLate
<1>2. CASE LoopBusy
  BY <1>2 DEF LoopBusy, LoopTick, LoopDone
<1>3. CASE LoopStops
  BY <1>3 DEF LoopStops, LoopQuit
<1>4. CASE AsyncMoves
  BY <1>4 DEF AsyncMoves, AsyncDone
<1> QED
  BY <1>1, <1>2, <1>3, <1>4

-----------------------------------------------------------------------------
(* Past the join no goroutine of the pool moves, and nobody starts another.  *)
LEMMA HostKeepsOrder ==
    ASSUME LifecycleInv, HostStepNext
    PROVE  StopOrder' /\ NothingOutlivesShutdown'
<1> USE DEF LifecycleInv, LifecycleTypeOK, HostStep, StopOrder, NothingOutlivesShutdown, Freed,
            AllGone, Outstanding, Calls, Continues, Returns, poolVars
<1>1. CASE Register
  BY <1>1 DEF Register
<1>2. CASE RegisterSync
  BY <1>2 DEF RegisterSync
<1>3. CASE Start
  BY <1>3 DEF Start
<1>4. CASE Reconfigure
  BY <1>4 DEF Reconfigure
<1>5. ASSUME NEW call \in {"quiesce", "shutdown"}, Stop(call)
      PROVE  StopOrder' /\ NothingOutlivesShutdown'
  BY <1>5 DEF Stop
<1>6. CASE Await
  BY <1>6 DEF Await
<1>7. CASE Join
  BY <1>7 DEF Join
<1> QED
  BY <1>1, <1>2, <1>3, <1>4, <1>5, <1>6, <1>7 DEF HostStepNext

LEMMA WorkerKeepsOrder ==
    ASSUME LifecycleInv, NEW w \in Worker, WorkerMoves(w) \/ AnswerMoves(w)
    PROVE  StopOrder' /\ NothingOutlivesShutdown'
<1> USE DEF LifecycleInv, LifecycleTypeOK, StopOrder, Moves
<1>1. UNCHANGED <<host, stopped, loop, joined, late>>
  BY DEF WorkerMoves, AnswerMoves
<1>2. \E to \in {"top", "wait", "fetch", "gone"} : worker' = [worker EXCEPT ![w] = to]
  BY DEF WorkerMoves, AnswerMoves, CheckStop, Quit, TakeNothing, TakeFetch, GiveUp, Answered
<1>3. worker[w] \in {"top", "wait", "fetch"}
  BY DEF WorkerMoves, AnswerMoves, CheckStop, Quit, TakeNothing, TakeFetch, GiveUp, Answered
<1>4. host.step \notin {"join", "freed"}
  BY <1>3 DEF AllGone
<1>5. joined => worker[w] = "top"
  BY <1>3
<1>6. joined => worker'[w] = "gone"
  BY <1>5 DEF WorkerMoves, AnswerMoves, CheckStop, Quit, TakeNothing, TakeFetch, GiveUp, Answered
<1> QED
  BY <1>1, <1>2, <1>4, <1>6 DEF NothingOutlivesShutdown, Freed

LEMMA OthersKeepOrder ==
    ASSUME LifecycleInv,
           (\E c \in Fetch : LateMoves(c)) \/ LoopBusy \/ LoopStops \/ AsyncMoves
    PROVE  StopOrder' /\ NothingOutlivesShutdown'
<1> USE DEF LifecycleInv, LifecycleTypeOK, StopOrder, NothingOutlivesShutdown, Freed, AllGone,
            Outstanding
<1>1. CASE \E c \in Fetch : LateMoves(c)
  BY <1>1 DEF LateMoves, ReturnsLate
<1>2. CASE LoopBusy
  BY <1>2 DEF LoopBusy, LoopTick, LoopDone
<1>3. CASE LoopStops
  BY <1>3 DEF LoopStops, LoopQuit
<1>4. CASE AsyncMoves
  BY <1>4 DEF AsyncMoves, AsyncDone
<1> QED
  BY <1>1, <1>2, <1>3, <1>4

(* The inductive invariant of the lifecycle.                                *)
THEOREM LifecycleInvariant == LifecycleSpec => []LifecycleInv
<1>1. LifecycleInit => LifecycleInv
  <2> SUFFICES ASSUME LifecycleInit PROVE LifecycleInv
    OBVIOUS
  <2> USE BoundsAssumption DEF LifecycleInit
  <2>1. host.step = "idle" /\ ~joined
    OBVIOUS
  <2>2. fetch \in [Fetch -> Worker \cup {Free, Detached}]
    OBVIOUS
  <2>3. worker \in [Worker -> {"none", "top", "wait", "fetch", "gone"}]
    OBVIOUS
  <2>4. calls \in 0..MaxCalls /\ queue \in 0..MaxQueue /\ async \in 0..MaxAsync
    OBVIOUS
  <2>5. host \in [call : {"none", "register", "quiesce", "shutdown"}, step : HostStep]
    BY DEF HostStep
  <2>6. started \in BOOLEAN /\ stopped \in BOOLEAN /\ joined \in BOOLEAN /\ late \in BOOLEAN
    BY Zenon
  <2>7. LifecycleTypeOK
    BY <2>2, <2>3, <2>4, <2>5, <2>6 DEF LifecycleTypeOK
  <2> QED
    BY <2>1, <2>7 DEF LifecycleInv, StopOrder, NothingOutlivesShutdown, Freed
<1>2. LifecycleInv /\ [LifecycleNext]_LifecycleVars => LifecycleInv'
  <2> SUFFICES ASSUME LifecycleInv, [LifecycleNext]_LifecycleVars
               PROVE  LifecycleInv'
    OBVIOUS
  <2>1. CASE HostStepNext
    BY <2>1, HostTypes, HostKeepsOrder DEF LifecycleInv
  <2>2. CASE \E w \in Worker : WorkerMoves(w) \/ AnswerMoves(w)
    BY <2>2, WorkerTypes, WorkerKeepsOrder DEF LifecycleInv
  <2>3. CASE (\E c \in Fetch : LateMoves(c)) \/ LoopBusy \/ LoopStops \/ AsyncMoves
    BY <2>3, OtherTypes, OthersKeepOrder DEF LifecycleInv
  <2>4. CASE UNCHANGED LifecycleVars
    BY <2>4 DEF LifecycleInv, LifecycleTypeOK, StopOrder, NothingOutlivesShutdown, Freed, AllGone,
                Outstanding, LifecycleVars, poolVars
  <2> QED
    BY <2>1, <2>2, <2>3, <2>4 DEF LifecycleNext
<1> QED
  BY <1>1, <1>2, PTL DEF LifecycleSpec

(* Type correctness of the lifecycle.                                       *)
THEOREM LifecycleTypeCorrect == LifecycleSpec => []LifecycleTypeOK
<1>1. LifecycleInv => LifecycleTypeOK
  BY DEF LifecycleInv
<1> QED
  BY <1>1, LifecycleInvariant, PTL

(* However many workers and calls there are, Shutdown leaves no goroutine of *)
(* the pool, and no fetch unless its timeout fired (service.go:283-295).     *)
THEOREM ShutdownJoins == LifecycleSpec => []NothingOutlivesShutdown
<1>1. LifecycleInv => NothingOutlivesShutdown
  BY DEF LifecycleInv
<1> QED
  BY <1>1, LifecycleInvariant, PTL

(* Once Stop has returned no usage fetch begins, whatever the host still     *)
(* calls (poller.go:23-62).                                                 *)
THEOREM StopHolds == LifecycleSpec => StopIsForGood
<1>1. ASSUME LifecycleInv, [LifecycleNext]_LifecycleVars, joined,
             NEW c \in Fetch, fetch[c] = Free
      PROVE  fetch'[c] = Free
  <2>1. CASE HostStepNext
    BY <1>1, <2>1 DEF HostStepNext, Register, RegisterSync, Start, Reconfigure, Stop, Await, Join, poolVars
  <2>2. CASE \E w \in Worker : WorkerMoves(w) \/ AnswerMoves(w)
    <3>1. PICK w \in Worker : WorkerMoves(w) \/ AnswerMoves(w)
      BY <2>2
    <3>2. worker[w] \notin {"wait", "fetch"}
      BY <1>1 DEF LifecycleInv, StopOrder
    <3> QED
      BY <1>1, <3>1, <3>2
         DEF WorkerMoves, AnswerMoves, Moves, CheckStop, Quit, TakeNothing, TakeFetch, GiveUp, Answered
  <2>3. CASE \E d \in Fetch : LateMoves(d)
    BY <1>1, <2>3 DEF LateMoves, ReturnsLate, LifecycleInv, LifecycleTypeOK
  <2>4. CASE LoopBusy \/ LoopStops \/ AsyncMoves
    BY <1>1, <2>4 DEF LoopBusy, LoopStops, AsyncMoves, LoopTick, LoopDone, LoopQuit, AsyncDone
  <2>5. CASE UNCHANGED LifecycleVars
    BY <1>1, <2>5 DEF LifecycleVars, poolVars
  <2> QED
    BY <1>1, <2>1, <2>2, <2>3, <2>4, <2>5 DEF LifecycleNext
<1>2. LifecycleInv /\ [LifecycleNext]_LifecycleVars
        => [joined => \A c \in Fetch : fetch[c] = Free => fetch'[c] = Free]_LifecycleVars
  BY <1>1
<1> QED
  BY <1>2, LifecycleInvariant, PTL DEF LifecycleSpec, StopIsForGood
=============================================================================
