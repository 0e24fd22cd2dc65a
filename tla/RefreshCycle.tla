---------------------------- MODULE RefreshCycle ----------------------------
(***************************************************************************)
(* What the refresh machinery promises for each credential: one cycle at a   *)
(* time.  A request is accepted when the credential is idle, fetched once,   *)
(* and concluded before the next is accepted.  The promise lapses only for a *)
(* credential whose refresh lost its mark to a forgetting, until no refresh   *)
(* is left that did.                                                        *)
(***************************************************************************)
CONSTANT Token

VARIABLE stage

Stages == {"idle", "requested", "fetching", "settling", "forgotten"}

CycleInit == stage = [t \in Token |-> "idle"]

Move(t, from, to) ==
    /\ stage[t] = from
    /\ stage' = [stage EXCEPT ![t] = to]

Request(t)  == Move(t, "idle", "requested")
Fetch(t)    == Move(t, "requested", "fetching")
Skip(t)     == Move(t, "requested", "settling")
Conclude(t) == Move(t, "fetching", "settling")
Rest(t)     == Move(t, "settling", "idle")
Forget(t)   == stage' = [stage EXCEPT ![t] = "forgotten"]
Forgive(t)  == Move(t, "forgotten", "idle")

CycleNext == \E t \in Token : \/ Request(t) \/ Fetch(t) \/ Skip(t) \/ Conclude(t)
                              \/ Rest(t) \/ Forget(t) \/ Forgive(t)

CycleSpec == CycleInit /\ [][CycleNext]_stage
=============================================================================
