----------------------------- MODULE Selection ------------------------------
(***************************************************************************)
(* How a pick judges and orders credentials (internal/pool/select.go): pure  *)
(* functions of a credential's state, of the settings the pick was given,    *)
(* "set", and of the time it started, "at".  What a pick keeps of each       *)
(* credential it has read is its appraisal, "seen".                         *)
(***************************************************************************)
EXTENDS Registry, Ranking

(* The policy's verdict on one credential; "" in the code is usable here.    *)
Usable(t, state, set, at) ==
    /\ ~state.revoked
    /\ ~Unavailable(state.usage)
    /\ t \notin set.exclude
    /\ ~Suspected429(state, at)

(* A reading older than staleAfter ranks like none; 0 turns staleness off.   *)
Stale(state, set, at) ==
    set.staleAfter > 0 /\ at - state.fetchedAt > set.staleAfter

RankPercent(state, set, at) ==
    IF state.hasUsage /\ ~Stale(state, set, at)
      THEN SortPercent(state.usage)
      ELSE NoScore

(* Mutant of Spared: as a last resort anything goes.                         *)
SparedAll(t, state, set) == TRUE

(* The last resort never releases a dead or an excluded credential.         *)
Spared(t, state, set) == ~state.revoked /\ t \notin set.exclude

(* All that a pick ever uses of its copy of a credential's state.           *)
Appraisal == [provider : Provider, usable : BOOLEAN, spared : BOOLEAN,
              rank : Score, peak : Score]

Appraise(t, state, set, at) ==
    [provider |-> state.provider,
     usable   |-> Usable(t, state, set, at),
     spared   |-> Spared(t, state, set),
     rank     |-> RankPercent(state, set, at),
     peak     |-> MaxPercent(state.usage)]

(* Mutant of Eligible: a credential without a reading cannot be chosen.      *)
EligibleMeasured(seen) == {t \in DOMAIN seen : seen[t].usable /\ seen[t].rank.ok}

Eligible(seen)   == {t \in DOMAIN seen : seen[t].usable}
Releasable(seen) == {t \in DOMAIN seen : seen[t].spared}

(* rankEligible(...)[0], and fallbackPick.                                  *)
BestRanked(t, seen)     == IsFirst(t, [u \in Eligible(seen) |-> seen[u].rank])
BestReleasable(t, seen) == IsFirst(t, [u \in Releasable(seen) |-> seen[u].peak])
=============================================================================
