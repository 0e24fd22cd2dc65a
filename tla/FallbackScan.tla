---------------------------- MODULE FallbackScan ----------------------------
(***************************************************************************)
(* The loop of fallbackPick (internal/pool/select.go), one iteration per     *)
(* step, over the releasable candidates in the order the host listed them.   *)
(* Ranking states what the loop is for: IsFirst.                            *)
(***************************************************************************)
EXTENDS Ranking, FiniteSets

CONSTANTS Candidate,  \* candidate IDs
          Percent     \* the percentages a window may report

ASSUME CandidateAssumption == Candidate \subseteq Nat /\ IsFiniteSet(Candidate)
ASSUME PercentAssumption == Percent \subseteq Int

VARIABLES list,       \* the releasable candidates, in host order
          peak,       \* their MaxPercent
          i,          \* the candidate the next iteration looks at
          best,       \* index of the best so far, 0 when there is none
          bestMax,    \* and its MaxPercent
          released    \* the loop's answer, as a set: empty until it returns

Scores == {NoScore} \cup {ScoreOf(v) : v \in Percent}

ScanInit ==
    /\ \E S \in (SUBSET Candidate) \ {{}} :
          /\ list \in {f \in [1..Cardinality(S) -> S] :
                         \A t \in S : \E m \in DOMAIN f : f[m] = t}
          /\ peak \in [S -> Scores]
    /\ i = 1
    /\ best = 0
    /\ bestMax = 0
    /\ released = {}

(* Mutant of Improves: a best peak of zero stands for none yet.              *)
ImprovesOnZero(m) ==
    /\ peak[list[m]].ok
    /\ \/ bestMax = 0
       \/ peak[list[m]].value < bestMax
       \/ peak[list[m]].value = bestMax /\ list[m] < list[best]

(* The condition of the loop's if.                                          *)
Improves(m) ==
    /\ peak[list[m]].ok
    /\ \/ best = 0
       \/ peak[list[m]].value < bestMax
       \/ peak[list[m]].value = bestMax /\ list[m] < list[best]

Iterate ==
    /\ i \in DOMAIN list
    /\ i' = i + 1
    /\ IF Improves(i)
         THEN best' = i /\ bestMax' = peak[list[i]].value
         ELSE UNCHANGED <<best, bestMax>>
    /\ UNCHANGED <<list, peak, released>>

(* Nothing was ever measured: the lowest candidate ID.                      *)
Return ==
    /\ i \notin DOMAIN list
    /\ released = {}
    /\ IF best > 0
         THEN released' = {list[best]}
         ELSE \E m \in DOMAIN list :
                 /\ \A n \in DOMAIN list \ {m} : list[m] < list[n]
                 /\ released' = {list[m]}
    /\ UNCHANGED <<list, peak, i, best, bestMax>>

ScanVars == <<list, peak, i, best, bestMax, released>>
ScanNext == Iterate \/ Return
ScanSpec == ScanInit /\ [][ScanNext]_ScanVars

(* Whatever order the host lists the candidates in, the loop releases the    *)
(* credential the policy names: the least exhausted one, the lower candidate *)
(* ID between equals, an unmeasured one only when nothing was measured.      *)
ReleasesTheFirst == \A t \in released : IsFirst(t, peak)
=============================================================================
