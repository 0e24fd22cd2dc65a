---------------------------- MODULE RankingProofs ----------------------------
(***************************************************************************)
(* The order credentials are ranked by: for any candidates and readings it   *)
(* names exactly one.                                                       *)
(***************************************************************************)
EXTENDS Ranking, FiniteSetTheorems, WellFoundedInduction, TLAPS

(* Candidates with their scores, as routing compares them.                   *)
Ranks(score) ==
    /\ DOMAIN score \subseteq Nat
    /\ score \in [DOMAIN score -> Score]

-----------------------------------------------------------------------------
(* Before is a strict total order.                                          *)
LEMMA BeforeIsTotal ==
    ASSUME NEW score, Ranks(score), NEW a \in DOMAIN score, NEW b \in DOMAIN score, a # b
    PROVE  Before(score, a, b) <=> ~Before(score, b, a)
<1>1. a \in Nat /\ b \in Nat /\ score[a] \in Score /\ score[b] \in Score
  BY DEF Ranks
<1>2. /\ score[a].ok \in BOOLEAN /\ score[a].value \in Int
      /\ score[b].ok \in BOOLEAN /\ score[b].value \in Int
  BY <1>1 DEF Score
<1> QED
  BY <1>1, <1>2 DEF Before

LEMMA BeforeIsTransitive ==
    ASSUME NEW score, Ranks(score), NEW a \in DOMAIN score, NEW b \in DOMAIN score,
           NEW c \in DOMAIN score, Before(score, a, b), Before(score, b, c)
    PROVE  Before(score, a, c)
<1>1. /\ a \in Nat /\ b \in Nat /\ c \in Nat
      /\ score[a] \in Score /\ score[b] \in Score /\ score[c] \in Score
  BY DEF Ranks
<1>2. /\ score[a].ok \in BOOLEAN /\ score[a].value \in Int
      /\ score[b].ok \in BOOLEAN /\ score[b].value \in Int
      /\ score[c].ok \in BOOLEAN /\ score[c].value \in Int
  BY <1>1 DEF Score
<1> QED
  BY <1>1, <1>2 DEF Before

(* Routing is deterministic: whatever the readings, at most one candidate    *)
(* comes first, in the normal ranking as in the last resort                 *)
(* (select.go:237-254, 286-309).                                            *)
THEOREM FirstIsUnique ==
    ASSUME NEW score, Ranks(score), NEW a, NEW b, IsFirst(a, score), IsFirst(b, score)
    PROVE  a = b
<1>1. SUFFICES ASSUME a # b PROVE FALSE
  OBVIOUS
<1>2. a \in DOMAIN score /\ b \in DOMAIN score /\ Before(score, a, b) /\ Before(score, b, a)
  BY <1>1 DEF IsFirst
<1> QED
  BY <1>1, <1>2, BeforeIsTotal

-----------------------------------------------------------------------------
(* What comes before a candidate.                                           *)
Preceding(score, a) == {b \in DOMAIN score : Before(score, b, a)}

LEMMA PrecedingShrinks ==
    ASSUME NEW score, Ranks(score), NEW a \in DOMAIN score, NEW b \in Preceding(score, a)
    PROVE  Preceding(score, b) \subseteq Preceding(score, a) /\ b \notin Preceding(score, b)
<1>1. b \in DOMAIN score /\ Before(score, b, a)
  BY DEF Preceding
<1>2. \A c \in Preceding(score, b) : c \in DOMAIN score /\ Before(score, c, a)
  BY <1>1, BeforeIsTransitive DEF Preceding
<1>3. ~Before(score, b, b)
  BY <1>1 DEF Ranks, Score, Before
<1> QED
  BY <1>2, <1>3 DEF Preceding

(* And there is always an answer: among finitely many candidates, one comes  *)
(* first, measured or not.                                                  *)
THEOREM FirstExists ==
    ASSUME NEW score, Ranks(score), IsFiniteSet(DOMAIN score), DOMAIN score # {}
    PROVE  \E a \in DOMAIN score : IsFirst(a, score)
<1> DEFINE D == DOMAIN score
           P == {Preceding(score, a) : a \in D}
<1>1. IsWellFoundedOn(StrictSubsetOrdering(D), SUBSET D)
  BY FS_StrictSubsetOrderingWellFounded, FS_FiniteSubsetsOfFinite
<1>2. P \subseteq SUBSET D /\ P # {}
  BY DEF Preceding
<1>3. PICK least \in P : \A other \in P : <<other, least>> \notin StrictSubsetOrdering(D)
  BY <1>1, <1>2, WFMin
<1>4. PICK a \in D : least = Preceding(score, a)
  BY <1>3
<1>5. ASSUME NEW b \in D, Before(score, b, a)
      PROVE  FALSE
  <2>1. b \in least
    BY <1>4, <1>5 DEF Preceding
  <2>2. Preceding(score, b) \subseteq least /\ b \notin Preceding(score, b)
    BY <1>4, <2>1, PrecedingShrinks
  <2>3. <<Preceding(score, b), least>> \in StrictSubsetOrdering(D)
    BY <1>2, <2>1, <2>2 DEF StrictSubsetOrdering, Preceding
  <2> QED
    BY <1>3, <2>3
<1>6. \A b \in D \ {a} : Before(score, a, b)
  BY <1>5, BeforeIsTotal
<1> QED
  BY <1>6 DEF IsFirst
=============================================================================
