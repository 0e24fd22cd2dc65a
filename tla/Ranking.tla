------------------------------ MODULE Ranking -------------------------------
(***************************************************************************)
(* The order in which pool/select.go prefers credentials, for the normal     *)
(* choice as for the last resort: scored before unscored, the lower score    *)
(* first, and the candidate ID between equals.  "score" gives each candidate *)
(* a Score.                                                                 *)
(***************************************************************************)
EXTENDS Usage

Before(score, a, b) ==
    \/ score[a].ok /\ ~score[b].ok
    \/ score[a].ok /\ score[b].ok /\ score[a].value < score[b].value
    \/ /\ score[a].ok <=> score[b].ok
       /\ score[a].ok => score[a].value = score[b].value
       /\ a < b

IsFirst(a, score) ==
    /\ a \in DOMAIN score
    /\ \A b \in DOMAIN score \ {a} : Before(score, a, b)
=============================================================================
