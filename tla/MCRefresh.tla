----------------------------- MODULE MCRefresh ------------------------------
(* Workers and handlers are interchangeable.                                *)
EXTENDS Refresh, TLC

MCSymmetry == Permutations(Worker) \cup Permutations(Handler)
=============================================================================
