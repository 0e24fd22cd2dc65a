----------------------------- MODULE MCRouting ------------------------------
(* Two credentials; credential 1 may leave, return, or move to a provider of *)
(* its own; the operator may exclude it, pin to it, or break the config.     *)
EXTENDS Routing, TLC

CONSTANTS s1, g, h

Measured(flagged, percent) ==
    [NoUsage EXCEPT !.rolling = [flagged |-> flagged, hasPercent |-> TRUE, percent |-> percent]]

MCReading == {Measured(FALSE, 10), Measured(TRUE, 50)}

MCSymmetry == Permutations(Request)

AnyOffer  == SUBSET Token
BothAlways == {{1, 2}}

BothListed   == {1 :> g @@ 2 :> g}
ComesAndGoes == {1 :> g @@ 2 :> g, 2 :> g, 1 :> h @@ 2 :> g}
Added        == {2 :> g, 1 :> g @@ 2 :> g}

Plain == [exclude |-> {}, pins |-> <<>>, staleAfter |-> 1,
          ttl |-> 1, max |-> 1, problems |-> FALSE]

OnlyPlain    == {Plain}
Excluding    == {[Plain EXCEPT !.exclude = {1}]}
Reconfigured == {Plain,
                 [Plain EXCEPT !.exclude = {1}, !.problems = TRUE],
                 [Plain EXCEPT !.pins = s1 :> 1, !.max = 2, !.ttl = 2]}
=============================================================================
