------------------------------ MODULE Defaults ------------------------------
(***************************************************************************)
(* The plugin's own section of config.yaml (internal/pluginconfig): what the *)
(* pool gets to see of what an operator wrote.                              *)
(***************************************************************************)
EXTENDS Integers

CONSTANTS DefaultSessionTTL, DefaultMaxSessions

ASSUME DefaultsAssumption ==
    DefaultSessionTTL \in Nat \ {0} /\ DefaultMaxSessions \in Nat \ {0}

(* A knob that is missing reads as zero; it may also be negative.            *)
Raw == [sessionTTL : Int, maxSessions : Int]

ApplyDefaults(raw) ==
    [raw EXCEPT !.sessionTTL  = IF @ <= 0 THEN DefaultSessionTTL ELSE @,
                !.maxSessions = IF @ <= 0 THEN DefaultMaxSessions ELSE @]
=============================================================================
