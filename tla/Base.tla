-------------------------------- MODULE Base --------------------------------
(***************************************************************************)
(* What every module of the pool shares: the credentials and the clock.     *)
(*                                                                         *)
(* A credential is identified by its token (the 12 hex digits the host      *)
(* hashes out of the api-key and the base URL).  Tokens are natural numbers  *)
(* here so that "<" stands for the lexicographic order of candidate IDs that *)
(* breaks ties between credentials.                                         *)
(***************************************************************************)
EXTENDS Integers

CONSTANTS Token,     \* the credentials that may ever be configured
          Provider,  \* the provider groups of config.yaml
          MaxTime    \* bound: the clock stops here

ASSUME TokenAssumption == Token \subseteq Nat
ASSUME MaxTimeAssumption == MaxTime \in Nat \ {0}

VARIABLE now         \* the injected clock, Service.now

(* The zero time.Time, which the code uses for "never happened".            *)
Never == 0

ClockInit == now = 1

Tick == /\ now < MaxTime
        /\ now' = now + 1
=============================================================================
