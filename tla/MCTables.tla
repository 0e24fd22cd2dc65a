------------------------------ MODULE MCTables ------------------------------
(* The parts of the pool that run under one lock or in one goroutine, each   *)
(* on its own: an initial state picks the part that runs, the others rest.   *)
EXTENDS Registry, Sessions, FallbackScan, StableIds, Defaults

VARIABLE part

(* A healthy answer, one that is exhausted in a form that needs decoding,    *)
(* and two that are no reading at all.                                      *)
Absent == [given |-> FALSE, status |-> "", form |-> "missing", value |-> 0]
Sent(status, form, value) ==
    [given |-> TRUE, status |-> status, form |-> form, value |-> value]
Answer(decodes, rolling, weekly) ==
    [decodes |-> decodes, rolling |-> rolling, weekly |-> weekly, monthly |-> Absent]

Answers == {Answer(TRUE, Sent("ok", "number", 10), Absent),
            Answer(TRUE, Sent("", "other", 10), Sent("limited", "text", 100)),
            Answer(TRUE, Absent, Absent),
            Answer(FALSE, Absent, Absent)}

MCReading == {Parse(a) : a \in {b \in Answers : Parses(b)}}

(* Written and unwritten knobs.                                             *)
Written == [sessionTTL : {-1, 0, 1}, maxSessions : {0, 1}]

MCTTLs == {ApplyDefaults(raw).sessionTTL : raw \in Written}
MCMaxes == {ApplyDefaults(raw).maxSessions : raw \in Written}

RegistryRests == keys = [t \in {} |-> Fresh(t)]
SessionsRest  == items = [k \in {} |-> Never] /\ newer = {} /\ ttl = 1 /\ max = 1
ScanRests     == list = <<>> /\ peak = <<>> /\ i = 1 /\ best = 0 /\ bestMax = 0 /\ released = {}
IdsRest       == entries = <<>> /\ next = 1 /\ counters = <<>> /\ loaded = <<>>

TablesInit ==
    \/ part = "registry" /\ RegistryInit /\ SessionsRest /\ ScanRests /\ IdsRest
    \/ part = "sessions" /\ RegistryRests /\ SessionsInit /\ ScanRests /\ IdsRest
    \/ part = "scan" /\ ClockInit /\ RegistryRests /\ SessionsRest /\ ScanInit /\ IdsRest
    \/ part = "ids" /\ ClockInit /\ RegistryRests /\ SessionsRest /\ ScanRests /\ IdsInit

TablesNext ==
    /\ UNCHANGED part
    /\ \/ /\ part = "registry"
          /\ RegistryNext
          /\ UNCHANGED <<items, newer, ttl, max, ScanVars, IdsVars>>
       \/ /\ part = "sessions"
          /\ SessionsNext
          /\ UNCHANGED <<keys, ScanVars, IdsVars>>
       \/ /\ part = "scan"
          /\ ScanNext
          /\ UNCHANGED <<RegistryVars, SessionsVars, IdsVars>>
       \/ /\ part = "ids"
          /\ IdsNext
          /\ UNCHANGED <<RegistryVars, SessionsVars, ScanVars>>

TablesSpec == TablesInit /\ [][TablesNext]_<<part, RegistryVars, SessionsVars, ScanVars, IdsVars>>
=============================================================================
