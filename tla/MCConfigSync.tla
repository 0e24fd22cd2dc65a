---------------------------- MODULE MCConfigSync ----------------------------
(* A credential that comes and goes beside one that stays, and three plugin  *)
(* configurations: a wide prefix, a narrow one, and no path at all.          *)
EXTENDS ConfigSync

MCContents == {{1}, {1, 2}}
MCConfigs == {[path |-> TRUE, prefix |-> {1, 2}],
              [path |-> TRUE, prefix |-> {1}],
              [path |-> FALSE, prefix |-> {1, 2}]}
OnlyWide == {[path |-> TRUE, prefix |-> {1, 2}]}
=============================================================================
