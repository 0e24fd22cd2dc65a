---------------------------- MODULE ConfigMirror ----------------------------
(***************************************************************************)
(* What the config sync promises of the credential table: it shows one       *)
(* version of config.yaml, through one of the configured prefixes, never an  *)
(* earlier version than before, and gains credentials only by such a read.   *)
(* In between it only loses some, one by one.                               *)
(***************************************************************************)
EXTENDS Integers

CONSTANTS Token,
          Prefixes   \* the tokens that a configured base_url_prefix lets in

VARIABLES contents,  \* what each version of config.yaml lists
          shown,     \* the version the table shows, 0 before the first
          table      \* the tokens in the table

MirrorVars == <<contents, shown, table>>

Versions == DOMAIN contents

MirrorInit ==
    /\ \E lists \in SUBSET Token : contents = [v \in {1} |-> lists]
    /\ shown = 0
    /\ table = {}

(* A new version of the file.  The earlier ones stay what they were.         *)
Write(new, lists) ==
    /\ \A v \in Versions : new > v
    /\ contents' = [v \in Versions \cup {new} |-> IF v = new THEN lists ELSE contents[v]]
    /\ UNCHANGED <<shown, table>>

(* A version is read and the table replaced by what it lists.                *)
Adopt(version, prefix) ==
    /\ version >= shown
    /\ shown' = version
    /\ table' = contents[version] \cap prefix
    /\ UNCHANGED contents

(* A credential is pruned.                                                  *)
Shrink(t) == table' = table \ {t} /\ UNCHANGED <<contents, shown>>

MirrorNext ==
    \/ \E new \in DOMAIN contents', lists \in SUBSET Token : Write(new, lists)
    \/ \E version \in Versions, prefix \in Prefixes : Adopt(version, prefix)
    \/ \E t \in table : Shrink(t)

MirrorSpec == MirrorInit /\ [][MirrorNext]_MirrorVars
=============================================================================
