----------------------------- MODULE StableIds ------------------------------
(***************************************************************************)
(* Key discovery (internal/keysource): LoadKeys walks the entries of         *)
(* config.yaml and asks a Generator for each token; the host's own generator *)
(* walks the same file.  Candidates can be matched to api-keys only if both  *)
(* arrive at the same tokens.                                               *)
(*                                                                         *)
(* The digest is taken to be ideal: it stands for the pair of kind and parts *)
(* it is made of, and 12 digits of it never collide.                        *)
(***************************************************************************)
EXTENDS Integers, Sequences, FiniteSets

CONSTANTS Kind,        \* provider names after lower-casing and trimming
          Part,        \* api-key, base-url and proxy-url of an entry
          NoKey,       \* those of the parts whose api-key is empty
          Foreign,     \* those whose base-url the prefix does not match
          MaxEntries   \* bound: entries in config.yaml

ASSUME PartsAssumption == NoKey \subseteq Part /\ Foreign \subseteq Part
ASSUME MaxEntriesAssumption == MaxEntries \in Nat

VARIABLES entries,     \* the api-key-entries, providers one after the other
          next,        \* the entry the loop looks at
          counters,    \* Generator.counters, of the digests seen
          loaded       \* LoadKeys' answer so far

Entry == [kind : Kind, parts : Part, disabled : BOOLEAN]

Digest == Kind \X Part
DigestOf(entry) == <<entry.kind, entry.parts>>

(* The suffix "-N" is left out for the first.                               *)
TokenOf(entry, index) == [digest |-> DigestOf(entry), suffix |-> index]

Reported(entry) == entry.parts \notin Foreign \cup NoKey

IdsVars == <<entries, next, counters, loaded>>

IdsInit ==
    /\ entries \in UNION {[1..n -> Entry] : n \in 0..MaxEntries}
    /\ next = 1
    /\ counters = [d \in {} |-> 0]
    /\ loaded = <<>>

(* A missing map entry reads as zero.                                       *)
Count(d) == IF d \in DOMAIN counters THEN counters[d] ELSE 0

(* Mutant of Advance: the count is read and not moved on.                    *)
AdvanceForgets(entry) ==
    counters' = [d \in DOMAIN counters \cup {DigestOf(entry)} |-> Count(d)]

(* Generator.Next counts the digest, whoever asks.                           *)
Advance(entry) ==
    counters' = [d \in DOMAIN counters \cup {DigestOf(entry)} |->
                    IF d = DigestOf(entry) THEN Count(d) + 1 ELSE counters[d]]

(* Mutant of Skip: providers that are off are counted too.                   *)
SkipCounted ==
    /\ next \in DOMAIN entries
    /\ entries[next].disabled
    /\ next' = next + 1
    /\ Advance(entries[next])
    /\ UNCHANGED <<entries, loaded>>

(* A disabled provider is passed over before the generator sees it.          *)
Skip ==
    /\ next \in DOMAIN entries
    /\ entries[next].disabled
    /\ next' = next + 1
    /\ UNCHANGED <<entries, counters, loaded>>

(* The generator advances for every entry of an enabled provider; reported   *)
(* are those under the prefix that have a key.                              *)
Resolve ==
    LET entry == entries[next]
        found == [at |-> next, token |-> TokenOf(entry, Count(DigestOf(entry)))]
    IN  /\ next \in DOMAIN entries
        /\ ~entry.disabled
        /\ next' = next + 1
        /\ Advance(entry)
        /\ loaded' = IF Reported(entry) THEN Append(loaded, found) ELSE loaded
        /\ UNCHANGED entries

IdsNext == Skip \/ Resolve
IdsSpec == IdsInit /\ [][IdsNext]_IdsVars

-----------------------------------------------------------------------------
(* The host's recipe (SPEC.md:134-138): the Nth entry of an enabled provider *)
(* with the same kind and parts carries the suffix N - 1.                    *)
HostToken(n) ==
    TokenOf(entries[n], Cardinality({m \in 1..(n - 1) : /\ ~entries[m].disabled
                                                        /\ DigestOf(entries[m]) = DigestOf(entries[n])}))

(* The type invariant of key discovery.                                     *)
IdsTypeOK ==
    /\ \A n \in DOMAIN entries : entries[n] \in Entry
    /\ next \in Nat \ {0}
    /\ DOMAIN counters \subseteq Digest
    /\ counters \in [DOMAIN counters -> Nat \ {0}]
    /\ loaded \in Seq([at : Nat, token : [digest : Digest, suffix : Nat]])

(* LoadKeys reports exactly the usable entries, in file order, each under    *)
(* the token the host gives it, whatever lies between two duplicates:        *)
(* disabled providers, foreign base URLs, empty keys (configfile.go:58-77).  *)
TokensMatchHost ==
    /\ \A k \in DOMAIN loaded : loaded[k].token = HostToken(loaded[k].at)
    /\ {loaded[k].at : k \in DOMAIN loaded} =
          {n \in 1..(next - 1) : n \in DOMAIN entries /\ ~entries[n].disabled /\ Reported(entries[n])}

(* No two keys share a token, also when the same key is listed twice: else   *)
(* Registry.Sync would drop one of them silently (registry.go:94-97).        *)
TokensDistinct ==
    \A j, k \in DOMAIN loaded : loaded[j].token = loaded[k].token => j = k
=============================================================================
