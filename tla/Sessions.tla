------------------------------ MODULE Sessions ------------------------------
(***************************************************************************)
(* The sticky bindings (internal/pool/sessions.go): a session and a provider *)
(* to a token, with a sliding expiry and a bound kept by evicting the least  *)
(* recently used.  Every method runs under the table's lock and reads the    *)
(* clock inside it, so each is one atomic action at the time now.            *)
(*                                                                         *)
(* The code keeps recency as a linked list, front first.  Here it is the     *)
(* order of that list: <<a, b>> \in newer when a stands before b.            *)
(***************************************************************************)
EXTENDS Base, FiniteSets

CONSTANTS Session,     \* session header values
          TTLs,        \* session_ttl values a configuration may set
          Maxes        \* max_sessions values a configuration may set

ASSUME TTLAssumption == TTLs \subseteq Nat \ {0}
ASSUME MaxesAssumption == Maxes \subseteq Nat \ {0}

VARIABLES items,       \* the bindings
          newer,       \* the recency order of their keys
          ttl, max     \* the current session_ttl and max_sessions

Key == Session \X Provider
Binding == [token : Token, expiry : Nat]

Bound == DOMAIN items

Expired(binding) == now >= binding.expiry
Live(k) == k \in Bound /\ ~Expired(items[k])

(* MoveToFront and PushFront: k before every other key, the rest unmoved.    *)
ToFront(k) ==
    {e \in newer : e[1] # k /\ e[2] # k} \cup ({k} \X (Bound \ {k}))

(* The order that is left when only the keys of S stay in the list.          *)
Among(S, order) == order \cap (S \X S)

(* What trimming the list "keys" from its back down to n entries leaves.     *)
Trimmed(keys, order, n, kept) ==
    /\ kept \subseteq keys
    /\ \A k \in kept, gone \in keys \ kept : <<k, gone>> \in order
    /\ Cardinality(kept) <= n
    /\ kept = keys \/ Cardinality(kept) = n

(* Mutant of Keep: the map entry goes, the list element stays.               *)
KeepInList(S) == items' = [k \in S |-> items[k]] /\ newer' = newer

Keep(S) ==
    /\ items' = [k \in S |-> items[k]]
    /\ newer' = Among(S, newer)

-----------------------------------------------------------------------------
SessionsInit ==
    /\ ClockInit
    /\ items = [k \in {} |-> Never]
    /\ newer = {}
    /\ ttl \in TTLs
    /\ max \in Maxes

(* Mutant of Configure: a smaller max waits for the next Bind.               *)
ConfigureLazily(newTTL, newMax) ==
    /\ ttl' = newTTL
    /\ max' = newMax
    /\ UNCHANGED <<items, newer>>

(* Mutant of Configure: the table is made anew, as NewSessions makes it.     *)
ConfigureAnew(newTTL, newMax) ==
    /\ ttl' = newTTL
    /\ max' = newMax
    /\ Keep({})

(* A shorter ttl does not touch the expiry of bindings already made; a       *)
(* smaller max evicts at once.                                              *)
Configure(newTTL, newMax) ==
    /\ ttl' = newTTL
    /\ max' = newMax
    /\ \E kept \in SUBSET Bound : Trimmed(Bound, newer, newMax, kept) /\ Keep(kept)

(* A binding made, renewed or pointed at another token expires a full ttl    *)
(* from now; only a new key can push others out.                            *)
Bind(k, token) ==
    LET fresh == [token |-> token, expiry |-> now + ttl]
        all   == [j \in Bound \cup {k} |-> IF j = k THEN fresh ELSE items[j]]
    IN  /\ UNCHANGED <<ttl, max>>
        /\ \E kept \in SUBSET DOMAIN all :
              /\ IF k \in Bound
                   THEN kept = Bound
                   ELSE Trimmed(DOMAIN all, ToFront(k), max, kept)
              /\ items' = [j \in kept |-> all[j]]
              /\ newer' = Among(kept, ToFront(k))

(* Mutant of Get: a binding is renewed, expired or not.                      *)
GetRenewsExpired(k) ==
    /\ UNCHANGED <<ttl, max>>
    /\ \/ /\ k \notin Bound
          /\ UNCHANGED <<items, newer>>
       \/ /\ k \in Bound
          /\ items' = [items EXCEPT ![k].expiry = now + ttl]
          /\ newer' = ToFront(k)

(* Get on a live binding renews its expiry and its recency; on an expired    *)
(* one it drops it, and the caller sees no binding.                         *)
Get(k) ==
    /\ UNCHANGED <<ttl, max>>
    /\ \/ /\ k \notin Bound
          /\ UNCHANGED <<items, newer>>
       \/ /\ k \in Bound
          /\ Expired(items[k])
          /\ Keep(Bound \ {k})
       \/ /\ Live(k)
          /\ items' = [items EXCEPT ![k].expiry = now + ttl]
          /\ newer' = ToFront(k)

(* Mutant of DropToken: the binding is blanked, not removed.                 *)
DropTokenBlanks(token) ==
    /\ UNCHANGED <<newer, ttl, max>>
    /\ items' = [k \in Bound |-> IF items[k].token = token
                                   THEN [items[k] EXCEPT !.token = Never]
                                   ELSE items[k]]

DropToken(token) ==
    /\ UNCHANGED <<ttl, max>>
    /\ Keep({k \in Bound : items[k].token # token})

(* Sweep, and Len, which sweeps before it counts.  Reset is no step of the   *)
(* running program: sessions_test.go is its only caller.                    *)
Sweep ==
    /\ UNCHANGED <<ttl, max>>
    /\ Keep({k \in Bound : ~Expired(items[k])})

-----------------------------------------------------------------------------
SessionsStep ==
    \/ \E newTTL \in TTLs, newMax \in Maxes : Configure(newTTL, newMax)
    \/ \E k \in Key, token \in Token : Bind(k, token)
    \/ \E k \in Key : Get(k)
    \/ \E token \in Token : DropToken(token)
    \/ Sweep

SessionsNext ==
    \/ Tick /\ UNCHANGED <<items, newer, ttl, max>>
    \/ SessionsStep /\ UNCHANGED now

SessionsVars == <<now, items, newer, ttl, max>>
SessionsSpec == SessionsInit /\ [][SessionsNext]_SessionsVars

-----------------------------------------------------------------------------
(* The type invariant of the binding table.                                 *)
SessionsTypeOK ==
    /\ now \in Nat \ {0}
    /\ Bound \subseteq Key
    /\ items \in [Bound -> Binding]
    /\ newer \subseteq Key \X Key
    /\ ttl \in Nat \ {0}
    /\ max \in Nat \ {0}

StrictOrder(order, S) ==
    /\ order \subseteq S \X S
    /\ \A a \in S : <<a, a>> \notin order
    /\ \A a, b \in S : a # b => (<<a, b>> \in order <=> <<b, a>> \notin order)
    /\ \A a, b, c \in S : <<a, b>> \in order /\ <<b, c>> \in order => <<a, c>> \in order

(* The map and the list hold the same keys and the list is a list: recency   *)
(* is a strict total order of exactly the bound keys, after any sequence of  *)
(* binds, renewals, drops, sweeps and evictions (sessions.go:117-214).       *)
RecencyIsOrder == StrictOrder(newer, Bound)

(* The table never holds more than max_sessions bindings, also when a reload *)
(* lowers the bound under it (sessions.go:46-65, 135-141).                   *)
WithinCapacity == Cardinality(Bound) <= max

(* Real pressure on a binding: the table is full without it, and every       *)
(* binding that was there before and stays was used more recently.          *)
LostToPressure(k) ==
    /\ Cardinality(DOMAIN items') = max'
    /\ \A j \in Bound \cap DOMAIN items' : <<j, k>> \in newer

(* One token's bindings go and nothing else changes.                         *)
OnlyGoes(token) ==
    /\ UNCHANGED <<ttl, max>>
    /\ items' = [k \in {j \in Bound : items[j].token # token} |-> items[k]]

(* No live binding disappears by any other cause, one at a time or in bulk:  *)
(* a reload that reconfigures the table keeps what fits, an eviction takes   *)
(* the least recently used, a dropped token takes exactly its own bindings   *)
(* and a sweep none (sessions.go:43-225).                                   *)
LiveBindingsSurvive ==
    [][\A k \in Bound \ DOMAIN items' :
          \/ Expired(items[k])
          \/ LostToPressure(k)
          \/ OnlyGoes(items[k].token)]_SessionsVars
=============================================================================
