--------------------------- MODULE SessionsProofs ---------------------------
(***************************************************************************)
(* What holds of the binding table for any sessions, providers, tokens, and  *)
(* any ttl and capacity a configuration may set.                            *)
(***************************************************************************)
EXTENDS Sessions, FiniteSetTheorems, TLAPS

(* The capacity needs the set of bound keys to be finite, and what an        *)
(* eviction leaves is only well defined because recency is an order.        *)
SessionsInv ==
    /\ SessionsTypeOK
    /\ IsFiniteSet(Bound)
    /\ RecencyIsOrder
    /\ WithinCapacity

(* Restricting an order to fewer keys leaves an order: removing list         *)
(* elements never disturbs the rest.                                        *)
LEMMA AmongOrder ==
    ASSUME NEW order, NEW S, NEW T \in SUBSET S, StrictOrder(order, S)
    PROVE  StrictOrder(Among(T, order), T)
<1>1. \A a, b : <<a, b>> \in Among(T, order) <=> <<a, b>> \in order /\ a \in T /\ b \in T
  BY DEF Among
<1>2. Among(T, order) \subseteq T \X T
  BY DEF Among
<1>3. \A a \in T : <<a, a>> \notin Among(T, order)
  BY <1>1 DEF StrictOrder
<1>4. \A a, b \in T : a # b =>
        (<<a, b>> \in Among(T, order) <=> <<b, a>> \notin Among(T, order))
  BY <1>1 DEF StrictOrder
<1>5. \A a, b, c \in T :
        <<a, b>> \in Among(T, order) /\ <<b, c>> \in Among(T, order)
          => <<a, c>> \in Among(T, order)
  <2> TAKE a, b, c \in T
  <2>1. a \in S /\ b \in S /\ c \in S
    OBVIOUS
  <2> QED
    BY <1>1, <2>1 DEF StrictOrder
<1> QED
  BY <1>2, <1>3, <1>4, <1>5 DEF StrictOrder

(* Which pairs MoveToFront leaves.                                          *)
LEMMA ToFrontPairs ==
    ASSUME NEW k, NEW a, NEW b
    PROVE  <<a, b>> \in ToFront(k) <=>
             \/ <<a, b>> \in newer /\ a # k /\ b # k
             \/ a = k /\ b \in Bound /\ b # k
  BY DEF ToFront

(* MoveToFront and PushFront leave an order of the old keys and k.           *)
LEMMA ToFrontOrder ==
    ASSUME NEW k, RecencyIsOrder
    PROVE  StrictOrder(ToFront(k), Bound \cup {k})
<1> DEFINE S == Bound \cup {k}
<1>1. ToFront(k) \subseteq S \X S
  BY DEF RecencyIsOrder, StrictOrder, ToFront
<1>2. \A a \in S : <<a, a>> \notin ToFront(k)
  BY ToFrontPairs DEF RecencyIsOrder, StrictOrder
<1>3. \A a, b \in S : a # b => (<<a, b>> \in ToFront(k) <=> <<b, a>> \notin ToFront(k))
  BY ToFrontPairs DEF RecencyIsOrder, StrictOrder
<1>4. \A a, b, c \in S :
        <<a, b>> \in ToFront(k) /\ <<b, c>> \in ToFront(k) => <<a, c>> \in ToFront(k)
  BY ToFrontPairs DEF RecencyIsOrder, StrictOrder
<1> QED
  BY <1>1, <1>2, <1>3, <1>4 DEF StrictOrder

-----------------------------------------------------------------------------
(* Dropping any bindings, whichever call does it, preserves the invariant.   *)
LEMMA KeepInv ==
    ASSUME SessionsInv, NEW S \in SUBSET Bound, Keep(S),
           now' \in Nat \ {0}, ttl' \in Nat \ {0}, max' \in Nat \ {0},
           Cardinality(S) <= max'
    PROVE  SessionsInv'
<1>1. Bound' = S
  BY DEF Keep, Bound
<1>2. items' \in [S -> Binding] /\ S \subseteq Key
  BY DEF Keep, SessionsInv, SessionsTypeOK, Bound
<1>3. IsFiniteSet(S)
  BY FS_Subset DEF SessionsInv
<1>4. StrictOrder(newer', S)
  BY AmongOrder DEF Keep, SessionsInv, RecencyIsOrder
<1>5. newer' \subseteq Key \X Key
  BY <1>2, <1>4 DEF StrictOrder
<1> QED
  BY <1>1, <1>2, <1>3, <1>4, <1>5
  DEF SessionsInv, SessionsTypeOK, RecencyIsOrder, WithinCapacity, Bound

(* Fewer bindings fit wherever more did.                                    *)
LEMMA FewerFit ==
    ASSUME SessionsInv, NEW S \in SUBSET Bound
    PROVE  Cardinality(S) <= max
<1>1. Cardinality(S) <= Cardinality(Bound) /\ Cardinality(S) \in Nat /\ Cardinality(Bound) \in Nat
  BY FS_Subset, FS_CardinalityType DEF SessionsInv
<1> QED
  BY <1>1 DEF SessionsInv, WithinCapacity, SessionsTypeOK

LEMMA BindInv ==
    ASSUME SessionsInv, UNCHANGED now, NEW k \in Key, NEW token \in Token, Bind(k, token)
    PROVE  SessionsInv'
<1> DEFINE fresh == [token |-> token, expiry |-> now + ttl]
           all   == [j \in Bound \cup {k} |-> IF j = k THEN fresh ELSE items[j]]
<1>1. PICK kept \in SUBSET DOMAIN all :
        /\ IF k \in Bound THEN kept = Bound
                          ELSE Trimmed(DOMAIN all, ToFront(k), max, kept)
        /\ items' = [j \in kept |-> all[j]]
        /\ newer' = Among(kept, ToFront(k))
  BY DEF Bind
<1>2. Bound' = kept /\ kept \subseteq Bound \cup {k} /\ kept \subseteq Key
  BY <1>1 DEF Bound, SessionsInv, SessionsTypeOK
<1>3. items' \in [kept -> Binding]
  <2>1. fresh \in Binding
    BY DEF Binding, SessionsInv, SessionsTypeOK
  <2>2. \A j \in kept : all[j] \in Binding
    BY <1>2, <2>1 DEF SessionsInv, SessionsTypeOK
  <2> QED
    BY <1>1, <2>2
<1>4. IsFiniteSet(kept)
  <2>1. IsFiniteSet(Bound \cup {k})
    BY FS_AddElement DEF SessionsInv
  <2> QED
    BY <1>2, <2>1, FS_Subset
<1>5. StrictOrder(newer', kept)
  <2>1. StrictOrder(ToFront(k), Bound \cup {k})
    BY ToFrontOrder DEF SessionsInv
  <2> QED
    BY <1>1, <1>2, <2>1, AmongOrder
<1>6. newer' \subseteq Key \X Key
  BY <1>2, <1>5 DEF StrictOrder
<1>7. Cardinality(kept) <= max
  BY <1>1 DEF Trimmed, SessionsInv, WithinCapacity
<1>8. UNCHANGED <<now, ttl, max>>
  BY DEF Bind
<1> QED
  BY <1>2, <1>3, <1>4, <1>5, <1>6, <1>7, <1>8
  DEF SessionsInv, SessionsTypeOK, RecencyIsOrder, WithinCapacity, Bound

LEMMA GetInv ==
    ASSUME SessionsInv, UNCHANGED now, NEW k \in Key, Get(k)
    PROVE  SessionsInv'
<1>1. UNCHANGED <<now, ttl, max>> /\ now \in Nat \ {0} /\ ttl \in Nat \ {0} /\ max \in Nat \ {0}
  BY DEF Get, SessionsInv, SessionsTypeOK
<1>2. CASE UNCHANGED <<items, newer>>
  BY <1>1, <1>2
  DEF SessionsInv, SessionsTypeOK, RecencyIsOrder, WithinCapacity, Bound
<1>3. CASE Keep(Bound \ {k})
  BY <1>1, <1>3, KeepInv, FewerFit
<1>4. CASE /\ Live(k)
           /\ items' = [items EXCEPT ![k].expiry = now + ttl]
           /\ newer' = ToFront(k)
  <2>1. k \in Bound
    BY <1>4 DEF Live
  <2>2. Bound' = Bound
    BY <1>4 DEF Bound
  <2>3. items' \in [Bound -> Binding]
    <3>1. items[k] \in Binding /\ now + ttl \in Nat
      BY <1>1, <2>1 DEF SessionsInv, SessionsTypeOK
    <3>2. [items[k] EXCEPT !.expiry = now + ttl] \in Binding
      BY <3>1 DEF Binding
    <3> QED
      BY <1>4, <2>1, <3>2 DEF SessionsInv, SessionsTypeOK
  <2>4. StrictOrder(newer', Bound)
    <3>1. Bound \cup {k} = Bound
      BY <2>1
    <3> QED
      BY <1>4, <3>1, ToFrontOrder DEF SessionsInv
  <2>5. newer' \subseteq Key \X Key
    BY <2>4 DEF StrictOrder, SessionsInv, SessionsTypeOK
  <2> QED
    BY <1>1, <2>2, <2>3, <2>4, <2>5
    DEF SessionsInv, SessionsTypeOK, RecencyIsOrder, WithinCapacity, Bound
<1> QED
  BY <1>2, <1>3, <1>4 DEF Get

LEMMA StepInv ==
    ASSUME SessionsInv, UNCHANGED now, SessionsStep
    PROVE  SessionsInv'
<1>1. now \in Nat \ {0} /\ ttl \in Nat \ {0} /\ max \in Nat \ {0}
  BY DEF SessionsInv, SessionsTypeOK
<1>2. CASE \E newTTL \in TTLs, newMax \in Maxes : Configure(newTTL, newMax)
  <2>1. PICK newTTL \in TTLs, newMax \in Maxes : Configure(newTTL, newMax)
    BY <1>2
  <2>2. PICK kept \in SUBSET Bound : Trimmed(Bound, newer, newMax, kept) /\ Keep(kept)
    BY <2>1 DEF Configure
  <2>3. newTTL \in Nat \ {0} /\ newMax \in Nat \ {0} /\ ttl' = newTTL /\ max' = newMax
    BY <2>1, TTLAssumption, MaxesAssumption DEF Configure
  <2>4. Cardinality(kept) <= max'
    BY <2>2, <2>3 DEF Trimmed
  <2> QED
    BY <1>1, <2>2, <2>3, <2>4, KeepInv
<1>3. CASE \E k \in Key, token \in Token : Bind(k, token)
  BY <1>3, BindInv
<1>4. CASE \E k \in Key : Get(k)
  BY <1>4, GetInv
<1>5. CASE \E token \in Token : DropToken(token)
  <2>1. PICK token \in Token : DropToken(token)
    BY <1>5
  <2> DEFINE S == {k \in Bound : items[k].token # token}
  <2>2. Keep(S) /\ UNCHANGED <<ttl, max>> /\ S \in SUBSET Bound
    BY <2>1 DEF DropToken
  <2> QED
    BY <1>1, <2>2, KeepInv, FewerFit
<1>6. CASE Sweep
  <2> DEFINE S == {k \in Bound : ~Expired(items[k])}
  <2>1. Keep(S) /\ UNCHANGED <<ttl, max>> /\ S \in SUBSET Bound
    BY <1>6 DEF Sweep
  <2> QED
    BY <1>1, <2>1, KeepInv, FewerFit
<1> QED
  BY <1>2, <1>3, <1>4, <1>5, <1>6 DEF SessionsStep

LEMMA SessionsNextInv == SessionsInv /\ [SessionsNext]_SessionsVars => SessionsInv'
<1> SUFFICES ASSUME SessionsInv, [SessionsNext]_SessionsVars
             PROVE  SessionsInv'
  OBVIOUS
<1>1. CASE Tick /\ UNCHANGED <<items, newer, ttl, max>>
  BY <1>1
  DEF Tick, SessionsInv, SessionsTypeOK, RecencyIsOrder, WithinCapacity, Bound
<1>2. CASE SessionsStep /\ UNCHANGED now
  BY <1>2, StepInv
<1>3. CASE UNCHANGED SessionsVars
  BY <1>3
  DEF SessionsVars, SessionsInv, SessionsTypeOK, RecencyIsOrder, WithinCapacity, Bound
<1> QED
  BY <1>1, <1>2, <1>3 DEF SessionsNext

LEMMA SessionsInitInv == SessionsInit => SessionsInv
<1> SUFFICES ASSUME SessionsInit PROVE SessionsInv
  OBVIOUS
<1>1. Bound = {}
  BY DEF SessionsInit, Bound
<1>2. SessionsTypeOK
  BY <1>1, TTLAssumption, MaxesAssumption DEF ClockInit, SessionsInit, SessionsTypeOK, Bound
<1>3. IsFiniteSet(Bound) /\ Cardinality(Bound) = 0
  BY <1>1, FS_EmptySet
<1>4. RecencyIsOrder
  BY <1>1 DEF RecencyIsOrder, StrictOrder, SessionsInit
<1>5. WithinCapacity
  BY <1>2, <1>3 DEF WithinCapacity, SessionsTypeOK
<1> QED
  BY <1>2, <1>3, <1>4, <1>5 DEF SessionsInv

(* The inductive invariant holds in every state.                            *)
THEOREM SessionsInvariant == SessionsSpec => []SessionsInv
  BY SessionsInitInv, SessionsNextInv, PTL DEF SessionsSpec

(* Type correctness of the binding table.                                   *)
THEOREM SessionsTypeCorrect == SessionsSpec => []SessionsTypeOK
<1>1. SessionsInv => SessionsTypeOK
  BY DEF SessionsInv
<1> QED
  BY <1>1, SessionsInvariant, PTL

(* The recency list stays a list of exactly the bound keys.                  *)
THEOREM SessionsOrdered == SessionsSpec => []RecencyIsOrder
<1>1. SessionsInv => RecencyIsOrder
  BY DEF SessionsInv
<1> QED
  BY <1>1, SessionsInvariant, PTL

(* The table never outgrows max_sessions, reloads included.                  *)
THEOREM SessionsBounded == SessionsSpec => []WithinCapacity
<1>1. SessionsInv => WithinCapacity
  BY DEF SessionsInv
<1> QED
  BY <1>1, SessionsInvariant, PTL

-----------------------------------------------------------------------------
(* What trimming takes away, it takes from the back: the reason a live       *)
(* binding can give for being gone.                                         *)
Excused(k) ==
    \/ Expired(items[k])
    \/ LostToPressure(k)
    \/ OnlyGoes(items[k].token)

LEMMA BindPresses ==
    ASSUME NEW k \in Key, NEW token \in Token, Bind(k, token),
           NEW gone \in Bound \ DOMAIN items'
    PROVE  LostToPressure(gone)
<1> DEFINE fresh == [token |-> token, expiry |-> now + ttl]
           all   == [j \in Bound \cup {k} |-> IF j = k THEN fresh ELSE items[j]]
<1>1. PICK kept \in SUBSET DOMAIN all :
        /\ IF k \in Bound THEN kept = Bound
                          ELSE Trimmed(DOMAIN all, ToFront(k), max, kept)
        /\ items' = [j \in kept |-> all[j]]
        /\ newer' = Among(kept, ToFront(k))
  BY DEF Bind
<1>2. DOMAIN items' = kept /\ max' = max
  BY <1>1 DEF Bind
<1>3. k \notin Bound /\ gone \in (Bound \cup {k}) \ kept
  BY <1>1, <1>2
<1>4. Trimmed(Bound \cup {k}, ToFront(k), max, kept)
  BY <1>1, <1>3
<1>5. Cardinality(kept) = max
  BY <1>3, <1>4 DEF Trimmed
<1>6. \A j \in Bound \cap kept : <<j, gone>> \in newer
  <2> TAKE j \in Bound \cap kept
  <2>1. <<j, gone>> \in ToFront(k)
    BY <1>3, <1>4 DEF Trimmed
  <2>2. j # k
    BY <1>3
  <2> QED
    BY <2>1, <2>2, ToFrontPairs
<1> QED
  BY <1>2, <1>5, <1>6 DEF LostToPressure

LEMMA StepExcuses ==
    ASSUME SessionsStep, UNCHANGED now, NEW gone \in Bound \ DOMAIN items'
    PROVE  Excused(gone)
<1>1. CASE \E newTTL \in TTLs, newMax \in Maxes : Configure(newTTL, newMax)
  <2>1. PICK newTTL \in TTLs, newMax \in Maxes : Configure(newTTL, newMax)
    BY <1>1
  <2>2. PICK kept \in SUBSET Bound : Trimmed(Bound, newer, newMax, kept) /\ Keep(kept)
    BY <2>1 DEF Configure
  <2>3. DOMAIN items' = kept /\ max' = newMax
    BY <2>1, <2>2 DEF Keep, Configure
  <2> QED
    BY <2>2, <2>3 DEF Trimmed, Excused, LostToPressure
<1>2. CASE \E k \in Key, token \in Token : Bind(k, token)
  BY <1>2, BindPresses DEF Excused
<1>3. CASE \E k \in Key : Get(k)
  <2>1. PICK k \in Key : Get(k)
    BY <1>3
  <2>2. CASE UNCHANGED <<items, newer>>
    BY <2>2 DEF Bound
  <2>3. CASE Expired(items[k]) /\ Keep(Bound \ {k})
    <3>1. DOMAIN items' = Bound \ {k}
      BY <2>3 DEF Keep
    <3> QED
      BY <2>3, <3>1 DEF Excused
  <2>4. CASE items' = [items EXCEPT ![k].expiry = now + ttl]
    BY <2>4 DEF Bound
  <2> QED
    BY <2>1, <2>2, <2>3, <2>4 DEF Get
<1>4. CASE \E token \in Token : DropToken(token)
  <2>1. PICK token \in Token : DropToken(token)
    BY <1>4
  <2> DEFINE S == {k \in Bound : items[k].token # token}
  <2>2. items' = [k \in S |-> items[k]]
    BY <2>1 DEF DropToken, Keep
  <2>3. items[gone].token = token
    BY <2>2
  <2>4. OnlyGoes(token)
    BY <2>1, <2>2 DEF DropToken, OnlyGoes
  <2> QED
    BY <2>3, <2>4 DEF Excused
<1>5. CASE Sweep
  <2>1. DOMAIN items' = {k \in Bound : ~Expired(items[k])}
    BY <1>5 DEF Sweep, Keep
  <2> QED
    BY <2>1 DEF Excused
<1> QED
  BY <1>1, <1>2, <1>3, <1>4, <1>5 DEF SessionsStep

LEMMA NextExcuses ==
    [SessionsNext]_SessionsVars =>
        [\A k \in Bound \ DOMAIN items' :
            \/ Expired(items[k])
            \/ LostToPressure(k)
            \/ OnlyGoes(items[k].token)]_SessionsVars
<1> SUFFICES ASSUME SessionsNext
             PROVE  \A k \in Bound \ DOMAIN items' : Excused(k)
  BY DEF Excused
<1>1. CASE Tick /\ UNCHANGED <<items, newer, ttl, max>>
  BY <1>1 DEF Bound
<1>2. CASE SessionsStep /\ UNCHANGED now
  BY <1>2, StepExcuses
<1> QED
  BY <1>1, <1>2 DEF SessionsNext

(* A live session loses its binding to a dropped token or to real pressure   *)
(* and to nothing else, for every constant.                                 *)
THEOREM SessionsSurvive == SessionsSpec => LiveBindingsSurvive
  BY NextExcuses, PTL DEF SessionsSpec, LiveBindingsSurvive
=============================================================================
