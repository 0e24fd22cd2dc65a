----------------------------- MODULE LoopProofs -----------------------------
(***************************************************************************)
(* The two loops that are modelled one iteration at a time, for any input:   *)
(* the last resort of select.go, for any candidates, readings and host       *)
(* order, and key discovery, for every config.yaml: any number of entries,   *)
(* duplicates and entries that are not reported, in any order.               *)
(***************************************************************************)
EXTENDS FallbackScan, StableIds, RankingProofs, SequenceTheorems

-----------------------------------------------------------------------------
(* The loop invariant: the best so far comes before all that was looked at,  *)
(* and while there is none, nothing that was looked at was ever measured.    *)
ScanTypeOK ==
    /\ \E n \in Nat : DOMAIN list = 1..n /\ i \in 1..(n+1)
    /\ DOMAIN peak \subseteq Candidate
    /\ peak \in [DOMAIN peak -> Score]
    /\ \A m \in DOMAIN list : list[m] \in DOMAIN peak
    /\ \A t \in DOMAIN peak : \E m \in DOMAIN list : list[m] = t
    /\ best \in Nat

BestSoFar ==
    IF best = 0
      THEN \A m \in DOMAIN list : m < i => ~peak[list[m]].ok
      ELSE /\ best \in DOMAIN list /\ best < i
           /\ peak[list[best]].ok
           /\ peak[list[best]].value = bestMax
           /\ \A m \in DOMAIN list : m < i /\ list[m] # list[best] =>
                 Before(peak, list[best], list[m])

ScanInv == ScanTypeOK /\ BestSoFar /\ ReleasesTheFirst

LEMMA ScoresAreRanks == ScanTypeOK => Ranks(peak)
  BY CandidateAssumption DEF ScanTypeOK, Ranks

LEMMA ScanInitInv == ScanInit => ScanInv
<1> SUFFICES ASSUME ScanInit PROVE ScanInv
  OBVIOUS
<1>1. PICK S \in SUBSET Candidate :
         /\ list \in [1..Cardinality(S) -> S]
         /\ \A t \in S : \E m \in DOMAIN list : list[m] = t
         /\ peak \in [S -> Scores]
  BY DEF ScanInit
<1>2. Cardinality(S) \in Nat
  BY CandidateAssumption, FS_Subset, FS_CardinalityType
<1>3. Scores \subseteq Score
  <2>1. NoScore \in Score
    BY DEF NoScore, Score
  <2>2. \A v \in Percent : ScoreOf(v) \in Score
    BY PercentAssumption DEF ScoreOf, Score
  <2> QED
    BY <2>1, <2>2 DEF Scores
<1>4. ScanTypeOK
  BY <1>1, <1>2, <1>3 DEF ScanInit, ScanTypeOK
<1>5. \A m \in DOMAIN list : ~(m < i)
  BY <1>1, <1>2 DEF ScanInit
<1> QED
  BY <1>4, <1>5 DEF ScanInit, ScanInv, BestSoFar, ReleasesTheFirst

LEMMA IterateInv == ScanInv /\ Iterate => ScanInv'
<1> SUFFICES ASSUME ScanInv, Iterate PROVE ScanInv'
  OBVIOUS
<1>1. PICK n \in Nat : DOMAIN list = 1..n /\ i \in 1..(n+1)
  BY DEF ScanInv, ScanTypeOK
<1>2. i \in 1..n /\ i' = i + 1 /\ UNCHANGED <<list, peak, released>>
  BY <1>1 DEF Iterate
<1>3. best' = i \/ best' = best
  BY DEF Iterate
<1>4. ScanTypeOK'
  BY <1>1, <1>2, <1>3 DEF ScanInv, ScanTypeOK
<1>5. Ranks(peak)
  BY ScoresAreRanks DEF ScanInv
<1>6. \A m \in DOMAIN list : /\ list[m] \in DOMAIN peak /\ list[m] \in Nat
                             /\ peak[list[m]].ok \in BOOLEAN
                             /\ peak[list[m]].value \in Int
  <2>1. \A m \in DOMAIN list : list[m] \in DOMAIN peak /\ list[m] \in Nat
                               /\ peak[list[m]] \in Score
    BY <1>5 DEF ScanInv, ScanTypeOK, Ranks
  <2> QED
    BY <2>1 DEF Score
<1>7. \A m \in DOMAIN list : m < i' <=> m < i \/ m = i
  BY <1>1, <1>2
<1>8. BestSoFar'
  <2>1. CASE Improves(i)
    <3>1. best' = i /\ bestMax' = peak[list[i]].value /\ peak[list[i]].ok
      BY <2>1 DEF Iterate, Improves
    <3>2. ASSUME NEW m \in DOMAIN list, m < i, list[m] # list[i]
          PROVE  Before(peak, list[i], list[m])
      <4>1. CASE best = 0
        BY <1>6, <3>1, <3>2, <4>1 DEF ScanInv, BestSoFar, Before
      <4>2. CASE best # 0
        <5>1. /\ best \in DOMAIN list
              /\ Before(peak, list[i], list[best])
          BY <1>2, <1>6, <2>1, <4>2 DEF ScanInv, BestSoFar, Before, Improves, Iterate
        <5>2. list[m] = list[best] \/ Before(peak, list[best], list[m])
          BY <3>2, <4>2 DEF ScanInv, BestSoFar
        <5> QED
          BY <1>2, <1>5, <1>6, <5>1, <5>2, BeforeIsTransitive DEF Iterate
      <4> QED
        BY <4>1, <4>2
    <3> QED
      BY <1>1, <1>2, <1>7, <3>1, <3>2 DEF BestSoFar
  <2>2. CASE ~Improves(i)
    <3>1. best' = best /\ bestMax' = bestMax
      BY <2>2 DEF Iterate
    <3>2. CASE best = 0
      BY <1>2, <1>7, <2>2, <3>1, <3>2 DEF ScanInv, BestSoFar, Improves
    <3>3. CASE best # 0
      <4>1. list[i] # list[best] => Before(peak, list[best], list[i])
        BY <1>1, <1>2, <1>6, <2>2, <3>3 DEF ScanInv, BestSoFar, Improves, Before
      <4> QED
        BY <1>1, <1>2, <1>7, <3>1, <3>3, <4>1 DEF ScanInv, ScanTypeOK, BestSoFar
    <3> QED
      BY <3>2, <3>3
  <2> QED
    BY <2>1, <2>2
<1>9. ReleasesTheFirst'
  BY <1>2 DEF ScanInv, ReleasesTheFirst
<1> QED
  BY <1>4, <1>8, <1>9 DEF ScanInv

LEMMA ReturnInv == ScanInv /\ Return => ScanInv'
<1> SUFFICES ASSUME ScanInv, Return PROVE ScanInv'
  OBVIOUS
<1>1. UNCHANGED <<list, peak, i, best, bestMax>>
  BY DEF Return
<1>2. ScanTypeOK' /\ BestSoFar'
  BY <1>1 DEF ScanInv, ScanTypeOK, BestSoFar
<1>3. \A m \in DOMAIN list : m < i
  BY DEF ScanInv, ScanTypeOK, Return
<1>4. \A t \in DOMAIN peak : \E m \in DOMAIN list : list[m] = t
  BY DEF ScanInv, ScanTypeOK
<1>5. ReleasesTheFirst'
  <2>1. CASE best > 0
    <3>1. released' = {list[best]} /\ list[best] \in DOMAIN peak
      BY <2>1 DEF Return, ScanInv, ScanTypeOK, BestSoFar
    <3>2. \A t \in DOMAIN peak \ {list[best]} : Before(peak, list[best], t)
      BY <1>3, <1>4, <2>1 DEF ScanInv, ScanTypeOK, BestSoFar
    <3> QED
      BY <1>1, <3>1, <3>2 DEF ReleasesTheFirst, IsFirst
  <2>2. CASE ~(best > 0)
    <3>1. best = 0
      BY <2>2 DEF ScanInv, ScanTypeOK
    <3>2. PICK m \in DOMAIN list : /\ \A n \in DOMAIN list \ {m} : list[m] < list[n]
                                   /\ released' = {list[m]}
      BY <2>2 DEF Return
    <3>3. \A t \in DOMAIN peak : ~peak[t].ok
      BY <1>3, <1>4, <3>1 DEF ScanInv, BestSoFar
    <3>4. list[m] \in DOMAIN peak /\ \A t \in DOMAIN peak \ {list[m]} : list[m] < t
      BY <1>4, <3>2 DEF ScanInv, ScanTypeOK
    <3> QED
      BY <1>1, <3>2, <3>3, <3>4 DEF ReleasesTheFirst, IsFirst, Before
  <2> QED
    BY <2>1, <2>2
<1> QED
  BY <1>2, <1>5 DEF ScanInv

(* Whatever the host lists and the endpoint reported, the last resort        *)
(* releases the credential that comes first.                                *)
THEOREM ScanReleasesTheFirst == ScanSpec => []ReleasesTheFirst
<1>1. ScanInv /\ [ScanNext]_ScanVars => ScanInv'
  <2>1. ScanInv /\ UNCHANGED ScanVars => ScanInv'
    BY DEF ScanVars, ScanInv, ScanTypeOK, BestSoFar, ReleasesTheFirst
  <2> QED
    BY <2>1, IterateInv, ReturnInv DEF ScanNext
<1>2. ScanInv => ReleasesTheFirst
  BY DEF ScanInv
<1> QED
  BY <1>1, <1>2, ScanInitInv, PTL DEF ScanSpec

-----------------------------------------------------------------------------
(* Key discovery.                                                           *)

(* What the generator has seen of digest d before it comes to entry n.       *)
Earlier(n, d) == {m \in 1..(n - 1) : ~entries[m].disabled /\ DigestOf(entries[m]) = d}

Found == [at : Nat, token : [digest : Digest, suffix : Nat]]

Bounds == entries \in Seq(Entry) /\ next \in 1..(Len(entries) + 1)

(* The counters are the counts of what was seen, and keys are reported in    *)
(* the order of the file.                                                   *)
Counted == \A d \in Digest : Count(d) = Cardinality(Earlier(next, d))
InOrder == \A j, k \in DOMAIN loaded : j < k => loaded[j].at < loaded[k].at

IdsInv == Bounds /\ IdsTypeOK /\ Counted /\ InOrder /\ TokensMatchHost

-----------------------------------------------------------------------------
LEMMA EarlierFinite ==
    ASSUME Bounds, NEW n \in 1..(Len(entries) + 1), NEW d
    PROVE  IsFiniteSet(Earlier(n, d)) /\ Cardinality(Earlier(n, d)) \in Nat
<1>1. n \in Nat
  BY DEF Bounds
<1>2. IsFiniteSet(1..(n - 1)) /\ Earlier(n, d) \in SUBSET (1..(n - 1))
  BY <1>1, FS_Interval DEF Earlier
<1>3. IsFiniteSet(Earlier(n, d))
  BY <1>2, FS_Subset
<1> QED
  BY <1>3, FS_CardinalityType

(* One entry further, the entry itself is counted if its provider is on.     *)
LEMMA EarlierGrows ==
    ASSUME Bounds, NEW n \in 1..Len(entries), NEW d
    PROVE  Cardinality(Earlier(n + 1, d)) =
             Cardinality(Earlier(n, d)) +
               (IF ~entries[n].disabled /\ DigestOf(entries[n]) = d THEN 1 ELSE 0)
<1>1. n \in Nat /\ 1..(n + 1 - 1) = 1..(n - 1) \cup {n}
  BY DEF Bounds
<1>2. IsFiniteSet(Earlier(n, d)) /\ Cardinality(Earlier(n, d)) \in Nat
  BY EarlierFinite DEF Bounds
<1>3. n \notin Earlier(n, d)
  BY <1>1 DEF Earlier
<1>4. CASE ~entries[n].disabled /\ DigestOf(entries[n]) = d
  <2>1. Earlier(n + 1, d) = Earlier(n, d) \cup {n}
    BY <1>1, <1>4 DEF Earlier
  <2>2. Cardinality(Earlier(n, d) \cup {n}) = Cardinality(Earlier(n, d)) + 1
    BY <1>2, <1>3, FS_AddElement
  <2> QED
    BY <1>4, <2>1, <2>2
<1>5. CASE ~(~entries[n].disabled /\ DigestOf(entries[n]) = d)
  <2>1. Earlier(n + 1, d) = Earlier(n, d)
    BY <1>1, <1>5 DEF Earlier
  <2> QED
    BY <1>2, <1>5, <2>1
<1> QED
  BY <1>4, <1>5

(* Of two entries that are counted alike, the later one is counted higher.   *)
LEMMA LaterCountsMore ==
    ASSUME Bounds, NEW a \in 1..Len(entries), NEW b \in 1..Len(entries), a < b,
           ~entries[a].disabled
    PROVE  LET d == DigestOf(entries[a])
           IN  Cardinality(Earlier(a, d)) < Cardinality(Earlier(b, d))
<1> DEFINE d == DigestOf(entries[a])
<1>1. a \in Nat /\ b \in Nat /\ a + 1 \in 1..(Len(entries) + 1)
  BY DEF Bounds
<1>2. Cardinality(Earlier(a + 1, d)) = Cardinality(Earlier(a, d)) + 1
  BY EarlierGrows
<1>3. Earlier(a + 1, d) \in SUBSET Earlier(b, d)
  BY <1>1 DEF Earlier
<1>4. IsFiniteSet(Earlier(b, d)) /\ Cardinality(Earlier(b, d)) \in Nat
  BY <1>1, EarlierFinite DEF Bounds
<1>5. Cardinality(Earlier(a, d)) \in Nat
  BY <1>1, EarlierFinite DEF Bounds
<1>6. Cardinality(Earlier(a + 1, d)) <= Cardinality(Earlier(b, d))
  BY <1>3, <1>4, FS_Subset
<1>7. Cardinality(Earlier(a + 1, d)) \in Nat
  BY <1>1, EarlierFinite
<1> QED
  BY <1>2, <1>4, <1>5, <1>6, <1>7

LEMMA HostCounts ==
    ASSUME NEW n
    PROVE  HostToken(n) = TokenOf(entries[n], Cardinality(Earlier(n, DigestOf(entries[n]))))
BY DEF HostToken, Earlier

-----------------------------------------------------------------------------
LEMMA IdsInitially ==
    ASSUME IdsInit
    PROVE  IdsInv
<1>1. entries \in Seq(Entry)
  <2>1. PICK n \in 0..MaxEntries : entries \in [1..n -> Entry]
    BY DEF IdsInit
  <2>2. n \in Nat
    BY <2>1, MaxEntriesAssumption
  <2> QED
    BY <2>1, <2>2, SeqDef
<1>2. Bounds /\ next = 1
  <2>1. Len(entries) \in Nat
    BY <1>1
  <2> QED
    BY <1>1, <2>1 DEF IdsInit, Bounds
<1>3. loaded = << >> /\ DOMAIN loaded = {} /\ DOMAIN counters = {}
  BY DEF IdsInit
<1>4. IdsTypeOK
  <2>1. \A n \in DOMAIN entries : entries[n] \in Entry
    BY <1>1
  <2>2. loaded \in Seq(Found)
    BY <1>3, EmptySeq
  <2>3. counters \in [DOMAIN counters -> Nat \ {0}]
    BY DEF IdsInit
  <2> QED
    BY <1>2, <1>3, <2>1, <2>2, <2>3 DEF IdsTypeOK, Found
<1>5. Counted
  <2>1. ASSUME NEW d PROVE Earlier(next, d) = {} /\ Count(d) = 0
    BY <1>2, <1>3 DEF Earlier, Count
  <2> QED
    BY <2>1, FS_EmptySet DEF Counted
<1>6. TokensMatchHost
  BY <1>2, <1>3 DEF TokensMatchHost
<1> QED
  BY <1>2, <1>3, <1>4, <1>5, <1>6 DEF IdsInv, InOrder

LEMMA IdsSkipped ==
    ASSUME IdsInv, Skip
    PROVE  IdsInv'
<1> USE DEF IdsInv
<1>1. /\ next \in 1..Len(entries) /\ entries[next].disabled
      /\ next' = next + 1 /\ UNCHANGED <<entries, counters, loaded>>
  BY DEF Skip, Bounds
<1>2. Bounds'
  BY <1>1 DEF Bounds
<1>3. IdsTypeOK'
  BY <1>1 DEF IdsTypeOK
<1>4. Counted'
  <2>1. ASSUME NEW d \in Digest
        PROVE  Count(d)' = Cardinality(Earlier(next, d))'
    <3>1. Earlier(next, d)' = Earlier(next + 1, d)
      BY <1>1 DEF Earlier, DigestOf
    <3>2. Cardinality(Earlier(next + 1, d)) = Cardinality(Earlier(next, d)) + 0
      BY <1>1, EarlierGrows
    <3>3. Cardinality(Earlier(next, d)) \in Nat
      BY EarlierFinite DEF Bounds
    <3>4. Count(d)' = Count(d)
      BY <1>1 DEF Count
    <3> QED
      BY <3>1, <3>2, <3>3, <3>4 DEF Counted
  <2> QED
    BY <2>1 DEF Counted
<1>5. InOrder'
  BY <1>1 DEF InOrder
<1>6. TokensMatchHost'
  <2>1. \A n : HostToken(n)' = HostToken(n)
    BY <1>1 DEF HostToken, TokenOf, DigestOf
  <2>2. {n \in 1..(next' - 1) : n \in DOMAIN entries /\ ~entries[n].disabled /\ Reported(entries[n])}
          = {n \in 1..(next - 1) : n \in DOMAIN entries /\ ~entries[n].disabled /\ Reported(entries[n])}
    BY <1>1 DEF Bounds
  <2> QED
    BY <1>1, <2>1, <2>2 DEF TokensMatchHost, Reported
<1> QED
  BY <1>2, <1>3, <1>4, <1>5, <1>6

LEMMA IdsResolved ==
    ASSUME IdsInv, Resolve
    PROVE  IdsInv'
<1> USE DEF IdsInv
<1> DEFINE entry == entries[next]
           d     == DigestOf(entry)
           found == [at |-> next, token |-> TokenOf(entry, Count(d))]
<1>1. /\ next \in 1..Len(entries) /\ next \in Nat /\ ~entry.disabled /\ entry \in Entry
      /\ next' = next + 1 /\ UNCHANGED entries
      /\ counters' = [e \in DOMAIN counters \cup {d} |->
                        IF e = d THEN Count(d) + 1 ELSE counters[e]]
      /\ loaded' = IF Reported(entry) THEN Append(loaded, found) ELSE loaded
  BY DEF Resolve, Advance, Bounds
<1>2. d \in Digest /\ Count(d) \in Nat
  BY <1>1 DEF Entry, DigestOf, Digest, Count, IdsTypeOK
<1>3. Bounds'
  BY <1>1 DEF Bounds
<1>4. loaded \in Seq(Found) /\ found \in Found
  BY <1>1, <1>2 DEF IdsTypeOK, Found, TokenOf
<1>5. loaded' \in Seq(Found)
  BY <1>1, <1>4, AppendProperties
<1>6. IdsTypeOK'
  <2>1. counters' \in [DOMAIN counters' -> Nat \ {0}]
    BY <1>1, <1>2 DEF IdsTypeOK
  <2> QED
    BY <1>1, <1>2, <1>5, <2>1 DEF IdsTypeOK, Found
<1>7. Counted'
  <2>1. ASSUME NEW e \in Digest
        PROVE  Count(e)' = Cardinality(Earlier(next, e))'
    <3>1. Earlier(next, e)' = Earlier(next + 1, e)
      BY <1>1 DEF Earlier, DigestOf
    <3>2. Cardinality(Earlier(next + 1, e)) =
            Cardinality(Earlier(next, e)) + (IF d = e THEN 1 ELSE 0)
      BY <1>1, EarlierGrows
    <3>3. Count(e)' = Count(e) + (IF d = e THEN 1 ELSE 0)
      BY <1>1, <1>2 DEF Count, IdsTypeOK
    <3> QED
      BY <3>1, <3>2, <3>3 DEF Counted
  <2> QED
    BY <2>1 DEF Counted
<1>8. \A n : HostToken(n)' = HostToken(n)
  BY <1>1 DEF HostToken, TokenOf, DigestOf
<1>9. found.token = HostToken(next)
  BY <1>2, HostCounts DEF Counted
<1>10. \A k \in DOMAIN loaded : loaded[k].at \in 1..(next - 1)
  BY <1>1 DEF TokensMatchHost
<1>11. CASE ~Reported(entry)
  <2>1. loaded' = loaded
    BY <1>1, <1>11
  <2>2. {n \in 1..(next' - 1) : n \in DOMAIN entries /\ ~entries[n].disabled /\ Reported(entries[n])}
          = {n \in 1..(next - 1) : n \in DOMAIN entries /\ ~entries[n].disabled /\ Reported(entries[n])}
    BY <1>1, <1>11 DEF Bounds
  <2>3. InOrder'
    BY <2>1 DEF InOrder
  <2>4. TokensMatchHost'
    BY <1>1, <1>8, <2>1, <2>2 DEF TokensMatchHost, Reported
  <2> QED
    BY <1>3, <1>6, <1>7, <2>3, <2>4
<1>12. CASE Reported(entry)
  <2> DEFINE last == Len(loaded) + 1
  <2>1. /\ loaded' = Append(loaded, found) /\ last \in Nat
        /\ DOMAIN loaded = 1..Len(loaded) /\ Len(loaded) \in Nat
        /\ DOMAIN loaded' = DOMAIN loaded \cup {last} /\ last \notin DOMAIN loaded
        /\ loaded'[last] = found
        /\ \A k \in DOMAIN loaded : loaded'[k] = loaded[k]
    <3>1. loaded' = Append(loaded, found)
      BY <1>1, <1>12
    <3>2. Len(loaded) \in Nat /\ DOMAIN loaded = 1..Len(loaded)
      BY <1>4
    <3> QED
      BY <1>4, <1>5, <3>1, <3>2, AppendProperties
  <2>2. InOrder'
    <3>1. SUFFICES ASSUME NEW j \in DOMAIN loaded', NEW k \in DOMAIN loaded', j < k
                   PROVE  loaded'[j].at < loaded'[k].at
      BY DEF InOrder
    <3>2. j \in DOMAIN loaded
      BY <2>1, <3>1
    <3>3. CASE k \in DOMAIN loaded
      BY <2>1, <3>1, <3>2, <3>3 DEF InOrder
    <3>4. CASE k = last
      BY <1>1, <1>10, <2>1, <3>2, <3>4
    <3> QED
      BY <2>1, <3>3, <3>4
  <2>3. \A k \in DOMAIN loaded' : loaded'[k].token = HostToken(loaded'[k].at)
    BY <1>9, <2>1 DEF TokensMatchHost
  <2>4. {loaded'[k].at : k \in DOMAIN loaded'} = {loaded[k].at : k \in DOMAIN loaded} \cup {next}
    BY <2>1
  <2>5. {n \in 1..(next' - 1) : n \in DOMAIN entries /\ ~entries[n].disabled /\ Reported(entries[n])}
          = {n \in 1..(next - 1) : n \in DOMAIN entries /\ ~entries[n].disabled /\ Reported(entries[n])}
            \cup {next}
    BY <1>1, <1>12 DEF Bounds
  <2>6. TokensMatchHost'
    BY <1>1, <1>8, <2>3, <2>4, <2>5 DEF TokensMatchHost, Reported
  <2> QED
    BY <1>3, <1>6, <1>7, <2>2, <2>6
<1> QED
  BY <1>11, <1>12

(* The inductive invariant of key discovery.                                *)
THEOREM IdsInvariant == IdsSpec => []IdsInv
<1>1. IdsInv /\ [IdsNext]_IdsVars => IdsInv'
  <2> SUFFICES ASSUME IdsInv, [IdsNext]_IdsVars PROVE IdsInv'
    OBVIOUS
  <2>1. CASE UNCHANGED IdsVars
    <3>1. UNCHANGED <<entries, next, counters, loaded>>
      BY <2>1 DEF IdsVars
    <3>2. /\ \A n : HostToken(n)' = HostToken(n)
          /\ \A d : Count(d)' = Count(d) /\ Earlier(next, d)' = Earlier(next, d)
      BY <3>1 DEF HostToken, TokenOf, DigestOf, Count, Earlier
    <3>3. Bounds' /\ IdsTypeOK' /\ InOrder'
      BY <3>1 DEF IdsInv, Bounds, IdsTypeOK, InOrder
    <3>4. Counted'
      BY <3>2 DEF IdsInv, Counted
    <3>5. TokensMatchHost'
      BY <3>1, <3>2 DEF IdsInv, TokensMatchHost, Reported
    <3> QED
      BY <3>3, <3>4, <3>5 DEF IdsInv
  <2> QED
    BY <2>1, IdsSkipped, IdsResolved DEF IdsNext
<1> QED
  BY <1>1, IdsInitially, PTL DEF IdsSpec

(* Key discovery stays well-typed for every config.yaml.                     *)
THEOREM IdsTypeCorrect == IdsSpec => []IdsTypeOK
<1>1. IdsInv => IdsTypeOK
  BY DEF IdsInv
<1> QED
  BY <1>1, IdsInvariant, PTL

(* For every config.yaml the pool reports exactly the usable entries, under  *)
(* the host's tokens (configfile.go:58-92, stableid.go:41-64).               *)
THEOREM TokensAreTheHosts == IdsSpec => []TokensMatchHost
<1>1. IdsInv => TokensMatchHost
  BY DEF IdsInv
<1> QED
  BY <1>1, IdsInvariant, PTL

(* No two reported entries share a token (stableid.go:41-64).               *)
THEOREM TokensAreDistinct == IdsSpec => []TokensDistinct
<1>1. ASSUME IdsInv, NEW j \in DOMAIN loaded, NEW k \in DOMAIN loaded,
             loaded[j].token = loaded[k].token, j < k
      PROVE  FALSE
  <2> DEFINE a == loaded[j].at
             b == loaded[k].at
  <2>1. /\ a \in 1..Len(entries) /\ ~entries[a].disabled
        /\ b \in 1..Len(entries) /\ ~entries[b].disabled
    <3>1. /\ {loaded[k0].at : k0 \in DOMAIN loaded} =
               {n \in 1..(next - 1) : n \in DOMAIN entries /\ ~entries[n].disabled /\ Reported(entries[n])}
          /\ DOMAIN entries = 1..Len(entries)
      BY <1>1 DEF IdsInv, TokensMatchHost, Bounds
    <3>2. a \in {loaded[k0].at : k0 \in DOMAIN loaded} /\ b \in {loaded[k0].at : k0 \in DOMAIN loaded}
      BY <1>1
    <3> QED
      BY <3>1, <3>2
  <2>2. a < b
    BY <1>1 DEF IdsInv, InOrder
  <2>3. HostToken(a) = HostToken(b)
    BY <1>1 DEF IdsInv, TokensMatchHost
  <2>4. /\ DigestOf(entries[a]) = DigestOf(entries[b])
        /\ Cardinality(Earlier(a, DigestOf(entries[a]))) =
             Cardinality(Earlier(b, DigestOf(entries[b])))
    BY <2>3, HostCounts DEF TokenOf
  <2>5. Cardinality(Earlier(a, DigestOf(entries[a]))) <
          Cardinality(Earlier(b, DigestOf(entries[a])))
    BY <1>1, <2>1, <2>2, LaterCountsMore DEF IdsInv
  <2>6. /\ Cardinality(Earlier(a, DigestOf(entries[a]))) \in Nat
        /\ Cardinality(Earlier(b, DigestOf(entries[a]))) \in Nat
    BY <1>1, <2>1, EarlierFinite DEF IdsInv, Bounds
  <2> QED
    BY <2>4, <2>5, <2>6
<1>2. IdsInv => TokensDistinct
  <2> SUFFICES ASSUME IdsInv, NEW j \in DOMAIN loaded, NEW k \in DOMAIN loaded,
                      loaded[j].token = loaded[k].token, j # k
               PROVE  FALSE
    BY DEF TokensDistinct
  <2>1. j \in Nat /\ k \in Nat
    BY DEF IdsInv, IdsTypeOK
  <2> QED
    BY <1>1, <2>1
<1> QED
  BY <1>2, IdsInvariant, PTL
=============================================================================
