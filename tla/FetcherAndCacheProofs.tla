--------------------- MODULE FetcherAndCacheProofs ---------------------
(***************************************************************************)
(* Proofs about the two components that walk and wait on their own: the    *)
(* IPNI advertisement fetcher, for every set of providers, limit of the    *)
(* walk, length of the chains and number of faults, and the cache that     *)
(* @Cacheable puts before a method, for every set of callers and every     *)
(* number of calls.                                                        *)
(***************************************************************************)
EXTENDS IpniAdvertisementFetcher, Cacheable, FiniteSetTheorems, SequenceTheorems, TLAPS

-----------------------------------------------------------------------------
(* The walk of the fetcher *)

\* No advertisement is missing between two of S.
NoHole(S) == \A a, b \in S : (a + 1)..(b - 1) \subseteq S

\* The rows of a provider that the current walk has not stored.
Earlier(p) == IF p = provider THEN stored[p] \ batch ELSE stored[p]

\* The table holds nothing newer than what the listing named, which the chain has.
StoredWasListed == \A p \in Providers : /\ listed[p] <= head[p]
                                        /\ \A b \in stored[p] : b <= listed[p]

\* The walk has stored everything from the listed advertisement down to where it is, and
\* has used up its limit by as much; the other rows of the provider are older.
WalkTiles ==
  /\ pc \notin {"storing", "fetching previous"} => batch = {}
  /\ pc = "storing" => /\ batch = (currentAd + 1)..listed[provider]
                       /\ \A b \in Earlier(provider) : b <= currentAd
  /\ pc = "fetching previous" => /\ batch = currentAd..listed[provider]
                                 /\ currentAd > 1
                                 /\ \A b \in Earlier(provider) : b < currentAd
  /\ pc \in {"storing", "fetching previous"} =>
        /\ currentAd <= listed[provider]
        /\ adLimit = AdLimit - (listed[provider] - currentAd)
  /\ batch \subseteq stored[provider]

\* Before the current walk there was no hole that is not accounted for.
EarlierHasNoHole == \A p \in Providers : ~interrupted[p] => NoHole(Earlier(p))

\* The inductive invariant.
IInv == TypeOK /\ StoredWasListed /\ WalkTiles /\ EarlierHasNoHole

\* The stages in which the walk has rows of its own.
Descending == {"storing", "fetching previous"}

-----------------------------------------------------------------------------
\* An interval has no hole.
LEMMA IntervalNoHole == \A a, b \in Int : NoHole(a..b)
  BY DEF NoHole

\* Nor has a set without holes that is continued upwards from its largest element.
LEMMA ContinuedNoHole ==
  ASSUME NEW S \in SUBSET Int, NoHole(S), NEW k \in S, \A b \in S : b <= k, NEW l \in Int
  PROVE  NoHole(S \cup (k + 1)..l)
<1> DEFINE T == S \cup (k + 1)..l
<1> SUFFICES ASSUME NEW a \in T, NEW b \in T, NEW x \in (a + 1)..(b - 1)
             PROVE  x \in T
  BY DEF NoHole
<1>1. CASE x > k
  BY <1>1
<1>2. CASE x <= k
  <2>1. a \in S
    BY <1>2
  <2>2. x = k \/ x \in (a + 1)..(k - 1)
    BY <1>2, <2>1
  <2> QED
    BY <2>1, <2>2 DEF NoHole
<1> QED
  BY <1>1, <1>2

\* What the first state satisfies.
LEMMA InitIInv == Init => IInv
<1> SUFFICES ASSUME Init PROVE IInv
  OBVIOUS
<1> USE ConstantsAssumption DEF Init
<1>1. TypeOK
  <2>1. Cardinality(batch) <= AdLimit + 1
    BY FS_EmptySet
  <2> QED
    BY <2>1 DEF TypeOK, Ads, Stages
<1>2. StoredWasListed
  BY DEF StoredWasListed
<1>3. WalkTiles
  BY DEF WalkTiles
<1>4. EarlierHasNoHole
  BY DEF EarlierHasNoHole, Earlier, NoHole
<1> QED
  BY <1>1, <1>2, <1>3, <1>4 DEF IInv

\* The types of the variables, without the size of the batch.
LEMMA Types ==
  ASSUME IInv
  PROVE  /\ head \in [Providers -> Ads] /\ listed \in [Providers -> Ads]
         /\ stored \in [Providers -> SUBSET Ads] /\ interrupted \in [Providers -> BOOLEAN]
         /\ pc \in Stages /\ provider \in Providers
         /\ currentAd \in Ads /\ adLimit \in 0..AdLimit /\ batch \in SUBSET Ads
         /\ \A a \in Ads : a \in Int /\ a >= 1
         /\ listed[provider] \in Ads
  BY DEF IInv, TypeOK, Ads

\* Outside the walk all rows of a provider are earlier ones.
LEMMA EarlierIsStored ==
  ASSUME batch = {}
  PROVE  \A p \in Providers : Earlier(p) = stored[p]
  BY DEF Earlier

\* A step that begins and ends outside the walk and adds no row.
LEMMA OutsideWalk ==
  ASSUME IInv, pc \notin Descending, pc' \notin Descending,
         UNCHANGED <<stored, interrupted>>, batch' = {}, provider' \in Providers
  PROVE  WalkTiles' /\ EarlierHasNoHole'
<1>1. batch = {} /\ EarlierHasNoHole
  BY DEF IInv, WalkTiles, Descending
<1>2. \A p \in Providers : Earlier(p)' = Earlier(p)
  BY <1>1 DEF Earlier
<1>3. EarlierHasNoHole'
  BY <1>1, <1>2 DEF EarlierHasNoHole
<1> QED
  BY <1>3 DEF WalkTiles, Descending

\* A step that ends the walk, by a proper end, a failure or a crash.
LEMMA WalkEnds ==
  ASSUME pc' \notin Descending, batch' = {},
         \A p \in Providers : ~interrupted'[p] => NoHole(stored'[p])
  PROVE  WalkTiles' /\ EarlierHasNoHole'
<1>1. \A p \in Providers : Earlier(p)' = stored'[p]
  BY DEF Earlier
<1> QED
  BY <1>1 DEF WalkTiles, EarlierHasNoHole, Descending

\* What inserting the current advertisement does to the table: the row is older than
\* every other one, but for those of the walk.
LEMMA InsertRow ==
  ASSUME IInv, pc = "storing", Insert
  PROVE  /\ stored' \in [Providers -> SUBSET Ads]
         /\ stored'[provider] = stored[provider] \cup {currentAd}
         /\ \A p \in Providers : p # provider => stored'[p] = stored[p]
         /\ UNCHANGED <<head, listed>> => StoredWasListed'
<1>1. stored' = [stored EXCEPT ![provider] = @ \cup {currentAd}]
  BY DEF Insert
<1>2. stored'[provider] = stored[provider] \cup {currentAd}
  BY <1>1, Types
<1>3. \A p \in Providers : p # provider => stored'[p] = stored[p]
  BY <1>1, Types
<1>4. stored' \in [Providers -> SUBSET Ads]
  BY <1>1, Types
<1>5. currentAd <= listed[provider] /\ StoredWasListed
  BY DEF IInv, WalkTiles
<1>6. UNCHANGED <<head, listed>> => StoredWasListed'
  BY <1>2, <1>3, <1>5 DEF StoredWasListed
<1> QED
  BY <1>2, <1>3, <1>4, <1>6

\* The chain's growth and the stages outside the walk.
LEMMA OutsideIInv ==
  ASSUME IInv,
         \/ \E p \in Providers : Publish(p) \/ StartProvider(p)
         \/ RunIPNIAdvertisementFetcherJob \/ List \/ ListFails \/ Finish
  PROVE  IInv'
<1> USE ConstantsAssumption
<1>1. TypeOK /\ StoredWasListed /\ WalkTiles /\ EarlierHasNoHole
  BY DEF IInv
<1>2. ASSUME NEW p \in Providers, Publish(p) PROVE IInv'
  <2>1. head' \in [Providers -> Ads] /\ \A q \in Providers : head'[q] >= head[q]
    BY <1>2, Types DEF Publish, Ads
  <2>2. UNCHANGED <<stored, job, interrupted, failures>>
    BY <1>2 DEF Publish
  <2>3. TypeOK'
    BY <1>1, <2>1, <2>2 DEF TypeOK, job
  <2>4. StoredWasListed'
    BY <1>1, <2>1, <2>2, Types DEF StoredWasListed, job
  <2>5. \A q \in Providers : Earlier(q)' = Earlier(q)
    BY <2>2 DEF Earlier, job
  <2>6. WalkTiles' /\ EarlierHasNoHole'
    BY <1>1, <2>2, <2>5, Types DEF WalkTiles, EarlierHasNoHole, job
  <2> QED
    BY <2>3, <2>4, <2>6 DEF IInv
<1>3. ASSUME NEW p \in Providers, StartProvider(p) PROVE IInv'
  <2>1. TypeOK' /\ StoredWasListed'
    BY <1>1, <1>3 DEF StartProvider, TypeOK, StoredWasListed, Stages
  <2>2. batch = {}
    BY <1>1, <1>3 DEF StartProvider, WalkTiles
  <2>3. WalkTiles' /\ EarlierHasNoHole'
    BY <1>3, <2>2, OutsideWalk DEF StartProvider, Descending
  <2> QED
    BY <2>1, <2>3 DEF IInv
<1>4. CASE RunIPNIAdvertisementFetcherJob
  <2>1. TypeOK' /\ StoredWasListed'
    BY <1>1, <1>4 DEF RunIPNIAdvertisementFetcherJob, TypeOK, StoredWasListed, Stages
  <2>2. batch = {} /\ pc = "idle"
    BY <1>1, <1>4 DEF RunIPNIAdvertisementFetcherJob, jobInProgress, WalkTiles
  <2>3. WalkTiles' /\ EarlierHasNoHole'
    BY <1>1, <1>4, <2>2, OutsideWalk DEF RunIPNIAdvertisementFetcherJob, Descending, TypeOK
  <2> QED
    BY <2>1, <2>3 DEF IInv
<1>5. CASE List
  <2>1. TypeOK'
    BY <1>1, <1>5 DEF List, TypeOK, Stages
  <2>2. StoredWasListed'
    BY <1>1, <1>5, Types DEF List, StoredWasListed, Ads
  <2>3. batch = {}
    BY <1>1, <1>5 DEF List, WalkTiles
  <2>4. WalkTiles' /\ EarlierHasNoHole'
    BY <1>1, <1>5, <2>3, OutsideWalk DEF List, Descending, TypeOK
  <2> QED
    BY <2>1, <2>2, <2>4 DEF IInv
<1>6. CASE ListFails
  <2>1. TypeOK' /\ StoredWasListed'
    <3>1. failures' \in 0..MaxFailures
      BY <1>1, <1>6 DEF ListFails, TypeOK
    <3> QED
      BY <1>1, <1>6, <3>1 DEF ListFails, TypeOK, StoredWasListed, Stages
  <2>2. batch = {}
    BY <1>1, <1>6 DEF ListFails, WalkTiles
  <2>3. WalkTiles' /\ EarlierHasNoHole'
    BY <1>1, <1>6, <2>2, OutsideWalk DEF ListFails, Descending, TypeOK
  <2> QED
    BY <2>1, <2>3 DEF IInv
<1>7. CASE Finish
  <2>1. TypeOK' /\ StoredWasListed'
    BY <1>1, <1>7 DEF Finish, TypeOK, StoredWasListed, Stages
  <2>2. batch = {}
    BY <1>1, <1>7 DEF Finish, WalkTiles
  <2>3. WalkTiles' /\ EarlierHasNoHole'
    BY <1>1, <1>7, <2>2, OutsideWalk DEF Finish, Descending, TypeOK
  <2> QED
    BY <2>1, <2>3 DEF IInv
<1> QED
  BY <1>2, <1>3, <1>4, <1>5, <1>6, <1>7

\* The walk begins at the listed advertisement, with nothing stored.
LEMMA FetchLastIInv ==
  ASSUME IInv, FetchLast
  PROVE  IInv'
<1>1. TypeOK /\ StoredWasListed /\ WalkTiles /\ EarlierHasNoHole
  BY DEF IInv
<1>2. /\ pc = "fetching last" /\ pc' = "storing"
      /\ currentAd' = listed[provider]
      /\ adLimit' = AdLimit
      /\ UNCHANGED <<head, stored, healthy, listed, todo, provider, batch, interrupted, failures>>
  BY DEF FetchLast
<1>3. listed[provider] \in Ads /\ listed[provider] \in Int
  BY Types
<1>4. AdLimit \in Nat /\ AdLimit \in 0..AdLimit
  BY ConstantsAssumption
<1>5. TypeOK' /\ StoredWasListed'
  BY <1>1, <1>2, <1>3, <1>4 DEF TypeOK, StoredWasListed, Stages
<1>6. batch = {} /\ batch' = {}
  BY <1>1, <1>2 DEF WalkTiles
<1>7. \A p \in Providers : Earlier(p) = stored[p] /\ Earlier(p)' = stored[p]
  BY <1>2, <1>6 DEF Earlier
<1>8. EarlierHasNoHole'
  BY <1>1, <1>2, <1>7 DEF EarlierHasNoHole
<1>9. WalkTiles'
  <2>1. (listed[provider] + 1)..listed[provider] = {}
    BY <1>3
  <2>2. \A b \in stored[provider] : b <= listed[provider]
    BY <1>1, Types DEF StoredWasListed
  <2>3. AdLimit = AdLimit - (listed[provider] - listed[provider])
    BY <1>3, <1>4
  <2>4. listed[provider] <= listed[provider]
    BY <1>3
  <2>5. Earlier(provider)' = stored[provider]
    BY <1>2, <1>6 DEF Earlier
  <2> QED
    BY <1>2, <1>6, <2>1, <2>2, <2>3, <2>4, <2>5 DEF WalkTiles
<1> QED
  BY <1>5, <1>8, <1>9 DEF IInv

\* The walk ends at a row of an earlier walk: what it has stored continues the older rows.
LEMMA AlreadyStoredIInv ==
  ASSUME IInv, AlreadyStored
  PROVE  IInv'
<1> USE ConstantsAssumption DEF AlreadyStored, EndWalk
<1>1. TypeOK /\ StoredWasListed /\ WalkTiles /\ EarlierHasNoHole
  BY DEF IInv
<1>2. TypeOK' /\ StoredWasListed'
  <2>1. Cardinality(batch') <= AdLimit + 1
    BY FS_EmptySet
  <2> QED
    BY <1>1, <2>1 DEF TypeOK, StoredWasListed, Stages, Ads
<1>3. ASSUME NEW p \in Providers, ~interrupted'[p] PROVE NoHole(stored'[p])
  <2>1. NoHole(Earlier(p))
    BY <1>1, <1>3 DEF EarlierHasNoHole
  <2>2. CASE p = provider
    <3>1. /\ Earlier(p) = stored[p] \ batch
          /\ batch = (currentAd + 1)..listed[p] /\ batch \subseteq stored[p]
          /\ \A b \in Earlier(p) : b <= currentAd
      BY <1>1, <2>2 DEF Earlier, WalkTiles
    <3>2. currentAd \in Int /\ listed[p] \in Int /\ Earlier(p) \in SUBSET Int
      BY <3>1, Types
    <3>3. currentAd \in Earlier(p)
      BY <2>2, <3>1, <3>2
    <3>4. NoHole(Earlier(p) \cup (currentAd + 1)..listed[p])
      BY <2>1, <3>1, <3>2, <3>3, ContinuedNoHole
    <3>5. stored'[p] = Earlier(p) \cup (currentAd + 1)..listed[p]
      BY <3>1
    <3> QED
      BY <3>4, <3>5
  <2>3. CASE p # provider
    BY <2>1, <2>3 DEF Earlier
  <2> QED
    BY <2>2, <2>3
<1>4. WalkTiles' /\ EarlierHasNoHole'
  BY <1>3, WalkEnds DEF Descending
<1> QED
  BY <1>2, <1>4 DEF IInv

\* A row more: the walk goes on, or has come to the end of the chain.
LEMMA StoreIInv ==
  ASSUME IInv, Store
  PROVE  IInv'
<1> USE ConstantsAssumption
<1>1. TypeOK /\ StoredWasListed /\ WalkTiles /\ EarlierHasNoHole
  BY DEF IInv
<1>2. /\ pc = "storing" /\ currentAd \notin stored[provider] /\ Insert
      /\ UNCHANGED <<head, healthy, listed, todo, provider, interrupted, failures>>
  BY DEF Store
<1>3. /\ stored' \in [Providers -> SUBSET Ads]
      /\ stored'[provider] = stored[provider] \cup {currentAd}
      /\ \A p \in Providers : p # provider => stored'[p] = stored[p]
      /\ StoredWasListed'
  BY <1>2, InsertRow
<1>4. /\ batch = (currentAd + 1)..listed[provider] /\ batch \subseteq stored[provider]
      /\ \A b \in Earlier(provider) : b <= currentAd
      /\ currentAd <= listed[provider]
      /\ adLimit = AdLimit - (listed[provider] - currentAd)
  BY <1>1, <1>2 DEF WalkTiles
<1>5. /\ currentAd \in Int /\ listed[provider] \in Int /\ currentAd >= 1
      /\ Earlier(provider) = stored[provider] \ batch
      /\ Earlier(provider) \subseteq Ads /\ currentAd \in Ads /\ adLimit \in 0..AdLimit
  BY Types DEF Earlier, Ads
<1>6. \A b \in Earlier(provider) : b < currentAd
  BY <1>2, <1>4, <1>5 DEF Ads
<1>7. CASE /\ currentAd > 1
           /\ batch' = batch \cup {currentAd}
           /\ pc' = "fetching previous"
           /\ UNCHANGED <<currentAd, adLimit>>
  <2>1. batch' = currentAd..listed[provider]
    <3>1. batch' = (currentAd + 1)..listed[provider] \cup {currentAd}
      BY <1>4, <1>7
    <3> QED
      BY <1>4, <1>5, <3>1
  <2>2. Cardinality(batch') <= AdLimit + 1 /\ batch' \in SUBSET Ads
    <3>1. Cardinality(batch') = listed[provider] - currentAd + 1
      <4>1. ~(currentAd > listed[provider])
        BY <1>4, <1>5
      <4> QED
        BY <1>5, <2>1, <4>1, FS_Interval
    <3>2. batch' \in SUBSET Ads
      BY <1>5, <1>7, Types
    <3> QED
      BY <1>4, <1>5, <3>1, <3>2
  <2>3. TypeOK'
    BY <1>1, <1>2, <1>3, <1>7, <2>2 DEF TypeOK, Stages
  <2>4. \A p \in Providers : Earlier(p)' = Earlier(p)
    <3>1. stored'[provider] \ batch' = stored[provider] \ batch
      BY <1>2, <1>3, <1>7
    <3> QED
      BY <1>2, <1>3, <3>1 DEF Earlier
  <2>5. WalkTiles'
    <3>1. Earlier(provider)' = Earlier(provider)
      BY <1>2, <2>4, Types
    <3>2. batch' \subseteq stored'[provider']
      BY <1>2, <1>3, <1>4, <1>7
    <3> QED
      BY <1>2, <1>4, <1>6, <1>7, <2>1, <3>1, <3>2 DEF WalkTiles
  <2>6. EarlierHasNoHole'
    BY <1>1, <1>2, <2>4 DEF EarlierHasNoHole
  <2> QED
    BY <1>3, <2>3, <2>5, <2>6 DEF IInv
<1>8. CASE currentAd = 1 /\ EndWalk
  <2>1. pc' = "next" /\ currentAd' = 1 /\ adLimit' = 0 /\ batch' = {}
    BY <1>8 DEF EndWalk
  <2>2. TypeOK'
    BY <1>1, <1>2, <1>3, <2>1, FS_EmptySet DEF TypeOK, Stages, Ads
  <2>3. Earlier(provider) = {}
    BY <1>5, <1>6, <1>8 DEF Ads
  <2>4. stored'[provider] = 1..listed[provider]
    <3>1. stored'[provider] = (1 + 1)..listed[provider] \cup {1}
      BY <1>3, <1>4, <1>5, <1>8, <2>3
    <3> QED
      <4>1. 1 <= listed[provider] /\ listed[provider] \in Int
        BY <1>4, <1>5, <1>8
      <4> QED
        BY <3>1, <4>1
  <2>5. \A p \in Providers : ~interrupted'[p] => NoHole(stored'[p])
    <3>1. NoHole(stored'[provider])
      BY <1>5, <2>4, IntervalNoHole
    <3>2. \A p \in Providers : p # provider => Earlier(p) = stored[p]
      BY DEF Earlier
    <3> QED
      BY <1>1, <1>2, <1>3, <3>1, <3>2 DEF EarlierHasNoHole
  <2>6. WalkTiles' /\ EarlierHasNoHole'
    BY <2>1, <2>5, WalkEnds DEF Descending
  <2> QED
    BY <1>3, <2>2, <2>6 DEF IInv
<1> QED
  BY <1>7, <1>8 DEF Store

\* The walk goes a step back, or has used up its limit: then it leaves a hole unless the
\* table holds nothing but what it has stored.
LEMMA FetchPreviousIInv ==
  ASSUME IInv, FetchPrevious
  PROVE  IInv'
<1>1. TypeOK /\ StoredWasListed /\ WalkTiles /\ EarlierHasNoHole
  BY DEF IInv
<1>2. /\ pc = "fetching previous"
      /\ UNCHANGED <<head, stored, healthy, listed, todo, provider, failures>>
  BY DEF FetchPrevious
<1>3. /\ batch = currentAd..listed[provider] /\ batch \subseteq stored[provider]
      /\ currentAd > 1
      /\ \A b \in Earlier(provider) : b < currentAd
      /\ currentAd <= listed[provider]
      /\ adLimit = AdLimit - (listed[provider] - currentAd)
  BY <1>1, <1>2 DEF WalkTiles
<1>4. /\ currentAd \in Ads /\ currentAd \in Int /\ listed[provider] \in Int
      /\ adLimit \in 0..AdLimit /\ AdLimit \in Nat /\ MaxAd \in Nat
  BY Types, ConstantsAssumption
<1>5. StoredWasListed'
  BY <1>1, <1>2 DEF StoredWasListed
<1>6. CASE /\ WithinLimit
           /\ currentAd' = PreviousAd
           /\ adLimit' = adLimit - 1
           /\ pc' = "storing"
           /\ UNCHANGED <<batch, interrupted>>
  <2>1. currentAd' = currentAd - 1 /\ adLimit > 0
    BY <1>6 DEF WithinLimit, PreviousAd
  <2>2. currentAd' \in Ads /\ adLimit' \in 0..AdLimit
    BY <1>3, <1>4, <1>6, <2>1 DEF Ads
  <2>3. TypeOK'
    BY <1>1, <1>2, <1>6, <2>2 DEF TypeOK, Stages
  <2>4. \A p \in Providers : Earlier(p)' = Earlier(p)
    BY <1>2, <1>6 DEF Earlier
  <2>5. EarlierHasNoHole'
    BY <1>1, <1>6, <2>4 DEF EarlierHasNoHole
  <2>6. WalkTiles'
    <3>1. /\ batch' = (currentAd' + 1)..listed'[provider]
          /\ currentAd' <= listed'[provider]
          /\ adLimit' = AdLimit - (listed'[provider] - currentAd')
      <4>1. listed' = listed /\ batch' = batch
        BY <1>2, <1>6
      <4>2. /\ currentAd = (currentAd - 1) + 1
            /\ currentAd - 1 <= listed[provider]
            /\ adLimit - 1 = AdLimit - (listed[provider] - (currentAd - 1))
        BY <1>3, <1>4
      <4> QED
        BY <1>3, <1>6, <2>1, <4>1, <4>2
    <3>2. Earlier(provider)' = Earlier(provider)
      BY <1>2, <1>6 DEF Earlier
    <3>3. \A b \in Earlier(provider) : b \in Int
      BY Types DEF Earlier
    <3>4. \A b \in Earlier(provider) : b <= currentAd'
      BY <1>3, <1>4, <2>1, <3>3
    <3>5. batch' \subseteq stored'[provider']
      BY <1>2, <1>3, <1>6
    <3> QED
      BY <1>2, <1>6, <3>1, <3>2, <3>4, <3>5 DEF WalkTiles
  <2> QED
    BY <1>5, <2>3, <2>5, <2>6 DEF IInv
<1>7. CASE /\ ~WithinLimit
           /\ interrupted' = [interrupted EXCEPT ![provider] = @ \/ stored[provider] # batch]
           /\ EndWalk
  <2>1. pc' = "next" /\ currentAd' = 1 /\ adLimit' = 0 /\ batch' = {}
    BY <1>7 DEF EndWalk
  <2>2. interrupted' \in [Providers -> BOOLEAN]
    BY <1>7, Types
  <2>3. TypeOK'
    <3>1. 1 \in Ads /\ 0 \in 0..AdLimit
      BY <1>4, ConstantsAssumption DEF Ads
    <3>2. Cardinality(batch') <= AdLimit + 1
      BY <1>4, <2>1, FS_EmptySet
    <3> QED
      BY <1>1, <1>2, <2>1, <2>2, <3>1, <3>2 DEF TypeOK, Stages
  <2>4. ASSUME NEW p \in Providers, ~interrupted'[p] PROVE NoHole(stored'[p])
    <3>1. CASE p = provider
      <4>1. stored[p] = batch
        BY <1>7, <2>4, <3>1, Types
      <4> QED
        BY <1>2, <1>3, <1>4, <4>1, IntervalNoHole
    <3>2. CASE p # provider
      <4>1. ~interrupted[p] /\ Earlier(p) = stored[p]
        BY <1>7, <2>4, <3>2, Types DEF Earlier
      <4> QED
        BY <1>1, <1>2, <4>1 DEF EarlierHasNoHole
    <3> QED
      BY <3>1, <3>2
  <2>5. WalkTiles' /\ EarlierHasNoHole'
    BY <2>1, <2>4, WalkEnds DEF Descending
  <2> QED
    BY <1>5, <2>3, <2>5 DEF IInv
<1> QED
  BY <1>6, <1>7 DEF FetchPrevious

\* A failure or a crash: the row may be there all the same, the walk counts as interrupted.
LEMMA FaultIInv ==
  ASSUME IInv, ProviderFails \/ Crash
  PROVE  IInv'
<1>1. TypeOK /\ StoredWasListed /\ WalkTiles /\ EarlierHasNoHole
  BY DEF IInv
<1>2. /\ failures < MaxFailures /\ failures' = failures + 1
      /\ UNCHANGED stored \/ (pc = "storing" /\ Insert)
      /\ pc' \in {"next", "idle"} /\ healthy' \in BOOLEAN /\ todo' \in SUBSET Providers
      /\ currentAd' = 1 /\ adLimit' = 0 /\ batch' = {}
      /\ UNCHANGED <<head, listed, provider>>
  BY <1>1 DEF ProviderFails, Crash, EndWalk, TypeOK
<1>3. interrupted' = [interrupted EXCEPT ![provider] = @ \/ Walking]
  <2>1. Walking \in BOOLEAN
    BY DEF Walking
  <2>2. CASE ProviderFails
    <3>1. Walking /\ interrupted' = [interrupted EXCEPT ![provider] = TRUE]
      BY <2>2 DEF ProviderFails
    <3> QED
      BY <3>1, Types
  <2>3. CASE Crash
    BY <2>3 DEF Crash
  <2> QED
    BY <2>2, <2>3
<1>4. /\ interrupted' \in [Providers -> BOOLEAN]
      /\ Walking => interrupted'[provider]
      /\ \A p \in Providers : ~interrupted'[p] => ~interrupted[p]
  <2>1. Walking \in BOOLEAN
    BY DEF Walking
  <2> QED
    BY <1>3, <2>1, Types
<1>5. /\ stored' \in [Providers -> SUBSET Ads]
      /\ StoredWasListed'
      /\ \A p \in Providers : p # provider => stored'[p] = stored[p]
      /\ ~Walking => stored' = stored
  <2>1. CASE UNCHANGED stored
    BY <1>1, <1>2, <2>1 DEF TypeOK, StoredWasListed
  <2>2. CASE pc = "storing" /\ Insert
    BY <1>2, <2>2, InsertRow DEF Walking
  <2> QED
    BY <1>2, <2>1, <2>2
<1>6. TypeOK'
  <2>1. 1 \in Ads /\ 0 \in 0..AdLimit
    BY ConstantsAssumption DEF Ads
  <2>2. Cardinality(batch') <= AdLimit + 1
    BY <1>2, ConstantsAssumption, FS_EmptySet
  <2>3. failures' \in 0..MaxFailures
    BY <1>1, <1>2, ConstantsAssumption DEF TypeOK
  <2> QED
    BY <1>1, <1>2, <1>4, <1>5, <2>1, <2>2, <2>3 DEF TypeOK, Stages
<1>7. ASSUME NEW p \in Providers, ~interrupted'[p] PROVE NoHole(stored'[p])
  <2>1. stored'[p] = stored[p] /\ Earlier(p) = stored[p]
    <3>1. CASE p # provider
      BY <1>5, <3>1 DEF Earlier
    <3>2. CASE p = provider
      <4>1. ~Walking
        BY <1>4, <1>7, <3>2
      <4>2. batch = {}
        BY <1>1, <4>1 DEF Walking, WalkTiles
      <4> QED
        BY <1>5, <4>1, <4>2 DEF Earlier
    <3> QED
      BY <3>1, <3>2
  <2> QED
    BY <1>1, <1>4, <1>7, <2>1 DEF EarlierHasNoHole
<1>8. WalkTiles' /\ EarlierHasNoHole'
  BY <1>2, <1>7, WalkEnds DEF Descending
<1> QED
  BY <1>5, <1>6, <1>8 DEF IInv

-----------------------------------------------------------------------------
\* The walk's rows tile the chain down from the listed advertisement, whatever is
\* published, fails or crashes meanwhile.
THEOREM Invariance == Spec => []IInv
<1>1. ASSUME IInv, [Next]_vars PROVE IInv'
  <2>1. CASE UNCHANGED vars
    <3>1. \A p \in Providers : Earlier(p)' = Earlier(p)
      BY <2>1 DEF vars, job, Earlier
    <3>2. Earlier(provider)' = Earlier(provider)
      BY <2>1 DEF vars, job, Earlier
    <3> QED
      BY <1>1, <2>1, <3>1, <3>2 DEF vars, job, IInv, TypeOK, StoredWasListed, WalkTiles, EarlierHasNoHole
  <2>2. CASE FetchLast
    BY <1>1, <2>2, FetchLastIInv
  <2>3. CASE AlreadyStored
    BY <1>1, <2>3, AlreadyStoredIInv
  <2>4. CASE Store
    BY <1>1, <2>4, StoreIInv
  <2>5. CASE FetchPrevious
    BY <1>1, <2>5, FetchPreviousIInv
  <2>6. CASE ProviderFails \/ Crash
    BY <1>1, <2>6, FaultIInv
  <2>7. CASE \/ \E p \in Providers : Publish(p) \/ StartProvider(p)
             \/ RunIPNIAdvertisementFetcherJob \/ List \/ ListFails \/ Finish
    BY <1>1, <2>7, OutsideIInv
  <2> QED
    BY <1>1, <2>1, <2>2, <2>3, <2>4, <2>5, <2>6, <2>7 DEF Next, Step
<1> QED
  BY <1>1, InitIInv, PTL DEF Spec

\* Holes come from interrupted walks only, for every number of providers and limit.
THEOREM NoUnexplainedHolesCorrect == Spec => []NoUnexplainedHoles
<1>1. ASSUME IInv PROVE NoUnexplainedHoles
  <2>1. TypeOK /\ WalkTiles /\ EarlierHasNoHole
    BY <1>1 DEF IInv
  <2>2. ASSUME NEW p \in Providers, ~interrupted[p], ~(Walking /\ p = provider)
        PROVE  NoHole(stored[p])
    <3>1. Earlier(p) = stored[p]
      BY <2>1, <2>2 DEF Earlier, WalkTiles, Walking
    <3> QED
      BY <2>1, <2>2, <3>1 DEF EarlierHasNoHole
  <2> QED
    BY <2>1, <2>2 DEF NoUnexplainedHoles, NoHole
<1> QED
  BY <1>1, Invariance, PTL

\* The table gets no row below one of an earlier walk, so that a hole is for ever.
THEOREM NothingAddedBelowCorrect == Spec => NothingAddedBelow
<1>1. ASSUME IInv, [Next]_vars, NEW p \in Providers, NEW a \in stored'[p] \ stored[p],
             NEW b \in stored[p], b \notin batch
      PROVE  a > b
  <2>1. pc = "storing" /\ Insert
    <3>1. stored' # stored
      OBVIOUS
    <3> QED
      BY <1>1, <3>1 DEF Next, Step, vars, job, Publish, RunIPNIAdvertisementFetcherJob, List,
         ListFails, StartProvider, FetchLast, AlreadyStored, Store, FetchPrevious,
         ProviderFails, Finish, Crash
  <2>2. p = provider /\ a = currentAd
    BY <1>1, <2>1, InsertRow
  <2>3. b \in Earlier(provider) /\ b \in Int /\ currentAd \in Int
    BY <1>1, <2>2, Types DEF Earlier
  <2>4. b <= currentAd /\ b # currentAd
    BY <1>1, <2>1, <2>2, <2>3 DEF IInv, WalkTiles
  <2> QED
    BY <2>2, <2>3, <2>4
<1>2. IInv /\ [Next]_vars
        => [\A p \in Providers : \A a \in stored'[p] \ stored[p] :
              \A b \in stored[p] : b \notin batch => a > b]_vars
  BY <1>1
<1> QED
  BY <1>2, Invariance, PTL DEF Spec, NothingAddedBelow

-----------------------------------------------------------------------------
(* Calls of a cached method *)

\* The calls that wait for a mutex or for the cache: none of them has executed.
NotYet == {c \in Callers : at[c] \in {"acquiring", "getting"}}

\* Each call executes once at most, so that executions are fewer than calls.
ExecutionsCounted == /\ IsFiniteSet(NotYet)
                     /\ executions + Cardinality(NotYet) <= calls

\* The mutexes in use are among those made.
MutexesMade == /\ mutexOf <= made
               /\ \A c \in Callers : at[c] # "idle" => mutex[c] <= made

\* A caller is in the queue of its mutex, and nowhere else, as long as it is in a call.
QueuesHoldCalls ==
  /\ \A c \in Callers : at[c] # "idle" =>
        \E i \in 1..Len(queue[mutex[c]]) : queue[mutex[c]][i] = c
  /\ \A m \in Mutexes : \A i \in 1..Len(queue[m]) :
        at[queue[m][i]] # "idle" /\ mutex[queue[m][i]] = m
  /\ \A m \in Mutexes : \A i, j \in 1..Len(queue[m]) : queue[m][i] = queue[m][j] => i = j

\* Who has acquired a mutex is the first in its queue.
HolderIsFirst ==
  \A c \in Callers : at[c] \in {"getting", "executing", "setting"} => queue[mutex[c]][1] = c

\* Until a call leaves something in the cache only one mutex is made, and whoever
\* executed the method holds it.
FirstMutexOnly == ~uncached /\ cached = None =>
  /\ mutexOf = made
  /\ made <= 1
  /\ executions > 0 => \E c \in Callers : at[c] \in {"executing", "setting"}

\* The inductive invariant.
CacheIInv == /\ OneExecution
             /\ ExecutionsCounted
             /\ MutexesMade
             /\ QueuesHoldCalls
             /\ HolderIsFirst
             /\ FirstMutexOnly

Holding == {"getting", "executing", "setting"}

-----------------------------------------------------------------------------
\* What the first state satisfies.
LEMMA CacheInitially == CacheInit => CacheIInv
<1> SUFFICES ASSUME CacheInit PROVE CacheIInv
  OBVIOUS
<1> USE CacheAssumption DEF CacheInit
<1>1. CacheTypeOK
  <2>1. queue \in [Mutexes -> Seq(Callers)]
    BY EmptySeq
  <2>2. made \in 0..calls /\ executions \in 0..calls /\ calls \in 0..MaxCalls
    OBVIOUS
  <2> QED
    BY <2>1, <2>2 DEF CacheTypeOK, CallStages
<1>2. OneExecution
  BY <1>1 DEF OneExecution
<1>3. NotYet = {}
  BY DEF NotYet
<1>4. ExecutionsCounted
  BY <1>3, FS_EmptySet DEF ExecutionsCounted
<1>5. MutexesMade
  BY DEF MutexesMade, None
<1>6. QueuesHoldCalls /\ HolderIsFirst
  BY EmptySeq DEF QueuesHoldCalls, HolderIsFirst
<1>7. FirstMutexOnly
  BY DEF FirstMutexOnly, None
<1> QED
  BY <1>2, <1>4, <1>5, <1>6, <1>7 DEF CacheIInv

\* Who holds a mutex is the first of a queue that is not empty.
LEMMA HolderHeads ==
  ASSUME CacheIInv, NEW c \in Callers, at[c] \in Holding
  PROVE  /\ mutex[c] \in Mutexes
         /\ queue[mutex[c]] \in Seq(Callers)
         /\ queue[mutex[c]] # <<>>
         /\ Len(queue[mutex[c]]) \in Nat \ {0}
         /\ queue[mutex[c]][1] = c
<1>1. CacheTypeOK /\ QueuesHoldCalls /\ HolderIsFirst
  BY DEF CacheIInv, OneExecution
<1>2. at[c] # "idle"
  BY DEF Holding
<1>3. mutex[c] \in Mutexes /\ queue[mutex[c]] \in Seq(Callers)
  BY <1>1, <1>2 DEF CacheTypeOK
<1>4. PICK i \in 1..Len(queue[mutex[c]]) : queue[mutex[c]][i] = c
  BY <1>1, <1>2 DEF QueuesHoldCalls
<1>5. queue[mutex[c]] # <<>>
  BY <1>4, EmptySeq
<1>6. Len(queue[mutex[c]]) \in Nat \ {0}
  BY <1>3, <1>5, EmptySeq
<1> QED
  BY <1>1, <1>3, <1>5, <1>6 DEF HolderIsFirst, Holding

\* Two calls that hold the same mutex are the same.
LEMMA OneHolder ==
  ASSUME CacheIInv, NEW c \in Callers, NEW d \in Callers,
         at[c] \in Holding, at[d] \in Holding, mutex[c] = mutex[d]
  PROVE  c = d
  BY HolderHeads

\* A step that takes no caller in or out of a call and grants no mutex leaves the
\* queues as they should be.
LEMMA QueuesKept ==
  ASSUME CacheIInv, UNCHANGED <<queue, mutex>>,
         \A d \in Callers : /\ at'[d] = "idle" <=> at[d] = "idle"
                            /\ at'[d] \in Holding => at[d] \in Holding
  PROVE  QueuesHoldCalls' /\ HolderIsFirst'
<1>1. CacheTypeOK /\ QueuesHoldCalls /\ HolderIsFirst
  BY DEF CacheIInv, OneExecution
<1>2. \A m \in Mutexes : \A i \in 1..Len(queue[m]) : queue[m][i] \in Callers
  BY <1>1 DEF CacheTypeOK
<1>3. QueuesHoldCalls'
  BY <1>1, <1>2 DEF QueuesHoldCalls
<1>4. HolderIsFirst'
  BY <1>1 DEF HolderIsFirst, Holding
<1> QED
  BY <1>3, <1>4

\* Leaving releases the mutex: the queues lose the caller that held it, and no other.
LEMMA LeaveQueues ==
  ASSUME CacheIInv, NEW c \in Callers, at[c] \in Holding, NEW got, Leave(c, got),
         UNCHANGED mutex
  PROVE  /\ queue' \in [Mutexes -> Seq(Callers)]
         /\ QueuesHoldCalls'
         /\ HolderIsFirst'
<1> DEFINE m == mutex[c]
           q == queue[m]
<1>1. CacheTypeOK /\ QueuesHoldCalls /\ HolderIsFirst
  BY DEF CacheIInv, OneExecution
<1>2. /\ m \in Mutexes /\ q \in Seq(Callers) /\ q # <<>>
      /\ Len(q) \in Nat \ {0} /\ q[1] = c
  BY HolderHeads
<1>3. /\ Tail(q) \in Seq(Callers)
      /\ Len(Tail(q)) = Len(q) - 1
      /\ \A i \in 1..Len(Tail(q)) : Tail(q)[i] = q[i + 1]
  BY <1>2, HeadTailProperties
<1>4. /\ queue' = [queue EXCEPT ![m] = Tail(q)]
      /\ at' = [at EXCEPT ![c] = "idle"]
  BY DEF Leave
<1>5. queue \in [Mutexes -> Seq(Callers)] /\ at \in [Callers -> CallStages]
  BY <1>1 DEF CacheTypeOK
<1>6. queue' \in [Mutexes -> Seq(Callers)]
  BY <1>2, <1>3, <1>4, <1>5
<1>7. queue'[m] = Tail(q) /\ \A n \in Mutexes : n # m => queue'[n] = queue[n]
  BY <1>2, <1>4, <1>5
<1>8. at'[c] = "idle" /\ \A d \in Callers : d # c => at'[d] = at[d]
  BY <1>4, <1>5
<1>9. \A n \in Mutexes : \A i \in 1..Len(queue[n]) : queue[n][i] \in Callers
  BY <1>5
<1> HIDE DEF m, q
<1>10. ASSUME NEW d \in Callers, at'[d] # "idle"
       PROVE  \E i \in 1..Len(queue'[mutex'[d]]) : queue'[mutex'[d]][i] = d
  <2>1. d # c /\ at[d] # "idle" /\ mutex'[d] = mutex[d] /\ mutex[d] \in Mutexes
    BY <1>1, <1>8, <1>10 DEF CacheTypeOK
  <2>2. PICK i \in 1..Len(queue[mutex[d]]) : queue[mutex[d]][i] = d
    BY <1>1, <2>1 DEF QueuesHoldCalls
  <2>3. CASE mutex[d] = m
    <3>1. q = queue[m]
      BY DEF q
    <3>2. i \in 1..Len(q) /\ q[i] = d
      BY <2>2, <2>3, <3>1
    <3>3. i # 1
      BY <1>2, <2>1, <3>2
    <3>4. i - 1 \in 1..Len(Tail(q)) /\ Tail(q)[i - 1] = q[(i - 1) + 1]
      BY <1>2, <1>3, <3>2, <3>3
    <3>5. Tail(q)[i - 1] = d
      BY <3>2, <3>4
    <3> QED
      BY <1>7, <2>1, <2>3, <3>4, <3>5
  <2>4. CASE mutex[d] # m
    BY <1>7, <2>1, <2>2, <2>4
  <2> QED
    BY <2>3, <2>4
<1>11. ASSUME NEW n \in Mutexes, NEW i \in 1..Len(queue'[n])
       PROVE  at'[queue'[n][i]] # "idle" /\ mutex'[queue'[n][i]] = n
  <2>1. CASE n = m
    <3>1. q = queue[m]
      BY DEF q
    <3>2. i \in 1..Len(Tail(q)) /\ queue'[n][i] = q[i + 1]
      BY <1>3, <1>7, <1>11, <2>1
    <3>3. i + 1 \in 1..Len(q) /\ i + 1 # 1 /\ 1 \in 1..Len(q)
      BY <1>2, <1>3, <3>2
    <3>4. q[i + 1] # c
      BY <1>1, <1>2, <3>1, <3>3 DEF QueuesHoldCalls
    <3>5. at[q[i + 1]] # "idle" /\ mutex[q[i + 1]] = m /\ q[i + 1] \in Callers
      BY <1>1, <1>2, <1>9, <3>1, <3>3 DEF QueuesHoldCalls
    <3> QED
      BY <1>8, <2>1, <3>2, <3>4, <3>5
  <2>2. CASE n # m
    <3>1. queue'[n] = queue[n] /\ i \in 1..Len(queue[n])
      BY <1>7, <1>11, <2>2
    <3>2. at[queue[n][i]] # "idle" /\ mutex[queue[n][i]] = n /\ queue[n][i] \in Callers
      BY <1>1, <1>9, <3>1 DEF QueuesHoldCalls
    <3>3. queue[n][i] # c
      BY <2>2, <3>2 DEF m
    <3> QED
      BY <1>8, <3>1, <3>2, <3>3
  <2> QED
    BY <2>1, <2>2
<1>12. ASSUME NEW n \in Mutexes, NEW i \in 1..Len(queue'[n]), NEW j \in 1..Len(queue'[n]),
              queue'[n][i] = queue'[n][j]
       PROVE  i = j
  <2>1. CASE n = m
    <3>1. q = queue[m]
      BY DEF q
    <3>2. i \in 1..Len(Tail(q)) /\ j \in 1..Len(Tail(q)) /\ q[i + 1] = q[j + 1]
      BY <1>3, <1>7, <1>12, <2>1
    <3>3. i + 1 \in 1..Len(q) /\ j + 1 \in 1..Len(q)
      BY <1>2, <1>3, <3>2
    <3>4. i + 1 = j + 1
      BY <1>1, <1>2, <3>1, <3>2, <3>3 DEF QueuesHoldCalls
    <3> QED
      BY <3>4
  <2>2. CASE n # m
    BY <1>1, <1>7, <1>12, <2>2 DEF QueuesHoldCalls
  <2> QED
    BY <2>1, <2>2
<1>13. QueuesHoldCalls'
  BY <1>10, <1>11, <1>12 DEF QueuesHoldCalls
<1>14. ASSUME NEW d \in Callers, at'[d] \in Holding
       PROVE  queue'[mutex'[d]][1] = d
  <2>1. d # c /\ at[d] \in Holding
    BY <1>8, <1>14 DEF Holding
  <2>2. mutex[d] # m
    BY <2>1, OneHolder DEF m
  <2> QED
    BY <1>7, <2>1, <2>2, HolderHeads
<1>15. HolderIsFirst'
  BY <1>14 DEF HolderIsFirst, Holding
<1> QED
  BY <1>6, <1>13, <1>15

\* A call that is over, or executes, is no longer counted among those to come.
LEMMA NotYetLoses ==
  ASSUME CacheIInv, NEW c \in Callers, NEW stage \in {"idle", "executing"},
         at[c] = "getting", at' = [at EXCEPT ![c] = stage]
  PROVE  IsFiniteSet(NotYet') /\ Cardinality(NotYet') = Cardinality(NotYet) - 1
<1>1. IsFiniteSet(NotYet) /\ at \in [Callers -> CallStages]
  BY DEF CacheIInv, ExecutionsCounted, OneExecution, CacheTypeOK
<1>2. NotYet' = NotYet \ {c} /\ c \in NotYet
  BY <1>1 DEF NotYet
<1> QED
  BY <1>1, <1>2, FS_RemoveElement

\* Any other change of stage counts the same calls.
LEMMA NotYetSame ==
  ASSUME CacheIInv, NEW c \in Callers, NEW stage \in CallStages,
         at' = [at EXCEPT ![c] = stage],
         at[c] \in {"acquiring", "getting"} <=> stage \in {"acquiring", "getting"}
  PROVE  NotYet' = NotYet
<1>1. at \in [Callers -> CallStages]
  BY DEF CacheIInv, OneExecution, CacheTypeOK
<1> QED
  BY <1>1 DEF NotYet

-----------------------------------------------------------------------------
\* A new call queues behind the others, at the only mutex if nothing is cached yet.
LEMMA CallIInv ==
  ASSUME CacheIInv, NEW c \in Callers, Call(c)
  PROVE  CacheIInv'
<1> DEFINE m == GetFunctionCallMutex
           q == queue[m]
<1> USE CacheAssumption
<1>1. /\ CacheTypeOK /\ (~uncached => executions <= 1) /\ ExecutionsCounted /\ MutexesMade
      /\ QueuesHoldCalls /\ HolderIsFirst /\ FirstMutexOnly
  BY DEF CacheIInv, OneExecution
<1>2. /\ at[c] = "idle"
      /\ calls < MaxCalls /\ calls' = calls + 1
      /\ mutexOf' = m
      /\ made' = IF m > made THEN m ELSE made
      /\ mutex' = [mutex EXCEPT ![c] = m]
      /\ queue' = [queue EXCEPT ![m] = Append(@, c)]
      /\ at' = [at EXCEPT ![c] = "acquiring"]
      /\ result' = [result EXCEPT ![c] = None]
      /\ UNCHANGED <<cached, executions, uncached>>
  BY DEF Call
<1>3. /\ m \in Mutexes /\ m <= calls' /\ m <= made'
      /\ made' \in 0..calls' /\ made <= made' /\ calls' \in 0..MaxCalls
  BY <1>1, <1>2 DEF CacheTypeOK, GetFunctionCallMutex, Mutexes, None, MutexesMade
<1>4. /\ queue \in [Mutexes -> Seq(Callers)] /\ q \in Seq(Callers)
      /\ at \in [Callers -> CallStages] /\ mutex \in [Callers -> Mutexes \cup {None}]
  BY <1>1, <1>3 DEF CacheTypeOK
<1> HIDE DEF m, q
<1>5. /\ Append(q, c) \in Seq(Callers)
      /\ Len(q) \in Nat
      /\ Len(Append(q, c)) = Len(q) + 1
      /\ \A i \in 1..Len(q) : Append(q, c)[i] = q[i]
      /\ Append(q, c)[Len(q) + 1] = c
  BY <1>4, AppendProperties, LenProperties
<1>6. queue'[m] = Append(q, c) /\ \A n \in Mutexes : n # m => queue'[n] = queue[n]
  BY <1>2, <1>3, <1>4 DEF q
<1>7. /\ at'[c] = "acquiring" /\ mutex'[c] = m
      /\ \A d \in Callers : d # c => at'[d] = at[d] /\ mutex'[d] = mutex[d]
  BY <1>2, <1>4
<1>8. CacheTypeOK'
  <2>1. queue' \in [Mutexes -> Seq(Callers)]
    BY <1>2, <1>3, <1>4, <1>5 DEF q
  <2>2. mutexOf' \in Mutexes \cup {None} /\ mutex' \in [Callers -> Mutexes \cup {None}]
    BY <1>2, <1>3, <1>4
  <2>3. at' \in [Callers -> CallStages] /\ result' \in [Callers -> Results \cup {None}]
    BY <1>1, <1>2, <1>4 DEF CacheTypeOK, CallStages
  <2>4. cached' \in Results \cup {None} /\ uncached' \in BOOLEAN /\ executions' \in 0..calls'
    BY <1>1, <1>2 DEF CacheTypeOK
  <2>5. \A d \in Callers : at'[d] # "idle" => mutex'[d] # None
    BY <1>1, <1>3, <1>7 DEF CacheTypeOK, Mutexes, None
  <2> QED
    BY <1>3, <2>1, <2>2, <2>3, <2>4, <2>5 DEF CacheTypeOK
<1>9. OneExecution'
  BY <1>1, <1>2, <1>8 DEF OneExecution
<1>10. ExecutionsCounted'
  <2>1. NotYet' = NotYet \cup {c} /\ c \notin NotYet
    BY <1>2, <1>7 DEF NotYet
  <2>2. IsFiniteSet(NotYet') /\ Cardinality(NotYet') = Cardinality(NotYet) + 1
    BY <1>1, <2>1, FS_AddElement DEF ExecutionsCounted
  <2>3. Cardinality(NotYet) \in Nat
    BY <1>1, FS_CardinalityType DEF ExecutionsCounted
  <2> QED
    BY <1>1, <1>2, <2>2, <2>3 DEF ExecutionsCounted, CacheTypeOK
<1>11. MutexesMade'
  <2>1. \A d \in Callers : at'[d] # "idle" => mutex'[d] <= made'
    BY <1>1, <1>3, <1>4, <1>7 DEF MutexesMade, CacheTypeOK, Mutexes, None
  <2> QED
    BY <1>2, <1>3, <2>1 DEF MutexesMade
<1>12. QueuesHoldCalls'
  <2>1. ASSUME NEW d \in Callers, at'[d] # "idle"
        PROVE  \E i \in 1..Len(queue'[mutex'[d]]) : queue'[mutex'[d]][i] = d
    <3>1. CASE d = c
      <4>1. Len(q) + 1 \in 1..Len(queue'[m])
        BY <1>5, <1>6
      <4> QED
        BY <1>5, <1>6, <1>7, <3>1, <4>1
    <3>2. CASE d # c
      <4>1. at[d] # "idle" /\ mutex'[d] = mutex[d] /\ mutex[d] \in Mutexes
        BY <1>1, <1>7, <2>1, <3>2 DEF CacheTypeOK
      <4>2. PICK i \in 1..Len(queue[mutex[d]]) : queue[mutex[d]][i] = d
        BY <1>1, <4>1 DEF QueuesHoldCalls
      <4>3. i \in 1..Len(queue'[mutex[d]]) /\ queue'[mutex[d]][i] = d
        BY <1>5, <1>6, <4>1, <4>2 DEF q
      <4> QED
        BY <4>1, <4>3
    <3> QED
      BY <3>1, <3>2
  <2>2. \A n \in Mutexes : \A i \in 1..Len(queue[n]) : queue[n][i] # c /\ queue[n][i] \in Callers
    BY <1>1, <1>2, <1>4 DEF QueuesHoldCalls
  <2>3. ASSUME NEW n \in Mutexes, NEW i \in 1..Len(queue'[n])
        PROVE  at'[queue'[n][i]] # "idle" /\ mutex'[queue'[n][i]] = n
    <3>1. CASE i \in 1..Len(queue[n])
      <4>1. queue'[n][i] = queue[n][i]
        BY <1>5, <1>6, <3>1 DEF q
      <4> QED
        BY <1>1, <1>7, <2>2, <3>1, <4>1 DEF QueuesHoldCalls
    <3>2. CASE i \notin 1..Len(queue[n])
      <4>1. n = m /\ i = Len(q) + 1
        BY <1>5, <1>6, <2>3, <3>2 DEF q
      <4> QED
        BY <1>5, <1>6, <1>7, <4>1
    <3> QED
      BY <3>1, <3>2
  <2>4. ASSUME NEW n \in Mutexes, NEW i \in 1..Len(queue'[n]), NEW j \in 1..Len(queue'[n]),
               queue'[n][i] = queue'[n][j]
        PROVE  i = j
    <3>1. CASE n = m
      <4>1. /\ i \in 1..(Len(q) + 1) /\ j \in 1..(Len(q) + 1)
            /\ queue'[n] = Append(q, c) /\ queue[m] = q
        BY <1>5, <1>6, <2>4, <3>1 DEF q
      <4>2. \A k \in 1..Len(q) : Append(q, c)[k] # c
        BY <1>3, <1>5, <2>2, <4>1
      <4>3. \A k, l \in 1..Len(q) : q[k] = q[l] => k = l
        BY <1>1, <1>3, <4>1 DEF QueuesHoldCalls
      <4>4. i \in 1..Len(q) <=> j \in 1..Len(q)
        BY <1>5, <2>4, <4>1, <4>2
      <4> QED
        BY <1>5, <2>4, <4>1, <4>3, <4>4
    <3>2. CASE n # m
      BY <1>1, <1>6, <2>4, <3>2 DEF QueuesHoldCalls
    <3> QED
      BY <3>1, <3>2
  <2> QED
    BY <2>1, <2>3, <2>4 DEF QueuesHoldCalls
<1>13. HolderIsFirst'
  <2>1. ASSUME NEW d \in Callers, at'[d] \in Holding PROVE queue'[mutex'[d]][1] = d
    <3>1. d # c /\ at[d] \in Holding /\ mutex'[d] = mutex[d]
      BY <1>7, <2>1 DEF Holding
    <3>2. /\ mutex[d] \in Mutexes /\ queue[mutex[d]][1] = d
          /\ 1 \in 1..Len(queue[mutex[d]])
      BY <3>1, HolderHeads
    <3>3. queue'[mutex[d]][1] = queue[mutex[d]][1]
      BY <1>5, <1>6, <3>2 DEF q
    <3> QED
      BY <3>1, <3>2, <3>3
  <2> QED
    BY <2>1 DEF HolderIsFirst, Holding
<1>14. FirstMutexOnly'
  <2>1. CASE ~uncached /\ cached = None
    <3>1. m = 1 /\ made' = 1 /\ mutexOf' = 1
      BY <1>1, <1>2, <2>1 DEF m, GetFunctionCallMutex, FirstMutexOnly, CacheTypeOK, None
    <3>2. executions > 0 => \E d \in Callers : at'[d] \in {"executing", "setting"}
      BY <1>1, <1>2, <1>7, <2>1 DEF FirstMutexOnly
    <3> QED
      BY <1>2, <3>1, <3>2 DEF FirstMutexOnly
  <2>2. CASE uncached \/ cached # None
    BY <1>2, <2>2 DEF FirstMutexOnly
  <2> QED
    BY <2>1, <2>2
<1> QED
  BY <1>9, <1>10, <1>11, <1>12, <1>13, <1>14 DEF CacheIInv

\* Whoever is first in the queue gets the mutex.
LEMMA AcquireIInv ==
  ASSUME CacheIInv, NEW c \in Callers, Acquire(c)
  PROVE  CacheIInv'
<1>1. /\ CacheTypeOK /\ (~uncached => executions <= 1) /\ ExecutionsCounted /\ MutexesMade
      /\ QueuesHoldCalls /\ HolderIsFirst /\ FirstMutexOnly
  BY DEF CacheIInv, OneExecution
<1>2. /\ at[c] = "acquiring" /\ at' = [at EXCEPT ![c] = "getting"]
      /\ Head(queue[mutex[c]]) = c
      /\ UNCHANGED <<mutexOf, made, queue, cached, mutex, result, calls, executions, uncached>>
  BY DEF Acquire
<1>3. /\ at \in [Callers -> CallStages] /\ at'[c] = "getting"
      /\ \A d \in Callers : d # c => at'[d] = at[d]
  BY <1>1, <1>2 DEF CacheTypeOK
<1>4. OneExecution'
  BY <1>1, <1>2, <1>3 DEF OneExecution, CacheTypeOK, CallStages
<1>5. ExecutionsCounted'
  BY <1>1, <1>2, NotYetSame DEF ExecutionsCounted, CallStages
<1>6. MutexesMade'
  BY <1>1, <1>2, <1>3 DEF MutexesMade
<1>7. QueuesHoldCalls'
  <2>1. \A m \in Mutexes : \A i \in 1..Len(queue[m]) : queue[m][i] \in Callers
    BY <1>1 DEF CacheTypeOK
  <2> QED
    BY <1>1, <1>2, <1>3, <2>1 DEF QueuesHoldCalls
<1>8. HolderIsFirst'
  BY <1>1, <1>2, <1>3 DEF HolderIsFirst
<1>9. FirstMutexOnly'
  BY <1>1, <1>2, <1>3 DEF FirstMutexOnly
<1> QED
  BY <1>4, <1>5, <1>6, <1>7, <1>8, <1>9 DEF CacheIInv

\* A miss: as long as what is returned gets cached, nobody has executed before.
LEMMA MissIInv ==
  ASSUME CacheIInv, NEW c \in Callers, Miss(c)
  PROVE  CacheIInv'
<1> USE CacheAssumption
<1>1. /\ CacheTypeOK /\ (~uncached => executions <= 1) /\ ExecutionsCounted /\ MutexesMade
      /\ QueuesHoldCalls /\ HolderIsFirst /\ FirstMutexOnly
  BY DEF CacheIInv, OneExecution
<1>2. /\ at[c] = "getting" /\ cached = None
      /\ executions' = executions + 1
      /\ at' = [at EXCEPT ![c] = "executing"]
      /\ result' = [result EXCEPT ![c] = executions + 1]
      /\ UNCHANGED <<mutexOf, made, queue, cached, mutex, calls, uncached>>
  BY DEF Miss
<1>3. /\ at \in [Callers -> CallStages] /\ at'[c] = "executing"
      /\ \A d \in Callers : d # c => at'[d] = at[d]
  BY <1>1, <1>2 DEF CacheTypeOK
<1>4. ExecutionsCounted' /\ executions + 1 <= calls
  <2>1. IsFiniteSet(NotYet') /\ Cardinality(NotYet') = Cardinality(NotYet) - 1
    BY <1>2, NotYetLoses
  <2>2. Cardinality(NotYet) \in Nat /\ Cardinality(NotYet') \in Nat
    BY <1>1, <2>1, FS_CardinalityType DEF ExecutionsCounted
  <2> QED
    BY <1>1, <1>2, <2>1, <2>2 DEF ExecutionsCounted, CacheTypeOK
<1>5. CacheTypeOK'
  <2>1. result' \in [Callers -> Results \cup {None}]
    BY <1>1, <1>2, <1>4 DEF CacheTypeOK, Results
  <2>2. at' \in [Callers -> CallStages]
    BY <1>2, <1>3 DEF CallStages
  <2>3. executions' \in 0..calls'
    BY <1>1, <1>2, <1>4 DEF CacheTypeOK
  <2> QED
    BY <1>1, <1>2, <1>3, <2>1, <2>2, <2>3 DEF CacheTypeOK
<1>6. ASSUME ~uncached PROVE executions = 0
  <2>1. SUFFICES ASSUME executions # 0 PROVE FALSE
    OBVIOUS
  <2>2. executions > 0
    BY <1>1, <2>1 DEF CacheTypeOK
  <2>3. PICK d \in Callers : at[d] \in {"executing", "setting"}
    BY <1>1, <1>2, <1>6, <2>2 DEF FirstMutexOnly
  <2>4. mutex[c] \in Mutexes /\ mutex[d] \in Mutexes /\ mutex[c] <= made /\ mutex[d] <= made
    BY <1>1, <1>2, <2>3 DEF CacheTypeOK, MutexesMade
  <2>5. mutex[c] = mutex[d]
    BY <1>1, <1>2, <1>6, <2>4 DEF FirstMutexOnly, Mutexes, CacheTypeOK
  <2>6. c = d
    BY <1>2, <2>3, <2>5, OneHolder DEF Holding
  <2> QED
    BY <1>2, <2>3, <2>6
<1>7. OneExecution'
  BY <1>2, <1>5, <1>6 DEF OneExecution
<1>8. MutexesMade'
  BY <1>1, <1>2, <1>3 DEF MutexesMade
<1>9. QueuesHoldCalls' /\ HolderIsFirst'
  BY <1>2, <1>3, QueuesKept DEF Holding
<1>10. FirstMutexOnly'
  BY <1>1, <1>2, <1>3 DEF FirstMutexOnly
<1> QED
  BY <1>4, <1>7, <1>8, <1>9, <1>10 DEF CacheIInv

\* The method's answer changes nothing else.
LEMMA ReturnIInv ==
  ASSUME CacheIInv, NEW c \in Callers, Return(c)
  PROVE  CacheIInv'
<1>1. /\ CacheTypeOK /\ (~uncached => executions <= 1) /\ ExecutionsCounted /\ MutexesMade
      /\ QueuesHoldCalls /\ HolderIsFirst /\ FirstMutexOnly
  BY DEF CacheIInv, OneExecution
<1>2. /\ at[c] = "executing" /\ at' = [at EXCEPT ![c] = "setting"]
      /\ result' = result \/ result' = [result EXCEPT ![c] = None]
      /\ UNCHANGED <<mutexOf, made, queue, cached, mutex, calls, executions, uncached>>
  BY DEF Return
<1>3. /\ at \in [Callers -> CallStages] /\ at'[c] = "setting"
      /\ \A d \in Callers : d # c => at'[d] = at[d]
  BY <1>1, <1>2 DEF CacheTypeOK
<1>4. OneExecution'
  <2>1. result' \in [Callers -> Results \cup {None}]
    BY <1>1, <1>2 DEF CacheTypeOK
  <2>2. at' \in [Callers -> CallStages]
    BY <1>2, <1>3 DEF CallStages
  <2> QED
    BY <1>1, <1>2, <1>3, <2>1, <2>2 DEF OneExecution, CacheTypeOK
<1>5. ExecutionsCounted'
  BY <1>1, <1>2, NotYetSame DEF ExecutionsCounted, CallStages
<1>6. MutexesMade'
  BY <1>1, <1>2, <1>3 DEF MutexesMade
<1>7. QueuesHoldCalls' /\ HolderIsFirst'
  BY <1>2, <1>3, QueuesKept DEF Holding
<1>8. FirstMutexOnly'
  BY <1>1, <1>2, <1>3 DEF FirstMutexOnly
<1> QED
  BY <1>4, <1>5, <1>6, <1>7, <1>8 DEF CacheIInv

\* A call leaves with something in the cache, or is counted as uncached.
LEMMA LeaveIInv ==
  ASSUME CacheIInv, NEW c \in Callers, at[c] \in Holding,
         NEW got \in Results \cup {None}, Leave(c, got),
         cached' \in Results \cup {None}, uncached' \in BOOLEAN,
         uncached => uncached', cached' = None => uncached',
         UNCHANGED <<made, mutex, calls, executions>>
  PROVE  CacheIInv'
<1> USE CacheAssumption
<1>1. /\ CacheTypeOK /\ (~uncached => executions <= 1) /\ ExecutionsCounted /\ MutexesMade
  BY DEF CacheIInv, OneExecution
<1>2. /\ mutexOf' = None
      /\ at' = [at EXCEPT ![c] = "idle"]
      /\ result' = [result EXCEPT ![c] = got]
  BY DEF Leave
<1>3. /\ at \in [Callers -> CallStages] /\ at'[c] = "idle"
      /\ \A d \in Callers : d # c => at'[d] = at[d]
  BY <1>1, <1>2 DEF CacheTypeOK
<1>4. queue' \in [Mutexes -> Seq(Callers)] /\ QueuesHoldCalls' /\ HolderIsFirst'
  BY LeaveQueues
<1>5. OneExecution'
  <2>1. result' \in [Callers -> Results \cup {None}]
    BY <1>1, <1>2 DEF CacheTypeOK
  <2>2. at' \in [Callers -> CallStages]
    BY <1>2, <1>3 DEF CallStages
  <2>3. \A d \in Callers : at'[d] # "idle" => mutex'[d] # None
    BY <1>1, <1>3 DEF CacheTypeOK
  <2> QED
    BY <1>1, <1>2, <1>4, <2>1, <2>2, <2>3 DEF OneExecution, CacheTypeOK
<1>6. ExecutionsCounted'
  <2>1. Cardinality(NotYet) \in Nat
    BY <1>1, FS_CardinalityType DEF ExecutionsCounted
  <2>2. CASE at[c] = "getting"
    <3>1. IsFiniteSet(NotYet') /\ Cardinality(NotYet') = Cardinality(NotYet) - 1
      BY <1>2, <2>2, NotYetLoses
    <3> QED
      BY <1>1, <2>1, <3>1 DEF ExecutionsCounted, CacheTypeOK
  <2>3. CASE at[c] # "getting"
    <3>1. NotYet' = NotYet
      BY <1>2, <2>3, NotYetSame DEF Holding, CallStages
    <3> QED
      BY <1>1, <3>1 DEF ExecutionsCounted
  <2> QED
    BY <2>2, <2>3
<1>7. MutexesMade'
  <2>1. None <= made'
    BY <1>1 DEF CacheTypeOK, None
  <2> QED
    BY <1>1, <1>2, <1>3, <2>1 DEF MutexesMade
<1>8. FirstMutexOnly'
  BY DEF FirstMutexOnly
<1> QED
  BY <1>4, <1>5, <1>6, <1>7, <1>8 DEF CacheIInv

\* Expiry makes misses of everything to come.
LEMMA ExpireIInv ==
  ASSUME CacheIInv, Expire
  PROVE  CacheIInv'
<1> USE DEF Expire
<1>1. /\ CacheTypeOK /\ ExecutionsCounted /\ MutexesMade /\ QueuesHoldCalls /\ HolderIsFirst
  BY DEF CacheIInv, OneExecution
<1>2. OneExecution'
  BY <1>1 DEF OneExecution, CacheTypeOK
<1>3. NotYet' = NotYet
  BY DEF NotYet
<1>4. ExecutionsCounted' /\ MutexesMade'
  BY <1>1, <1>3 DEF ExecutionsCounted, MutexesMade
<1>5. QueuesHoldCalls' /\ HolderIsFirst'
  BY QueuesKept
<1>6. FirstMutexOnly'
  BY DEF FirstMutexOnly
<1> QED
  BY <1>2, <1>4, <1>5, <1>6 DEF CacheIInv

-----------------------------------------------------------------------------
\* The queues of the mutexes, who holds them and what has been executed and cached stay
\* consistent, whatever calls, errors and expiries come in between.
THEOREM CacheableInvariance == CacheSpec => []CacheIInv
<1>1. ASSUME CacheIInv, [CacheNext]_cacheVars PROVE CacheIInv'
  <2>1. CacheTypeOK
    BY <1>1 DEF CacheIInv, OneExecution
  <2>2. CASE Expire
    BY <1>1, <2>2, ExpireIInv
  <2>3. ASSUME NEW c \in Callers, Call(c) PROVE CacheIInv'
    BY <1>1, <2>3, CallIInv
  <2>4. ASSUME NEW c \in Callers, Acquire(c) PROVE CacheIInv'
    BY <1>1, <2>4, AcquireIInv
  <2>5. ASSUME NEW c \in Callers, Hit(c) PROVE CacheIInv'
    <3>1. at[c] \in Holding /\ cached \in Results /\ Leave(c, cached)
      BY <2>1, <2>5 DEF Hit, Holding, CacheTypeOK
    <3>2. cached' = cached /\ cached' # None /\ uncached' = uncached /\ uncached' \in BOOLEAN
      BY <2>1, <2>5 DEF Hit, CacheTypeOK
    <3> QED
      BY <1>1, <2>5, <3>1, <3>2, LeaveIInv DEF Hit
  <2>6. ASSUME NEW c \in Callers, Miss(c) PROVE CacheIInv'
    BY <1>1, <2>6, MissIInv
  <2>7. ASSUME NEW c \in Callers, Return(c) PROVE CacheIInv'
    BY <1>1, <2>7, ReturnIInv
  <2>8. ASSUME NEW c \in Callers, Set(c) PROVE CacheIInv'
    <3>1. at[c] \in Holding /\ result[c] \in Results \cup {None} /\ Leave(c, result[c])
      BY <2>1, <2>8 DEF Set, Holding, CacheTypeOK
    <3>2. cached' = result[c] /\ uncached' = (uncached \/ result[c] = None) /\ uncached' \in BOOLEAN
      BY <2>1, <2>8 DEF Set, CacheTypeOK
    <3> QED
      BY <1>1, <2>8, <3>1, <3>2, LeaveIInv DEF Set
  <2>9. ASSUME NEW c \in Callers, Reject(c) PROVE CacheIInv'
    <3>1. at[c] \in Holding /\ Leave(c, None) /\ uncached' = TRUE
      BY <2>9 DEF Reject, Holding
    <3>2. cached' \in Results \cup {None}
      BY <2>1, <2>9 DEF Reject, CacheTypeOK
    <3> QED
      BY <1>1, <2>9, <3>1, <3>2, LeaveIInv DEF Reject
  <2>10. CASE UNCHANGED cacheVars
    <3>1. UNCHANGED <<queue, mutex, at>> /\ NotYet' = NotYet
      BY <2>10 DEF cacheVars, NotYet
    <3>2. QueuesHoldCalls' /\ HolderIsFirst'
      BY <1>1, <3>1, QueuesKept
    <3> QED
      BY <1>1, <2>10, <3>1, <3>2
      DEF cacheVars, CacheIInv, OneExecution, CacheTypeOK, ExecutionsCounted, MutexesMade, FirstMutexOnly
  <2> QED
    BY <1>1, <2>2, <2>3, <2>4, <2>5, <2>6, <2>7, <2>8, <2>9, <2>10 DEF CacheNext, CallStep
<1> QED
  BY <1>1, CacheInitially, PTL DEF CacheSpec

\* The method is executed once as long as every call leaves its result in the cache
\* and it stays there, for any number of callers, calls and mutexes.
THEOREM OneExecutionCorrect == CacheSpec => []OneExecution
<1>1. CacheIInv => OneExecution
  BY DEF CacheIInv
<1> QED
  BY <1>1, CacheableInvariance, PTL

\* What the lock does guarantee: calls under the same mutex exclude each other from
\* the cache look-up to the store, also after an error, a null or an expiry.
THEOREM HoldersExclude ==
  CacheSpec => [](\A c, d \in Callers :
                at[c] \in Holding /\ at[d] \in Holding /\ mutex[c] = mutex[d] => c = d)
<1>1. CacheIInv => \A c, d \in Callers :
                at[c] \in Holding /\ at[d] \in Holding /\ mutex[c] = mutex[d] => c = d
  BY OneHolder
<1> QED
  BY <1>1, CacheableInvariance, PTL
=============================================================================
