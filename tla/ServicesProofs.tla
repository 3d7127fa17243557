--------------------------- MODULE ServicesProofs ----------------------------
(***************************************************************************)
(* Proofs about what the services answer of Fil+, whatever is in their     *)
(* tables: the checks of the reports, the scores, the weekly views, the    *)
(* allocations, the dashboard and what stays of the past.                  *)
(***************************************************************************)
EXTENDS PoRepProofs, Dashboard

-----------------------------------------------------------------------------
(* The sums of the Fil+ tables are sums of functions *)

SizeOf(set) == [k \in set |-> Size[k.piece]]
TotalStep(g, S) ==
  [s \in SUBSET S |-> IF s = {} THEN 0 ELSE Size[Chosen(s).piece] + g[s \ {Chosen(s)}]]

\* The size of some claims.
LEMMA TotalIs ==
  ASSUME NEW S
  PROVE  Total(S) = SumOver(S, SizeOf(S))
<1>1. \A g : TotalStep(g, S) = [s \in SUBSET S |-> IF s = {} THEN 0 ELSE SizeOf(S)[Chosen(s)] + g[s \ {Chosen(s)}]]
  <2>1. \A s \in SUBSET S : s # {} => SizeOf(S)[Chosen(s)] = Size[Chosen(s).piece]
    BY DEF SizeOf, Chosen
  <2>2. QED
    BY <2>1 DEF TotalStep
<1>2. \A g : g = TotalStep(g, S) <=> IsSumming(g, S, SizeOf(S))
  BY <1>1 DEF IsSumming
<1>3. (CHOOSE g : g = TotalStep(g, S)) = Summing(S, SizeOf(S))
  BY <1>2 DEF Summing
<1>4. Total(S) = (CHOOSE g : g = TotalStep(g, S))[S]
  BY Zenon DEF Total, MapThenSumSet, MapThenFoldSet, TotalStep, Chosen
<1>5. QED
  BY <1>3, <1>4, SumIsSumming

\* The size of the pieces of some claims.
LEMMA UniqueIs ==
  ASSUME NEW S
  PROVE  Unique(S) = SumOver(PiecesOf(S), Size)
  BY Zenon DEF Unique, SumOver

TotalColumn(rows) == [x \in DOMAIN rows |-> rows[x].total]
UniqueColumn(rows) == [x \in DOMAIN rows |-> rows[x].unique]
TotalColumnStep(g, rows) ==
  [s \in SUBSET DOMAIN rows |-> IF s = {} THEN 0 ELSE rows[Chosen(s)].total + g[s \ {Chosen(s)}]]
UniqueColumnStep(g, rows) ==
  [s \in SUBSET DOMAIN rows |-> IF s = {} THEN 0 ELSE rows[Chosen(s)].unique + g[s \ {Chosen(s)}]]
SumOfTotals(rows) == SumOfRows(rows, LAMBDA row : row.total)
SumOfUnique(rows) == SumOfRows(rows, LAMBDA row : row.unique)

\* A sum over the totals of rows.
LEMMA SumOfTotalsIs ==
  ASSUME NEW rows
  PROVE  SumOfTotals(rows) = SumOver(DOMAIN rows, TotalColumn(rows))
<1> DEFINE S == DOMAIN rows
           f == TotalColumn(rows)
<1>1. \A g : TotalColumnStep(g, rows) = [s \in SUBSET S |-> IF s = {} THEN 0 ELSE f[Chosen(s)] + g[s \ {Chosen(s)}]]
  <2>1. \A s \in SUBSET S : s # {} => f[Chosen(s)] = rows[Chosen(s)].total
    BY DEF TotalColumn, Chosen
  <2>2. QED
    BY <2>1 DEF TotalColumnStep
<1>2. \A g : g = TotalColumnStep(g, rows) <=> IsSumming(g, S, f)
  BY <1>1 DEF IsSumming
<1>3. (CHOOSE g : g = TotalColumnStep(g, rows)) = Summing(S, f)
  BY <1>2 DEF Summing
<1>4. SumOfTotals(rows) = (CHOOSE g : g = TotalColumnStep(g, rows))[S]
  BY Zenon DEF SumOfTotals, SumOfRows, MapThenSumSet, MapThenFoldSet, TotalColumnStep, Chosen
<1>5. QED
  BY <1>3, <1>4, SumIsSumming

\* A sum over the unique data of rows.
LEMMA SumOfUniqueIs ==
  ASSUME NEW rows
  PROVE  SumOfUnique(rows) = SumOver(DOMAIN rows, UniqueColumn(rows))
<1> DEFINE S == DOMAIN rows
           f == UniqueColumn(rows)
<1>1. \A g : UniqueColumnStep(g, rows) = [s \in SUBSET S |-> IF s = {} THEN 0 ELSE f[Chosen(s)] + g[s \ {Chosen(s)}]]
  <2>1. \A s \in SUBSET S : s # {} => f[Chosen(s)] = rows[Chosen(s)].unique
    BY DEF UniqueColumn, Chosen
  <2>2. QED
    BY <2>1 DEF UniqueColumnStep
<1>2. \A g : g = UniqueColumnStep(g, rows) <=> IsSumming(g, S, f)
  BY <1>1 DEF IsSumming
<1>3. (CHOOSE g : g = UniqueColumnStep(g, rows)) = Summing(S, f)
  BY <1>2 DEF Summing
<1>4. SumOfUnique(rows) = (CHOOSE g : g = UniqueColumnStep(g, rows))[S]
  BY Zenon DEF SumOfUnique, SumOfRows, MapThenSumSet, MapThenFoldSet, UniqueColumnStep, Chosen
<1>5. QED
  BY <1>3, <1>4, SumIsSumming

ShareColumn(r, S) == [n \in S |-> r.replicas[n].percentage]
ShareStep(g, r, S) ==
  [s \in SUBSET S |-> IF s = {} THEN 0 ELSE r.replicas[Chosen(s)].percentage + g[s \ {Chosen(s)}]]
ShareOf(r, S) == MapThenSumSet(LAMBDA n : r.replicas[n].percentage, S)

\* A share of the replicas.
LEMMA ShareIs ==
  ASSUME NEW r, NEW S
  PROVE  ShareOf(r, S) = SumOver(S, ShareColumn(r, S))
<1> DEFINE f == ShareColumn(r, S)
<1>1. \A g : ShareStep(g, r, S) = [s \in SUBSET S |-> IF s = {} THEN 0 ELSE f[Chosen(s)] + g[s \ {Chosen(s)}]]
  <2>1. \A s \in SUBSET S : s # {} => f[Chosen(s)] = r.replicas[Chosen(s)].percentage
    BY DEF ShareColumn, Chosen
  <2>2. QED
    BY <2>1 DEF ShareStep
<1>2. \A g : g = ShareStep(g, r, S) <=> IsSumming(g, S, f)
  BY <1>1 DEF IsSumming
<1>3. (CHOOSE g : g = ShareStep(g, r, S)) = Summing(S, f)
  BY <1>2 DEF Summing
<1>4. ShareOf(r, S) = (CHOOSE g : g = ShareStep(g, r, S))[S]
  BY Zenon DEF ShareOf, MapThenSumSet, MapThenFoldSet, ShareStep, Chosen
<1>5. QED
  BY <1>3, <1>4, SumIsSumming

-----------------------------------------------------------------------------
(* The chain of Fil+ *)

\* Nobody claims more than the datacap it was allocated.
FilPlusTypeOK ==
  /\ today \in Days
  /\ allocations \subseteq Allocation /\ IsFiniteSet(allocations)
  /\ claims \subseteq Claim /\ IsFiniteSet(claims)
FilPlusInv == FilPlusTypeOK /\ \A c \in Clients : AvailableDatacap(c) >= 0

\* Any claims have a size, which no other claims make smaller.
LEMMA TotalOfClaims ==
  ASSUME NEW R \in SUBSET Claim, IsFiniteSet(R), NEW S \in SUBSET R
  PROVE  /\ IsFiniteSet(S)
         /\ \A k \in R : SizeOf(R)[k] \in Nat /\ SizeOf(R)[k] >= 1
         /\ Total(S) = SumOver(S, SizeOf(R))
         /\ Total(S) \in Nat /\ Total(S) <= Total(R)
<1>1. IsFiniteSet(S)
  BY FS_Subset
<1>2. \A k \in R : SizeOf(R)[k] \in Nat /\ SizeOf(R)[k] >= 1 /\ SizeOf(R)[k] \in Int
  BY FilPlusAssumption DEF SizeOf, Claim
<1>3. \A k \in S : SizeOf(S)[k] \in Int /\ SizeOf(S)[k] = SizeOf(R)[k]
  <2>1. \A k \in S : SizeOf(S)[k] = Size[k.piece] /\ SizeOf(R)[k] = Size[k.piece]
    BY DEF SizeOf
  <2>2. QED
    BY <1>2, <2>1
<1>4. SumOver(S, SizeOf(S)) = SumOver(S, SizeOf(R))
  BY <1>1, <1>3, SumEqual
<1>5. Total(S) = SumOver(S, SizeOf(R)) /\ Total(R) = SumOver(R, SizeOf(R))
  BY <1>4, TotalIs
<1>6. 0 <= SumOver(S, SizeOf(R)) /\ SumOver(S, SizeOf(R)) <= SumOver(R, SizeOf(R))
  BY <1>2, SumPart
<1>7. SumOver(S, SizeOf(R)) \in Int
  BY <1>1, <1>2, SumType
<1>8. QED
  BY <1>1, <1>2, <1>5, <1>6, <1>7

\* Some claims have some size.
LEMMA TotalPositive ==
  ASSUME NEW R \in SUBSET Claim, IsFiniteSet(R), NEW k \in R
  PROVE  Total(R) >= 1
<1>1. \A j \in R : SizeOf(R)[j] \in Int
  BY TotalOfClaims
<1>2. SumOver(R, SizeOf(R)) = SizeOf(R)[k] + SumOver(R \ {k}, SizeOf(R))
  BY <1>1, SumRemove
<1>3. Total(R) = SumOver(R, SizeOf(R)) /\ SizeOf(R)[k] >= 1 /\ SizeOf(R)[k] \in Nat
  BY TotalOfClaims
<1>4. Total(R \ {k}) = SumOver(R \ {k}, SizeOf(R)) /\ Total(R \ {k}) \in Nat
  BY TotalOfClaims
<1>5. QED
  BY <1>2, <1>3, <1>4

\* Another claim adds its size.
LEMMA TotalAdd ==
  ASSUME NEW R \in SUBSET Claim, IsFiniteSet(R), NEW k \in Claim, k \notin R
  PROVE  Total(R \cup {k}) = Size[k.piece] + Total(R)
<1> DEFINE Q == R \cup {k}
<1>1. Q \in SUBSET Claim /\ IsFiniteSet(Q) /\ R \in SUBSET Q
  BY FS_AddElement
<1>2. \A j \in Q : SizeOf(Q)[j] \in Int
  <2> HIDE DEF Q
  <2> QED BY <1>1, TotalOfClaims
<1>3. Total(Q) = SumOver(Q, SizeOf(Q)) /\ Total(R) = SumOver(R, SizeOf(Q))
  <2> HIDE DEF Q
  <2> QED BY <1>1, TotalOfClaims
<1>4. SumOver(Q, SizeOf(Q)) = SizeOf(Q)[k] + SumOver(R, SizeOf(Q))
  BY <1>2, SumAdd
<1>5. SizeOf(Q)[k] = Size[k.piece]
  BY DEF SizeOf
<1>6. QED
  BY <1>3, <1>4, <1>5

\* The pieces of some claims have a size.
LEMMA UniqueOfClaims ==
  ASSUME NEW R \in SUBSET Claim, IsFiniteSet(R), NEW S \in SUBSET R
  PROVE  /\ IsFiniteSet(PiecesOf(R)) /\ PiecesOf(S) \subseteq PiecesOf(R)
         /\ \A x \in PiecesOf(R) : Size[x] \in Nat
         /\ Unique(S) \in Nat /\ Unique(S) <= Unique(R)
<1>1. IsFiniteSet(PiecesOf(R)) /\ PiecesOf(S) \subseteq PiecesOf(R)
  <2> DEFINE piece == [k \in R |-> k.piece]
  <2>1. PiecesOf(R) = {piece[k] : k \in R}
    BY DEF PiecesOf
  <2>2. IsFiniteSet({piece[k] : k \in R})
    BY ImageSize
  <2>3. QED
    BY <2>1, <2>2 DEF PiecesOf
<1>2. \A x \in PiecesOf(R) : Size[x] \in Nat /\ Size[x] \in Int
  BY FilPlusAssumption DEF PiecesOf, Claim
<1>3. 0 <= SumOver(PiecesOf(S), Size) /\ SumOver(PiecesOf(S), Size) <= SumOver(PiecesOf(R), Size)
  BY <1>1, <1>2, SumPart
<1>4. SumOver(PiecesOf(S), Size) \in Int
  BY <1>1, <1>2, SumType, FS_Subset
<1>5. QED
  BY <1>1, <1>2, <1>3, <1>4, UniqueIs

\* What a client has of the chain.
LEMMA ClientFacts ==
  ASSUME FilPlusTypeOK, NEW c
  PROVE  /\ ClaimsOf(c) \in SUBSET Claim /\ IsFiniteSet(ClaimsOf(c))
         /\ ReceivedBy(c) \in SUBSET Allocation /\ IsFiniteSet(ReceivedBy(c))
         /\ Total(ClaimsOf(c)) \in Nat /\ Received(ReceivedBy(c)) \in Nat
         /\ AvailableDatacap(c) \in Int
<1>1. ClaimsOf(c) \in SUBSET Claim /\ IsFiniteSet(ClaimsOf(c))
  BY FS_Subset DEF FilPlusTypeOK, ClaimsOf
<1>2. ReceivedBy(c) \in SUBSET Allocation /\ IsFiniteSet(ReceivedBy(c))
  BY FS_Subset DEF FilPlusTypeOK, ReceivedBy
<1>3. Total(ClaimsOf(c)) \in Nat
  BY <1>1, TotalOfClaims
<1>4. Received(ReceivedBy(c)) \in Nat
  <2>1. Cardinality(ReceivedBy(c)) \in Nat
    BY <1>2, FS_CardinalityType
  <2>2. QED
    BY <2>1, FilPlusAssumption DEF Received
<1>5. QED
  BY <1>1, <1>2, <1>3, <1>4 DEF AvailableDatacap

\* An allocation adds to the datacap of its client.
LEMMA AllocateStep ==
  ASSUME FilPlusInv, NEW a \in Allocators, NEW c \in Clients, Allocate(a, c)
  PROVE  FilPlusInv'
<1> DEFINE new == [allocator |-> a, client |-> c, day |-> today]
<1>1. FilPlusTypeOK'
  <2>1. new \in Allocation
    BY DEF FilPlusInv, FilPlusTypeOK, Allocation
  <2>2. allocations' = allocations \cup {new} /\ UNCHANGED <<today, claims>>
    BY DEF Allocate
  <2>3. IsFiniteSet(allocations')
    BY <2>2, FS_AddElement DEF FilPlusInv, FilPlusTypeOK
  <2>4. QED
    BY <2>1, <2>2, <2>3 DEF FilPlusInv, FilPlusTypeOK
<1>2. ASSUME NEW e \in Clients PROVE AvailableDatacap(e)' >= 0
  <2>1. ReceivedBy(e) \subseteq ReceivedBy(e)'
    BY DEF ReceivedBy, Allocate
  <2>2. IsFiniteSet(ReceivedBy(e)')
    <3>1. FilPlusTypeOK' => IsFiniteSet(ReceivedBy(e)')
      BY FS_Subset DEF FilPlusTypeOK, ReceivedBy
    <3>2. QED
      BY <1>1, <3>1
  <2>3. Cardinality(ReceivedBy(e)) <= Cardinality(ReceivedBy(e)')
    BY <2>1, <2>2, FS_Subset
  <2>4. Cardinality(ReceivedBy(e)) \in Nat /\ Cardinality(ReceivedBy(e)') \in Nat
    BY <2>1, <2>2, FS_Subset, FS_CardinalityType
  <2>5. Received(ReceivedBy(e)) <= Received(ReceivedBy(e)')
    BY <2>3, <2>4, FilPlusAssumption DEF Received
  <2>6. Received(ReceivedBy(e)) \in Int /\ Received(ReceivedBy(e)') \in Int
    BY <2>4, FilPlusAssumption DEF Received
  <2>7. Total(ClaimsOf(e)') = Total(ClaimsOf(e)) /\ Total(ClaimsOf(e)) \in Int
    <3>1. ClaimsOf(e)' = ClaimsOf(e)
      BY DEF ClaimsOf, Allocate
    <3>2. QED
      BY <3>1, ClientFacts DEF FilPlusInv
  <2>8. Received(ReceivedBy(e)) - Total(ClaimsOf(e)) >= 0
    BY DEF FilPlusInv, AvailableDatacap
  <2>9. AvailableDatacap(e)' = Received(ReceivedBy(e)') - Total(ClaimsOf(e)')
    BY DEF AvailableDatacap
  <2>10. QED
    BY <2>5, <2>6, <2>7, <2>8, <2>9
<1>3. QED
  BY <1>1, <1>2 DEF FilPlusInv

\* A claim takes what is available.
LEMMA ClaimStep ==
  ASSUME FilPlusInv, NEW c \in Clients, NEW p \in Providers, NEW piece \in Pieces, ClaimPiece(c, p, piece)
  PROVE  FilPlusInv'
<1> DEFINE new == [client |-> c, provider |-> p, piece |-> piece, day |-> today]
<1>0. new \in Claim /\ new.client = c /\ new.piece = piece
  BY DEF FilPlusInv, FilPlusTypeOK, Claim
<1>1. /\ claims' = claims \cup {new} /\ UNCHANGED <<today, allocations>>
      /\ new \notin claims /\ AvailableDatacap(c) >= Size[piece]
  BY DEF ClaimPiece
<1> HIDE DEF new
<1>2. FilPlusTypeOK'
  <2>3. IsFiniteSet(claims')
    BY <1>1, FS_AddElement DEF FilPlusInv, FilPlusTypeOK
  <2>4. QED
    BY <1>0, <1>1, <2>3 DEF FilPlusInv, FilPlusTypeOK
<1>3. ASSUME NEW e \in Clients PROVE AvailableDatacap(e)' >= 0
  <2>1. AvailableDatacap(e)' = Received(ReceivedBy(e)') - Total(ClaimsOf(e)')
    BY DEF AvailableDatacap
  <2>2. ReceivedBy(e)' = ReceivedBy(e) /\ Received(ReceivedBy(e)) \in Int /\ Total(ClaimsOf(e)) \in Int
    <3>1. ReceivedBy(e)' = ReceivedBy(e)
      BY <1>1 DEF ReceivedBy
    <3>2. QED
      BY <3>1, ClientFacts DEF FilPlusInv
  <2>3. AvailableDatacap(e) = Received(ReceivedBy(e)) - Total(ClaimsOf(e)) /\ AvailableDatacap(e) >= 0
    BY DEF FilPlusInv, AvailableDatacap
  <2>4. Received(ReceivedBy(e)') = Received(ReceivedBy(e))
    BY <2>2
  <2>5. CASE e # c
    <3>1. ClaimsOf(e)' = ClaimsOf(e)
      BY <1>0, <1>1, <2>5 DEF ClaimsOf
    <3>2. Total(ClaimsOf(e)') = Total(ClaimsOf(e))
      BY <3>1
    <3>3. QED
      BY <2>1, <2>2, <2>3, <2>4, <3>2
  <2>6. CASE e = c
    <3>1. ClaimsOf(e)' = ClaimsOf(e) \cup {new} /\ new \notin ClaimsOf(e)
      BY <1>0, <1>1, <2>6 DEF ClaimsOf
    <3>2. ClaimsOf(e) \in SUBSET Claim /\ IsFiniteSet(ClaimsOf(e))
      BY ClientFacts DEF FilPlusInv
    <3>3. Total(ClaimsOf(e) \cup {new}) = Size[piece] + Total(ClaimsOf(e))
      BY <1>0, <3>1, <3>2, TotalAdd
    <3>4. Total(ClaimsOf(e)') = Size[piece] + Total(ClaimsOf(e))
      BY <3>1, <3>3
    <3>5. Size[piece] \in Int
      BY FilPlusAssumption
    <3>6. QED
      BY <1>1, <2>1, <2>2, <2>3, <2>4, <2>6, <3>4, <3>5
  <2>7. QED
    BY <2>5, <2>6
<1>4. QED
  BY <1>2, <1>3 DEF FilPlusInv

\* At the start nobody has anything.
LEMMA FilPlusInitially == FilPlusInit => FilPlusInv
<1> SUFFICES ASSUME FilPlusInit PROVE FilPlusInv
  OBVIOUS
<1>1. FilPlusTypeOK
  BY FilPlusAssumption, FS_EmptySet DEF FilPlusInit, FilPlusTypeOK, Days
<1>2. ASSUME NEW c \in Clients PROVE AvailableDatacap(c) >= 0
  <2>1. ClaimsOf(c) = {}
    BY DEF FilPlusInit, ClaimsOf
  <2>2. Total({}) = 0
    BY TotalIs, SumEmpty
  <2>3. Total(ClaimsOf(c)) = 0
    BY <2>1, <2>2
  <2>4. Received(ReceivedBy(c)) \in Nat
    BY <1>1, ClientFacts
  <2>5. QED
    BY <2>3, <2>4 DEF AvailableDatacap
<1>3. QED
  BY <1>1, <1>2 DEF FilPlusInv

\* No step of the chain leaves the invariant.
LEMMA FilPlusInvariance == FilPlusSpec => []FilPlusInv
<1>1. FilPlusInv /\ [FilPlusNext]_filPlusVars => FilPlusInv'
  <2> SUFFICES ASSUME FilPlusInv, [FilPlusNext]_filPlusVars PROVE FilPlusInv'
    OBVIOUS
  <2>1. ASSUME NEW a \in Allocators, NEW c \in Clients, Allocate(a, c) PROVE FilPlusInv'
    BY <2>1, AllocateStep
  <2>2. ASSUME NEW c \in Clients, NEW p \in Providers, NEW piece \in Pieces, ClaimPiece(c, p, piece)
        PROVE  FilPlusInv'
    BY <2>2, ClaimStep
  <2>3. ASSUME allocations' = allocations, claims' = claims, today' \in Days PROVE FilPlusInv'
    <3>1. FilPlusTypeOK'
      BY <2>3 DEF FilPlusInv, FilPlusTypeOK
    <3>2. ASSUME NEW c \in Clients PROVE AvailableDatacap(c)' = AvailableDatacap(c)
      <4>1. ClaimsOf(c)' = ClaimsOf(c) /\ ReceivedBy(c)' = ReceivedBy(c)
        BY <2>3 DEF ClaimsOf, ReceivedBy
      <4>2. AvailableDatacap(c)' = Received(ReceivedBy(c)') - Total(ClaimsOf(c)')
        BY DEF AvailableDatacap
      <4>3. QED
        BY <4>1, <4>2 DEF AvailableDatacap
    <3>3. QED
      BY <3>1, <3>2 DEF FilPlusInv
  <2>4. CASE NextDay
    <3>1. allocations' = allocations /\ claims' = claims /\ today' \in Days
      BY <2>4, FilPlusAssumption DEF NextDay, FilPlusInv, FilPlusTypeOK, Days
    <3>2. QED
      BY <2>3, <3>1
  <2>5. CASE UNCHANGED filPlusVars
    <3>1. allocations' = allocations /\ claims' = claims /\ today' \in Days
      BY <2>5 DEF filPlusVars, FilPlusInv, FilPlusTypeOK
    <3>2. QED
      BY <2>3, <3>1
  <2>6. QED
    BY <2>1, <2>2, <2>4, <2>5 DEF FilPlusNext
<1>2. QED
  BY <1>1, FilPlusInitially, PTL DEF FilPlusSpec

-----------------------------------------------------------------------------
(* The tables of a client *)

\* Rows with the totals of the claims of each key have the total of all claims.
LEMMA TotalsByKey ==
  ASSUME NEW S \in SUBSET Claim, IsFiniteSet(S), NEW key, NEW rows, IsFiniteSet(DOMAIN rows),
         \A k \in S : key[k] \in DOMAIN rows,
         \A x \in DOMAIN rows : rows[x].total = Total(Fibre(S, key, x))
  PROVE  SumOfTotals(rows) = Total(S)
<1> DEFINE K == DOMAIN rows
           f == SizeOf(S)
<1>1. \A k \in S : f[k] \in Int
  BY TotalOfClaims
<1>2. OfKeys(S, key, K) = S
  BY DEF OfKeys
<1>3. SumOver(S, f) = SumOver(K, FibreSums(S, key, f, K))
  BY ONLY <1>1, <1>2, SumByKey, IsFiniteSet(S), IsFiniteSet(K)
<1>4. \A x \in K : /\ FibreSums(S, key, f, K)[x] \in Int
                   /\ FibreSums(S, key, f, K)[x] = TotalColumn(rows)[x]
  <2> SUFFICES ASSUME NEW x \in K
               PROVE  /\ FibreSums(S, key, f, K)[x] \in Int
                      /\ FibreSums(S, key, f, K)[x] = TotalColumn(rows)[x]
    OBVIOUS
  <2>1. Fibre(S, key, x) \in SUBSET S
    BY DEF Fibre
  <2>2. Total(Fibre(S, key, x)) = SumOver(Fibre(S, key, x), f) /\ Total(Fibre(S, key, x)) \in Nat
    BY <2>1, TotalOfClaims
  <2>3. FibreSums(S, key, f, K)[x] = SumOver(Fibre(S, key, x), f)
    BY DEF FibreSums
  <2>4. TotalColumn(rows)[x] = rows[x].total
    BY DEF TotalColumn
  <2>5. QED
    BY <2>2, <2>3, <2>4
<1>5. SumOver(K, FibreSums(S, key, f, K)) = SumOver(K, TotalColumn(rows))
  BY ONLY <1>4, SumEqual, IsFiniteSet(K)
<1>6. QED
  BY <1>3, <1>5, SumOfTotalsIs, TotalIs

ProviderOf == [k \in Claim |-> k.provider]
ReplicasOf(c) == [k \in Claim |-> Replicas(c, k.piece)]
ProvidersOf(c) == {k.provider : k \in ClaimsOf(c)}
ReplicaNumbers(c) == {Replicas(c, k.piece) : k \in ClaimsOf(c)}

\* A client's rows by provider.
LEMMA DistributionIs ==
  ASSUME FilPlusTypeOK, NEW c
  PROVE  LET rows == ClientProviderDistribution(c)
         IN  /\ DOMAIN rows = ProvidersOf(c) /\ IsFiniteSet(ProvidersOf(c)) /\ ProvidersOf(c) \subseteq Providers
             /\ ProvidersOf(c) = {} => ClaimsOf(c) = {}
             /\ \A p \in ProvidersOf(c) :
                  /\ rows[p] = [total |-> Total(Fibre(ClaimsOf(c), ProviderOf, p)),
                                unique |-> Unique(Fibre(ClaimsOf(c), ProviderOf, p))]
                  /\ Fibre(ClaimsOf(c), ProviderOf, p) \in SUBSET ClaimsOf(c)
                  /\ Fibre(ClaimsOf(c), ProviderOf, p) # {}
<1> DEFINE S == ClaimsOf(c)
           at(p) == {k \in claims : k.client = c /\ k.provider = p}
<1>1. S \in SUBSET Claim /\ IsFiniteSet(S)
  BY ClientFacts
<1>2. ProvidersOf(c) = {ProviderOf[k] : k \in S} /\ ProvidersOf(c) \subseteq Providers
  BY <1>1 DEF ProvidersOf, ProviderOf, Claim
<1>3. IsFiniteSet(ProvidersOf(c))
  BY <1>1, <1>2, ImageSize
<1>4. ClientProviderDistribution(c)
        = [p \in ProvidersOf(c) |-> [total |-> Total(at(p)), unique |-> Unique(at(p))]]
  BY DEF ClientProviderDistribution, Distribution, ProvidersOf, ClaimsOf
<1>5. ASSUME NEW p PROVE at(p) = Fibre(S, ProviderOf, p)
  BY <1>1 DEF Fibre, ProviderOf, ClaimsOf
<1>6. ASSUME NEW p \in ProvidersOf(c)
      PROVE  Fibre(S, ProviderOf, p) \in SUBSET S /\ Fibre(S, ProviderOf, p) # {}
  BY <1>1 DEF Fibre, ProviderOf, ProvidersOf
<1>7. ProvidersOf(c) = {} => ClaimsOf(c) = {}
  BY DEF ProvidersOf
<1>8. DOMAIN ClientProviderDistribution(c) = ProvidersOf(c)
  BY <1>4
<1>9. ASSUME NEW p \in ProvidersOf(c)
      PROVE  ClientProviderDistribution(c)[p] = [total |-> Total(Fibre(ClaimsOf(c), ProviderOf, p)),
                                unique |-> Unique(Fibre(ClaimsOf(c), ProviderOf, p))]
  <2>1. ClientProviderDistribution(c)[p] = [total |-> Total(at(p)), unique |-> Unique(at(p))]
    BY <1>4
  <2>2. QED
    BY <1>5, <2>1
<1> HIDE DEF at
<1>10. QED
  BY <1>2, <1>3, <1>6, <1>7, <1>8, <1>9

\* A client's rows by number of replicas.
LEMMA ReplicaDistributionIs ==
  ASSUME FilPlusTypeOK, NEW c
  PROVE  LET rows == ClientReplicaDistribution(c)
         IN  /\ DOMAIN rows = ReplicaNumbers(c) /\ IsFiniteSet(ReplicaNumbers(c))
             /\ \A n \in ReplicaNumbers(c) :
                  /\ rows[n] = [total |-> Total(Fibre(ClaimsOf(c), ReplicasOf(c), n)),
                                unique |-> Unique(Fibre(ClaimsOf(c), ReplicasOf(c), n))]
                  /\ Fibre(ClaimsOf(c), ReplicasOf(c), n) \in SUBSET ClaimsOf(c)
                  /\ n \in Nat /\ n <= Cardinality(ProvidersOf(c))
<1> DEFINE S == ClaimsOf(c)
           of(n) == {k \in S : Replicas(c, k.piece) = n}
<1>1. S \in SUBSET Claim /\ IsFiniteSet(S)
  BY ClientFacts
<1>2. ReplicaNumbers(c) = {ReplicasOf(c)[k] : k \in S}
  BY <1>1 DEF ReplicaNumbers, ReplicasOf
<1>3. IsFiniteSet(ReplicaNumbers(c))
  BY <1>1, <1>2, ImageSize
<1>4. ClientReplicaDistribution(c)
        = [n \in ReplicaNumbers(c) |-> [total |-> Total(of(n)), unique |-> Unique(of(n))]]
  BY DEF ClientReplicaDistribution, ReplicaNumbers
<1>5. ASSUME NEW n PROVE of(n) = Fibre(S, ReplicasOf(c), n)
  BY <1>1 DEF Fibre, ReplicasOf
<1>6. ASSUME NEW n PROVE Fibre(S, ReplicasOf(c), n) \in SUBSET S
  BY DEF Fibre
<1>7. ASSUME NEW n \in ReplicaNumbers(c) PROVE n \in Nat /\ n <= Cardinality(ProvidersOf(c))
  <2>1. PICK k \in S : n = Replicas(c, k.piece)
    BY DEF ReplicaNumbers
  <2>2. {j.provider : j \in {i \in ClaimsOf(c) : i.piece = k.piece}} \subseteq ProvidersOf(c)
    BY DEF ProvidersOf
  <2>3. IsFiniteSet(ProvidersOf(c))
    BY DistributionIs
  <2>4. QED
    BY <2>1, <2>2, <2>3, FS_Subset, FS_CardinalityType DEF Replicas
<1>8. DOMAIN ClientReplicaDistribution(c) = ReplicaNumbers(c)
  BY <1>4
<1>9. ASSUME NEW n \in ReplicaNumbers(c)
      PROVE  ClientReplicaDistribution(c)[n] = [total |-> Total(Fibre(ClaimsOf(c), ReplicasOf(c), n)),
                                unique |-> Unique(Fibre(ClaimsOf(c), ReplicasOf(c), n))]
  <2>1. ClientReplicaDistribution(c)[n] = [total |-> Total(of(n)), unique |-> Unique(of(n))]
    BY <1>4
  <2>2. QED
    BY <1>5, <2>1
<1> HIDE DEF of
<1>10. QED
  BY <1>3, <1>6, <1>7, <1>8, <1>9

\* The providers' totals are those of the replicas, and all of them the client's claims.
LEMMA TablesTotal ==
  ASSUME FilPlusTypeOK, NEW c
  PROVE  /\ SumOfTotals(ClientProviderDistribution(c)) = Total(ClaimsOf(c))
         /\ SumOfTotals(ClientReplicaDistribution(c)) = Total(ClaimsOf(c))
<1> DEFINE S == ClaimsOf(c)
<1>1. S \in SUBSET Claim /\ IsFiniteSet(S)
  BY ClientFacts
<1>2. SumOfTotals(ClientProviderDistribution(c)) = Total(S)
  <2> DEFINE rows == ClientProviderDistribution(c)
  <2>1. DOMAIN rows = ProvidersOf(c) /\ IsFiniteSet(DOMAIN rows)
    BY DistributionIs
  <2>2. \A x \in DOMAIN rows : rows[x].total = Total(Fibre(S, ProviderOf, x))
    <3>1. \A x \in ProvidersOf(c) : ClientProviderDistribution(c)[x] = [total |-> Total(Fibre(ClaimsOf(c), ProviderOf, x)),
                                unique |-> Unique(Fibre(ClaimsOf(c), ProviderOf, x))]
      BY DistributionIs
    <3>2. QED
      BY <2>1, <3>1
  <2>3. \A k \in S : ProviderOf[k] \in DOMAIN rows
    BY <1>1, <2>1 DEF ProviderOf, ProvidersOf
  <2> HIDE DEF rows
  <2>4. SumOfTotals(rows) = Total(S)
    BY <1>1, <2>1, <2>2, <2>3, TotalsByKey
  <2>5. QED
    BY <2>4 DEF rows
<1>3. SumOfTotals(ClientReplicaDistribution(c)) = Total(S)
  <2> DEFINE rows == ClientReplicaDistribution(c)
             key == ReplicasOf(c)
  <2>1. DOMAIN rows = ReplicaNumbers(c) /\ IsFiniteSet(DOMAIN rows)
    BY ReplicaDistributionIs
  <2>2. \A x \in DOMAIN rows : rows[x].total = Total(Fibre(S, key, x))
    <3>1. \A x \in ReplicaNumbers(c) : ClientReplicaDistribution(c)[x] = [total |-> Total(Fibre(ClaimsOf(c), ReplicasOf(c), x)),
                                unique |-> Unique(Fibre(ClaimsOf(c), ReplicasOf(c), x))]
      BY ReplicaDistributionIs
    <3>2. QED
      BY <2>1, <3>1
  <2>3. \A k \in S : key[k] \in DOMAIN rows
    BY <1>1, <2>1 DEF ReplicasOf, ReplicaNumbers
  <2> HIDE DEF rows, key
  <2>4. SumOfTotals(rows) = Total(S)
    BY <1>1, <2>1, <2>2, <2>3, TotalsByKey
  <2>5. QED
    BY <2>4 DEF rows
<1>4. QED
  BY <1>2, <1>3

PercentageIn(total, n, c) == BigIntDiv(100 * Total(Fibre(ClaimsOf(c), ReplicasOf(c), n)), total)

\* What a report says of the replicas.
LEMMA ReplicationIs ==
  ASSUME FilPlusTypeOK, NEW c
  PROVE  LET rows == GetReplicationDistribution(c)
         IN  /\ DOMAIN rows = ReplicaNumbers(c)
             /\ \A n \in ReplicaNumbers(c) :
                  rows[n] = [unique |-> Unique(Fibre(ClaimsOf(c), ReplicasOf(c), n)),
                             percentage |-> PercentageIn(Total(ClaimsOf(c)), n, c)]
<1> DEFINE rows == ClientReplicaDistribution(c)
<1>1. DOMAIN rows = ReplicaNumbers(c)
  BY ReplicaDistributionIs
<1>2. \A n \in ReplicaNumbers(c) :
        rows[n] = [total |-> Total(Fibre(ClaimsOf(c), ReplicasOf(c), n)),
                   unique |-> Unique(Fibre(ClaimsOf(c), ReplicasOf(c), n))]
  BY ReplicaDistributionIs
<1>3. SumOfTotals(rows) = Total(ClaimsOf(c))
  BY TablesTotal
<1> HIDE DEF rows
<1>4. GetReplicationDistribution(c)
        = [n \in DOMAIN rows |-> [unique |-> rows[n].unique,
                                  percentage |-> BigIntDiv(100 * rows[n].total, SumOfTotals(rows))]]
  BY Zenon DEF GetReplicationDistribution, SumOfTotals, rows
<1>5. DOMAIN GetReplicationDistribution(c) = ReplicaNumbers(c)
  BY <1>1, <1>4
<1>6. ASSUME NEW n \in ReplicaNumbers(c)
      PROVE  GetReplicationDistribution(c)[n]
               = [unique |-> Unique(Fibre(ClaimsOf(c), ReplicasOf(c), n)),
                  percentage |-> PercentageIn(Total(ClaimsOf(c)), n, c)]
  <2>1. GetReplicationDistribution(c)[n]
          = [unique |-> rows[n].unique, percentage |-> BigIntDiv(100 * rows[n].total, SumOfTotals(rows))]
    BY <1>1, <1>4
  <2>2. /\ rows[n].unique = Unique(Fibre(ClaimsOf(c), ReplicasOf(c), n))
        /\ rows[n].total = Total(Fibre(ClaimsOf(c), ReplicasOf(c), n))
    <3>1. rows[n] = [total |-> Total(Fibre(ClaimsOf(c), ReplicasOf(c), n)),
                     unique |-> Unique(Fibre(ClaimsOf(c), ReplicasOf(c), n))]
      BY <1>2
    <3>2. QED
      BY <3>1
  <2>3. QED
    BY <1>3, <2>1, <2>2 DEF PercentageIn
<1>7. QED
  BY <1>5, <1>6

\* The size of a client's data set is that of its pieces.
LEMMA DataSetSize ==
  ASSUME FilPlusTypeOK, NEW c
  PROVE  SumOfUnique(GetReplicationDistribution(c)) = Unique(ClaimsOf(c))
<1> DEFINE S == PiecesOf(ClaimsOf(c))
           key == [x \in S |-> Replicas(c, x)]
           K == ReplicaNumbers(c)
           rows == GetReplicationDistribution(c)
<1>1. IsFiniteSet(S) /\ \A x \in S : Size[x] \in Int
  BY ClientFacts, UniqueOfClaims
<1>2. IsFiniteSet(K) /\ DOMAIN rows = K
  BY ReplicationIs, ReplicaDistributionIs
<1>3. OfKeys(S, key, K) = S
  BY DEF OfKeys, PiecesOf, ReplicaNumbers
<1>4. SumOver(S, Size) = SumOver(K, FibreSums(S, key, Size, K))
  <2> HIDE DEF S, key, K
  <2> QED BY <1>1, <1>2, <1>3, SumByKey
<1>5. ASSUME NEW n \in K
      PROVE  /\ FibreSums(S, key, Size, K)[n] \in Int
             /\ FibreSums(S, key, Size, K)[n] = UniqueColumn(rows)[n]
  <2> DEFINE of == Fibre(ClaimsOf(c), ReplicasOf(c), n)
  <2>1. FibreSums(S, key, Size, K)[n] = SumOver(Fibre(S, key, n), Size)
    BY DEF FibreSums
  <2>2. Fibre(S, key, n) = PiecesOf(of)
    <3>1. ClaimsOf(c) \in SUBSET Claim
      BY ClientFacts
    <3>2. of = {k \in ClaimsOf(c) : Replicas(c, k.piece) = n}
      BY <3>1 DEF Fibre, ReplicasOf
    <3>3. Fibre(S, key, n) = {x \in S : Replicas(c, x) = n}
      BY DEF Fibre
    <3>4. {x \in S : Replicas(c, x) = n} = {k.piece : k \in {k \in ClaimsOf(c) : Replicas(c, k.piece) = n}}
      BY DEF PiecesOf
    <3>5. QED
      BY <3>2, <3>3, <3>4 DEF PiecesOf
  <2>3. SumOver(Fibre(S, key, n), Size) = Unique(of)
    BY <2>2, UniqueIs
  <2>4. UniqueColumn(rows)[n] = rows[n].unique
    BY <1>2 DEF UniqueColumn
  <2>5. rows[n] = [unique |-> Unique(of), percentage |-> PercentageIn(Total(ClaimsOf(c)), n, c)]
    BY ReplicationIs
  <2>6. Unique(of) \in Nat
    <3>1. ClaimsOf(c) \in SUBSET Claim /\ IsFiniteSet(ClaimsOf(c)) /\ of \in SUBSET ClaimsOf(c)
      BY ClientFacts DEF Fibre
    <3> HIDE DEF of
    <3>2. QED
      BY <3>1, UniqueOfClaims
  <2> HIDE DEF of, S, K, key, rows
  <2>7. rows[n].unique = Unique(of)
    BY <2>5
  <2>8. QED
    BY <2>1, <2>3, <2>4, <2>6, <2>7
<1>6. SumOver(K, FibreSums(S, key, Size, K)) = SumOver(K, UniqueColumn(rows))
  <2> HIDE DEF S, key, K, rows
  <2> QED BY <1>2, <1>5, SumEqual
<1>7. SumOfUnique(rows) = SumOver(K, UniqueColumn(rows))
  BY <1>2, SumOfUniqueIs
<1>8. QED
  BY <1>4, <1>6, <1>7, UniqueIs

\* What a report is made of.
LEMMA ReportIs ==
  ASSUME NEW c
  PROVE  LET r == ClientReport(c)
         IN  /\ r.client = c /\ r.available = AvailableDatacap(c)
             /\ r.distribution = ClientProviderDistribution(c)
             /\ r.replicas = GetReplicationDistribution(c)
             /\ r.cidSharing = CidSharing(c)
             /\ r.uniqueDataSetSize = SumOfUnique(GetReplicationDistribution(c))
BY Zenon DEF ClientReport, SumOfUnique

Shared(c, o) == {k \in ClaimsOf(o) : k.piece \in PiecesOf(ClaimsOf(c))}

\* A client that shares claimed pieces that the other claimed too.
LEMMA SharingIsMutual ==
  ASSUME NEW c \in Clients, NEW o \in DOMAIN CidSharing(c)
  PROVE  /\ o \in Clients \ {c} /\ ClaimsOf(o) # {}
         /\ c \in DOMAIN CidSharing(o)
         /\ CidSharing(o)[c].pieces = CidSharing(c)[o].pieces
<1>1. ASSUME NEW a, NEW b
      PROVE  PiecesOf(Shared(a, b)) = PiecesOf(ClaimsOf(b)) \cap PiecesOf(ClaimsOf(a))
  BY DEF Shared, PiecesOf
<1>2. ASSUME NEW a
      PROVE  CidSharing(a) = [b \in {b \in Clients \ {a} : Shared(a, b) # {}} |->
                 [total |-> Total(Shared(a, b)), pieces |-> Cardinality(PiecesOf(Shared(a, b)))]]
  BY Zenon DEF CidSharing, Shared
<1>3. o \in Clients \ {c} /\ Shared(c, o) # {}
  BY <1>2
<1>4. Shared(o, c) # {}
  <2>1. PiecesOf(Shared(c, o)) # {}
    BY <1>3 DEF PiecesOf
  <2>2. PiecesOf(Shared(o, c)) # {}
    BY <1>1, <2>1
  <2>3. QED
    BY <2>2 DEF PiecesOf
<1>5. c \in DOMAIN CidSharing(o)
  BY <1>2, <1>3, <1>4
<1>6. ASSUME NEW a, NEW b \in DOMAIN CidSharing(a)
      PROVE  CidSharing(a)[b].pieces = Cardinality(PiecesOf(Shared(a, b)))
  <2>1. CidSharing(a)[b] = [total |-> Total(Shared(a, b)), pieces |-> Cardinality(PiecesOf(Shared(a, b)))]
    BY <1>2
  <2>2. QED
    BY <2>1
<1>7. PiecesOf(Shared(o, c)) = PiecesOf(Shared(c, o))
  BY <1>1
<1>8. ClaimsOf(o) # {}
  BY <1>3 DEF Shared
<1>9. QED
  BY <1>3, <1>5, <1>6, <1>7, <1>8

\* The tables a report is made of tell the same claims.
LEMMA TablesAgree ==
  ASSUME FilPlusInv, NEW c \in Clients
  PROVE  TablesTellTheSame(ClientReport(c))
<1> DEFINE r == ClientReport(c)
           spent == SumOfRows(r.distribution, LAMBDA row : row.total)
<1>0. FilPlusTypeOK
  BY DEF FilPlusInv
<1>1. /\ r.client = c /\ r.available = AvailableDatacap(c)
      /\ r.distribution = ClientProviderDistribution(c)
      /\ r.replicas = GetReplicationDistribution(c)
      /\ r.cidSharing = CidSharing(c)
      /\ r.uniqueDataSetSize = Unique(ClaimsOf(c))
  BY <1>0, ReportIs, DataSetSize
<1>2. Used(r) = ProvidersOf(c)
  BY <1>0, <1>1, DistributionIs DEF Used
<1> HIDE DEF r
<1>3. spent = Total(ClaimsOf(c))
  <2>1. spent = SumOfTotals(ClientProviderDistribution(c))
    BY Zenon, <1>1 DEF SumOfTotals
  <2>2. QED
    BY <1>0, <2>1, TablesTotal
<1> HIDE DEF spent
<1>4. spent + r.available = Received(ReceivedBy(r.client)) /\ r.available >= 0
  <2>1. Total(ClaimsOf(c)) \in Int /\ Received(ReceivedBy(c)) \in Int
    BY <1>0, ClientFacts
  <2>2. AvailableDatacap(c) >= 0
    BY DEF FilPlusInv
  <2>3. QED
    BY <1>1, <1>3, <2>1, <2>2 DEF AvailableDatacap
<1>5. ASSUME NEW p \in Used(r) PROVE r.distribution[p].unique <= r.uniqueDataSetSize
  <2> DEFINE at == Fibre(ClaimsOf(c), ProviderOf, p)
  <2>1. /\ r.distribution[p] = [total |-> Total(at), unique |-> Unique(at)] /\ at \in SUBSET ClaimsOf(c)
    BY <1>0, <1>1, <1>2, DistributionIs
  <2> HIDE DEF at
  <2>2. Unique(at) <= Unique(ClaimsOf(c))
    BY <1>0, <2>1, ClientFacts, UniqueOfClaims
  <2>3. QED
    BY <1>1, <2>1, <2>2
<1>6. ASSUME NEW n \in DOMAIN r.replicas PROVE n <= Cardinality(Used(r))
  <2>1. DOMAIN r.replicas = ReplicaNumbers(c)
    BY <1>0, <1>1, ReplicationIs
  <2>2. \A m \in ReplicaNumbers(c) : m <= Cardinality(ProvidersOf(c))
    BY <1>0, ReplicaDistributionIs
  <2>3. QED
    BY <1>2, <2>1, <2>2
<1>7. ASSUME NEW o \in DOMAIN r.cidSharing
      PROVE  CidSharing(o)[r.client].pieces = r.cidSharing[o].pieces
  BY <1>1, SharingIsMutual
<1>8. TablesTellTheSame(r) <=>
        /\ spent + r.available = Received(ReceivedBy(r.client)) /\ r.available >= 0
        /\ \A p \in Used(r) : r.distribution[p].unique <= r.uniqueDataSetSize
        /\ \A n \in DOMAIN r.replicas : n <= Cardinality(Used(r))
        /\ \A o \in DOMAIN r.cidSharing : CidSharing(o)[r.client].pieces = r.cidSharing[o].pieces
  BY Zenon DEF TablesTellTheSame, spent
<1>9. TablesTellTheSame(r)
  BY <1>4, <1>5, <1>6, <1>7, <1>8
<1>10. QED
  BY <1>9 DEF r

-----------------------------------------------------------------------------
(* The checks of a report *)

\* Of a check that passed the report has what its name says.
LEMMA PassedSays ==
  ASSUME NEW r, NEW env, NEW x \in StoreReportChecks(r, env), x.result
  PROVE  /\ x.check = "RETRIEVABILITY_75" => Retrievability75(r)
         /\ x.check = "EXCEED_PROVIDER_DEAL" =>
              env["maxProviderDeal"] # NotSet /\ ExceedingProviderDeal(r, env["maxProviderDeal"])
         /\ x.check = "SAME_LOCATION" => SameLocation(r)
         /\ x.check = "NOT_ENOUGH_COPIES" =>
              env["maxForRequiredCopies"] # NotSet /\ NotEnoughCopies(r, env["maxForRequiredCopies"])
         /\ x.check = "DECLARED_NOT_USED" => DeclaredNotUsed(r)
         /\ x.check = "NOT_DECLARED" => NotDeclared(r, env["maxNotDeclared"])
BY SMT DEF StoreReportChecks, StoreStorageProviderDistributionChecks, StoreDealDataReplicationChecks, Always, Check

\* A client fails the check of sharing when another has pieces of its data.
LEMMA FailedSharing ==
  ASSUME NEW r, NEW env, NEW x \in StoreReportChecks(r, env), ~x.result, x.check = "CID_SHARING"
  PROVE  ~NoCidSharing(r)
BY SMT DEF StoreReportChecks, StoreStorageProviderDistributionChecks, StoreDealDataReplicationChecks, Always, Check

\* A client fails the check of low replicas when too much of its data has few.
LEMMA FailedLowReplica ==
  ASSUME NEW r, NEW env, NEW x \in StoreReportChecks(r, env), ~x.result, x.check = "LOW_REPLICA"
  PROVE  env["maxLowReplica"] # NotSet /\ ~(LowReplicaShare(r) <= 100 * env["maxLowReplica"])
<1>1. x \in StoreDealDataReplicationChecks(r, env)
  BY SMT DEF StoreReportChecks, StoreStorageProviderDistributionChecks, Always, Check
<1>2. x \in Check("LOW_REPLICA", env["maxLowReplica"], LAMBDA s : LowReplicaShare(r) <= 100 * s)
  BY <1>1 DEF StoreDealDataReplicationChecks, Check
<1> DEFINE low == LowReplicaShare(r) <= 100 * env["maxLowReplica"]
<1>3. x \in Check("LOW_REPLICA", env["maxLowReplica"], LAMBDA s : LowReplicaShare(r) <= 100 * s)
      => env["maxLowReplica"] # NotSet /\ x = [check |-> "LOW_REPLICA", result |-> low]
  BY Zenon DEF Check
<1> HIDE DEF low
<1>4. x = [check |-> "LOW_REPLICA", result |-> low] => (x.result <=> low)
  OBVIOUS
<1>5. QED
  BY Zenon, <1>2, <1>3, <1>4 DEF low

\* Checks without a setting are always stored.
LEMMA AlwaysStored ==
  ASSUME NEW r, NEW env
  PROVE  /\ [check |-> "RETRIEVABILITY_ZERO", result |-> RetrievabilityZero(r)] \in StoreReportChecks(r, env)
         /\ [check |-> "CID_SHARING", result |-> NoCidSharing(r)] \in StoreReportChecks(r, env)
<1>1. [check |-> "RETRIEVABILITY_ZERO", result |-> RetrievabilityZero(r)]
        \in Always("RETRIEVABILITY_ZERO", RetrievabilityZero(r))
  BY DEF Always, Check, NotSet
<1>2. [check |-> "CID_SHARING", result |-> NoCidSharing(r)] \in Always("CID_SHARING", NoCidSharing(r))
  BY DEF Always, Check, NotSet
<1>3. Always("CID_SHARING", NoCidSharing(r)) \subseteq StoreReportChecks(r, env)
  BY Zenon DEF StoreReportChecks
<1>4. Always("RETRIEVABILITY_ZERO", RetrievabilityZero(r)) \subseteq StoreStorageProviderDistributionChecks(r, env)
  BY Zenon DEF StoreStorageProviderDistributionChecks
<1>5. StoreStorageProviderDistributionChecks(r, env) \subseteq StoreReportChecks(r, env)
  BY Zenon DEF StoreReportChecks
<1>6. QED
  BY Zenon, <1>1, <1>2, <1>3, <1>4, <1>5

\* The names of the checks that passed and of those that failed.
LEMMA Names ==
  ASSUME NEW c, NEW env, NEW name
  PROVE  /\ name \in Passed(c, env) =>
              \E x \in StoreReportChecks(ClientReport(c), env) : x.result /\ x.check = name
         /\ name \in Failed(c, env) =>
              \E x \in StoreReportChecks(ClientReport(c), env) : ~x.result /\ x.check = name
         /\ RetrievabilityZero(ClientReport(c)) => "RETRIEVABILITY_ZERO" \in Passed(c, env)
         /\ ~NoCidSharing(ClientReport(c)) => "CID_SHARING" \in Failed(c, env)
<1> DEFINE r == ClientReport(c)
           zero == [check |-> "RETRIEVABILITY_ZERO", result |-> RetrievabilityZero(r)]
           sharing == [check |-> "CID_SHARING", result |-> NoCidSharing(r)]
<1>1. zero \in StoreReportChecks(r, env) /\ sharing \in StoreReportChecks(r, env)
  BY AlwaysStored
<1>2. zero.check = "RETRIEVABILITY_ZERO" /\ (zero.result <=> RetrievabilityZero(r))
  OBVIOUS
<1>3. sharing.check = "CID_SHARING" /\ (sharing.result <=> NoCidSharing(r))
  OBVIOUS
<1> HIDE DEF zero, sharing, r
<1>4. /\ name \in Passed(c, env) => \E x \in StoreReportChecks(r, env) : x.result /\ x.check = name
      /\ name \in Failed(c, env) => \E x \in StoreReportChecks(r, env) : ~x.result /\ x.check = name
  BY Zenon DEF Passed, Failed, r
<1>5. RetrievabilityZero(r) => "RETRIEVABILITY_ZERO" \in Passed(c, env)
  <2>1. RetrievabilityZero(r) => zero \in {y \in StoreReportChecks(r, env) : y.result}
    BY Zenon, <1>1, <1>2
  <2>2. QED
    BY Zenon, <1>2, <2>1 DEF Passed, r
<1>6. ~NoCidSharing(r) => "CID_SHARING" \in Failed(c, env)
  <2>1. ~NoCidSharing(r) => sharing \in {y \in StoreReportChecks(r, env) : ~y.result}
    BY Zenon, <1>1, <1>3
  <2>2. QED
    BY Zenon, <1>3, <2>1 DEF Failed, r
<1>7. QED
  BY Zenon, <1>4, <1>5, <1>6 DEF r

-----------------------------------------------------------------------------
(* Shares of a sum *)

\* A quotient, cut off.
LEMMA CutOff ==
  ASSUME NEW a \in Nat, NEW b \in Nat, b >= 1
  PROVE  /\ a \div b \in Nat
         /\ b * (a \div b) <= a
         /\ a < b * (a \div b) + b
OBVIOUS

\* Products of sums.
LEMMA TimesSum ==
  ASSUME NEW a \in Int, NEW x \in Int, NEW y \in Int
  PROVE  a * (x + y) = a * x + a * y
OBVIOUS

\* In order.
LEMMA TimesOrdered ==
  ASSUME NEW a \in Nat, NEW x \in Int, NEW y \in Int, x <= y
  PROVE  a * x <= a * y
OBVIOUS

\* And back.
LEMMA TimesCancels ==
  ASSUME NEW a \in Nat, a >= 1, NEW x \in Int, NEW y \in Int, a * x <= a * y
  PROVE  x <= y
OBVIOUS

\* In any order.
LEMMA TimesSwaps ==
  ASSUME NEW a \in Int, NEW x \in Int, NEW y \in Int
  PROVE  a * (x * y) = x * (a * y)
OBVIOUS

\* Terms in a proportion have sums in that proportion.
LEMMA SumProportion ==
  ASSUME NEW S, IsFiniteSet(S), NEW f, NEW g, NEW a \in Int, NEW b \in Int,
         \A x \in S : f[x] \in Int /\ g[x] \in Int /\ a * f[x] <= b * g[x]
  PROVE  a * SumOver(S, f) <= b * SumOver(S, g)
<1> DEFINE F == {s \in SUBSET S : ~(a * SumOver(s, f) <= b * SumOver(s, g))}
<1>1. \A s \in F : IsFiniteSet(s)
  BY FS_Subset
<1>2. CASE F # {}
  <2> HIDE DEF F
  <2>1. PICK s \in F : \A x \in s : s \ {x} \notin F
    BY <1>1, <1>2, SmallestSet
  <2>2. IsFiniteSet(s)
    BY <1>1
  <2>3. s \in SUBSET S /\ ~(a * SumOver(s, f) <= b * SumOver(s, g))
    BY DEF F
  <2>4. s # {}
    <3>1. SumOver({}, f) = 0 /\ SumOver({}, g) = 0
      BY SumEmpty
    <3>2. a * 0 <= b * 0
      OBVIOUS
    <3>3. QED
      BY <2>3, <3>1, <3>2
  <2>5. PICK c : c \in s
    BY <2>4
  <2> DEFINE s1 == SumOver(s \ {c}, f)
             s2 == SumOver(s \ {c}, g)
  <2>6. a * s1 <= b * s2
    BY <2>1, <2>3, <2>5 DEF F
  <2>7. SumOver(s, f) = f[c] + s1 /\ SumOver(s, g) = g[c] + s2
    <3>1. \A y \in s : f[y] \in Int /\ g[y] \in Int
      BY <2>3
    <3>2. SumOver(s, f) = f[c] + s1
      BY <2>2, <2>5, <3>1, SumRemove
    <3>3. SumOver(s, g) = g[c] + s2
      BY <2>2, <2>5, <3>1, SumRemove
    <3>4. QED
      BY <3>2, <3>3
  <2>8. IsFiniteSet(s \ {c})
    BY <2>2, FS_Subset
  <2>9. s1 \in Int /\ s2 \in Int
    BY <2>3, <2>8, SumType
  <2>10. f[c] \in Int /\ g[c] \in Int /\ a * f[c] <= b * g[c]
    BY <2>3, <2>5
  <2> HIDE DEF s1, s2
  <2>11. a * (f[c] + s1) = a * f[c] + a * s1
    BY <2>9, <2>10, TimesSum
  <2>12. b * (g[c] + s2) = b * g[c] + b * s2
    BY <2>9, <2>10, TimesSum
  <2>13. a * f[c] \in Int /\ a * s1 \in Int /\ b * g[c] \in Int /\ b * s2 \in Int
    BY <2>9, <2>10
  <2>14. QED
    BY <2>3, <2>6, <2>7, <2>10, <2>11, <2>12, <2>13
<1> QED
  BY <1>2

\* Percentages in hundredths, cut off, are no more than all.
LEMMA AtMostAll ==
  ASSUME NEW S, IsFiniteSet(S), NEW f, NEW g, NEW total \in Nat, total = SumOver(S, f),
         S # {} => total >= 1, \A x \in S : f[x] \in Nat /\ g[x] = BigIntDiv(100 * f[x], total)
  PROVE  /\ \A x \in S : g[x] \in Nat
         /\ SumOver(S, g) <= 10000
<1>1. CASE S = {}
  BY <1>1, SumEmpty
<1>2. CASE S # {}
  <2>1. ASSUME NEW x \in S PROVE g[x] \in Nat /\ total * g[x] <= 10000 * f[x]
    <3>1. 10000 * f[x] \in Nat /\ 100 * (100 * f[x]) = 10000 * f[x]
      OBVIOUS
    <3>2. g[x] = (10000 * f[x]) \div total
      BY <3>1 DEF BigIntDiv
    <3> DEFINE t == 10000 * f[x]
    <3>3. t \in Nat /\ total >= 1 /\ g[x] = t \div total
      BY <1>2, <3>1, <3>2
    <3> HIDE DEF t
    <3>4. g[x] \in Nat /\ total * g[x] <= t
      BY ONLY <3>3, CutOff, total \in Nat
    <3>5. QED
      BY <3>4 DEF t
  <2>2. total * SumOver(S, g) <= 10000 * SumOver(S, f)
    <3>1. \A x \in S : g[x] \in Int /\ f[x] \in Int /\ total * g[x] <= 10000 * f[x]
      BY <2>1
    <3>2. QED
      BY <3>1, SumProportion
  <2>3. SumOver(S, g) \in Int
    BY <2>1, SumType
  <2>4. 10000 * SumOver(S, f) = total * 10000
    OBVIOUS
  <2>5. SumOver(S, g) <= 10000
    BY <1>2, <2>2, <2>3, <2>4, TimesCancels
  <2>6. QED
    BY <2>1, <2>5
<1>3. QED
  BY <1>1, <1>2

\* Parts none of which exceeds its share are as many as the shares take.
LEMMA ManyParts ==
  ASSUME NEW S, IsFiniteSet(S), NEW f, NEW total \in Nat, total = SumOver(S, f), total >= 1, NEW m \in Nat,
         \A x \in S : f[x] \in Nat /\ BigIntDiv(100 * f[x], total) <= m
  PROVE  10000 < Cardinality(S) * (m + 1)
<1> DEFINE n == Cardinality(S)
           one == [x \in S |-> 1]
           bound == total * (m + 1)
<1>1. n \in Nat /\ bound \in Nat /\ bound = total * m + total
  BY FS_CardinalityType, TimesSum
<1>2. ASSUME NEW x \in S PROVE 10000 * f[x] <= (bound - 1) * one[x]
  <2> DEFINE q == (10000 * f[x]) \div total
  <2>1. 10000 * f[x] \in Nat /\ 100 * (100 * f[x]) = 10000 * f[x]
    OBVIOUS
  <2>2. q <= m
    BY <2>1 DEF BigIntDiv
  <2>3. q \in Nat /\ 10000 * f[x] < total * q + total
    <3> DEFINE t == 10000 * f[x]
    <3>1. t \in Nat /\ q = t \div total
      BY <2>1
    <3> HIDE DEF t, q
    <3>2. q \in Nat /\ t < total * q + total
      BY ONLY <3>1, CutOff, total \in Nat, total >= 1
    <3>3. QED
      BY <3>2 DEF t
  <2> HIDE DEF q, bound
  <2>4. total * q <= total * m
    BY <2>2, <2>3, TimesOrdered
  <2>5. total * q \in Int /\ total * m \in Int
    BY <2>3
  <2>6. QED
    BY <1>1, <2>1, <2>3, <2>4, <2>5
<1>3. SumOver(S, one) = n
  <2>1. SumOver(S, one) = 1 * n
    BY SumConstant
  <2>2. QED
    BY <1>1, <2>1
<1> HIDE DEF bound, n
<1>4. 10000 * total <= (bound - 1) * n
  <2>1. \A x \in S : f[x] \in Int /\ one[x] \in Int /\ 10000 * f[x] <= (bound - 1) * one[x]
    BY <1>2
  <2> DEFINE b == bound - 1
  <2>2. b \in Int
    BY <1>1
  <2>3. 10000 * SumOver(S, f) <= b * SumOver(S, one)
    <3>1. \A x \in S : f[x] \in Int /\ one[x] \in Int /\ 10000 * f[x] <= b * one[x]
      BY <2>1
    <3> HIDE DEF one, b
    <3>2. QED
      BY <2>2, <3>1, SumProportion
  <2>4. QED
    BY <1>3, <2>3
<1>5. ASSUME S = {} PROVE FALSE
  <2>1. SumOver({}, f) = 0
    BY SumEmpty
  <2>2. total = 0
    BY <1>5, <2>1
  <2>3. QED
    BY <2>2
<1>6. n >= 1
  BY <1>1, <1>5, FS_EmptySet DEF n
<1>7. ASSUME n * (m + 1) <= 10000 PROVE FALSE
  <2>1. total * (n * (m + 1)) <= total * 10000
    <3>1. n * (m + 1) \in Int
      BY <1>1
    <3>2. QED
      BY <1>7, <3>1, TimesOrdered
  <2>2. total * (n * (m + 1)) = n * bound
    BY <1>1, TimesSwaps DEF bound
  <2>3. (bound - 1) * n = n * bound - n
    BY <1>1
  <2>4. n * bound \in Int
    BY <1>1
  <2>5. QED
    BY <1>1, <1>4, <1>6, <2>1, <2>2, <2>3, <2>4
<1>8. n * (m + 1) \in Int
  BY <1>1
<1>9. QED
  BY <1>7, <1>8 DEF n

-----------------------------------------------------------------------------
(* What checks that look at the same thing decide *)

\* The replicas of a report, and how much of the data has them.
LEMMA SharesAre ==
  ASSUME FilPlusTypeOK, NEW c, NEW r, r.replicas = GetReplicationDistribution(c)
  PROVE  LET all == ShareColumn(r, ReplicaNumbers(c))
         IN  /\ DOMAIN r.replicas = ReplicaNumbers(c)
             /\ IsFiniteSet(ReplicaNumbers(c)) /\ ReplicaNumbers(c) \subseteq Nat
             /\ \A n \in ReplicaNumbers(c) : all[n] \in Nat
             /\ \A S \in SUBSET ReplicaNumbers(c) :
                  ShareOf(r, S) = SumOver(S, all) /\ ShareOf(r, S) \in Int
             /\ SumOver(ReplicaNumbers(c), all) <= 10000
<1> DEFINE K == ReplicaNumbers(c)
           all == ShareColumn(r, K)
           rows == ClientReplicaDistribution(c)
           totals == TotalColumn(rows)
           total == Total(ClaimsOf(c))
<1>1. DOMAIN r.replicas = K /\ IsFiniteSet(K) /\ K \subseteq Nat /\ DOMAIN rows = K
  BY ReplicationIs, ReplicaDistributionIs
<1>2. ASSUME NEW n \in K
      PROVE  all[n] = PercentageIn(total, n, c) /\ totals[n] = Total(Fibre(ClaimsOf(c), ReplicasOf(c), n))
             /\ totals[n] \in Nat
  <2> DEFINE of == Fibre(ClaimsOf(c), ReplicasOf(c), n)
  <2>1. r.replicas[n] = [unique |-> Unique(of), percentage |-> PercentageIn(total, n, c)]
    BY ReplicationIs
  <2>2. rows[n] = [total |-> Total(of), unique |-> Unique(of)] /\ of \in SUBSET ClaimsOf(c)
    BY ReplicaDistributionIs
  <2> HIDE DEF of, rows
  <2>3. Total(of) \in Nat
    <3>1. ClaimsOf(c) \in SUBSET Claim /\ IsFiniteSet(ClaimsOf(c))
      BY ClientFacts
    <3>2. QED
      BY <2>2, <3>1, TotalOfClaims
  <2>4. all[n] = r.replicas[n].percentage
    BY DEF ShareColumn
  <2>5. totals[n] = rows[n].total
    BY <1>1 DEF TotalColumn
  <2>6. r.replicas[n].percentage = PercentageIn(total, n, c) /\ rows[n].total = Total(of)
    BY <2>1, <2>2
  <2>7. QED
    BY <2>3, <2>4, <2>5, <2>6 DEF of
<1>3. \A n \in K : totals[n] \in Nat /\ all[n] = BigIntDiv(100 * totals[n], total)
  BY <1>2 DEF PercentageIn
<1>4. total \in Nat /\ total = SumOver(K, totals)
  <2>1. SumOfTotals(rows) = SumOver(K, totals)
    BY <1>1, SumOfTotalsIs
  <2>2. QED
    BY <2>1, ClientFacts, TablesTotal
<1>5. K # {} => total >= 1
  <2> SUFFICES ASSUME K # {} PROVE total >= 1
    OBVIOUS
  <2>1. PICK k : k \in ClaimsOf(c)
    BY DEF ReplicaNumbers
  <2>2. QED
    BY <2>1, ClientFacts, TotalPositive
<1> HIDE DEF totals, total, all, rows, K
<1>6. (\A n \in K : all[n] \in Nat) /\ SumOver(K, all) <= 10000
  <2>1. \A n \in K : totals[n] \in Nat /\ all[n] = BigIntDiv(100 * totals[n], total)
    BY <1>3
  <2>2. IsFiniteSet(K) /\ total \in Nat /\ total = SumOver(K, totals) /\ (K # {} => total >= 1)
    BY <1>1, <1>4, <1>5
  <2>3. QED
    BY ONLY <2>1, <2>2, AtMostAll, SMTT(60)
<1>7. ASSUME NEW S \in SUBSET K PROVE ShareOf(r, S) = SumOver(S, all) /\ ShareOf(r, S) \in Int
  <2>1. IsFiniteSet(S)
    BY <1>1, FS_Subset
  <2>2. \A n \in S : ShareColumn(r, S)[n] = all[n] /\ all[n] \in Int /\ ShareColumn(r, S)[n] \in Int
    BY <1>6 DEF ShareColumn, all
  <2>3. SumOver(S, ShareColumn(r, S)) = SumOver(S, all)
    BY <2>1, <2>2, SumEqual
  <2>4. SumOver(S, all) \in Int
    BY <2>1, <2>2, SumType
  <2>5. QED
    BY <2>3, <2>4, ShareIs
<1>8. QED
  BY <1>1, <1>6, <1>7 DEF K, all

NumbersBelow(r, limit) == {n \in DOMAIN r.replicas : n < limit}
NumbersAbove(r, limit) == {n \in DOMAIN r.replicas : n > limit}

\* The shares that the checks compare.
LEMMA SharesOfChecks ==
  ASSUME NEW r
  PROVE  /\ LowReplicaShare(r) = ShareOf(r, NumbersBelow(r, LowReplica))
         /\ HighReplicaShare(r) = ShareOf(r, NumbersAbove(r, HighReplica))
         /\ \A max : NotEnoughCopies(r, max) <=>
              RequiredReplicas = 0 \/ ShareOf(r, NumbersBelow(r, RequiredReplicas)) <= 100 * max
<1>1. LowReplicaShare(r) = ShareOf(r, NumbersBelow(r, LowReplica))
  BY Zenon DEF LowReplicaShare, ReplicaShare, ShareOf, NumbersBelow
<1>2. HighReplicaShare(r) = ShareOf(r, NumbersAbove(r, HighReplica))
  BY Zenon DEF HighReplicaShare, ReplicaShare, ShareOf, NumbersAbove
<1>3. \A max : NotEnoughCopies(r, max) <=>
              RequiredReplicas = 0 \/ ShareOf(r, NumbersBelow(r, RequiredReplicas)) <= 100 * max
  BY Zenon DEF NotEnoughCopies, ReplicaShare, ShareOf, NumbersBelow
<1>4. QED
  BY <1>1, <1>2, <1>3

\* No data is both below the low threshold and above the high one.
LEMMA LowAndHigh ==
  ASSUME FilPlusTypeOK, NEW c, NEW r, r.replicas = GetReplicationDistribution(c)
  PROVE  LowReplicaShare(r) + HighReplicaShare(r) <= 10000
<1> DEFINE K == ReplicaNumbers(c)
           all == ShareColumn(r, K)
           low == NumbersBelow(r, LowReplica)
           high == NumbersAbove(r, HighReplica)
<1>1. /\ DOMAIN r.replicas = K /\ IsFiniteSet(K) /\ K \subseteq Nat
      /\ \A n \in K : all[n] \in Nat
      /\ \A S \in SUBSET K : ShareOf(r, S) = SumOver(S, all) /\ ShareOf(r, S) \in Int
      /\ SumOver(K, all) <= 10000
  BY SharesAre
<1>2. low \subseteq K /\ high \subseteq K /\ low \cap high = {}
  BY <1>1, ChecksAssumption DEF NumbersBelow, NumbersAbove
<1>3. LowReplicaShare(r) = SumOver(low, all) /\ HighReplicaShare(r) = SumOver(high, all)
  BY <1>1, <1>2, SharesOfChecks
<1> HIDE DEF K, all, low, high
<1>4. IsFiniteSet(low) /\ IsFiniteSet(high) /\ \A n \in low \cup high : all[n] \in Int
  BY <1>1, <1>2, FS_Subset
<1>5. SumOver(low \cup high, all) = SumOver(low, all) + SumOver(high, all)
  BY <1>2, <1>4, SumUnion
<1>6. SumOver(low \cup high, all) <= SumOver(K, all)
  <2> DEFINE both == low \cup high
  <2>1. both \subseteq K
    BY <1>2
  <2> HIDE DEF both
  <2>2. SumOver(both, all) <= SumOver(K, all)
    <3>1. IsFiniteSet(K) /\ \A n \in K : all[n] \in Nat
      BY <1>1
    <3>2. QED
      BY ONLY <2>1, <3>1, SumPart
  <2>3. QED
    BY <2>2 DEF both
<1>7. SumOver(low, all) \in Int /\ SumOver(high, all) \in Int /\ SumOver(K, all) \in Int
  BY <1>1, <1>4, SumType
<1>8. QED
  BY <1>1, <1>3, <1>5, <1>6, <1>7

\* Data with the copies that are required has no fewer than the low threshold.
LEMMA CopiesAndLow ==
  ASSUME FilPlusTypeOK, NEW c, NEW r, r.replicas = GetReplicationDistribution(c),
         NEW max \in Nat, NEW low \in Nat, max <= low, RequiredReplicas >= LowReplica, NotEnoughCopies(r, max)
  PROVE  LowReplicaShare(r) <= 100 * low
<1> DEFINE K == ReplicaNumbers(c)
           all == ShareColumn(r, K)
           few == NumbersBelow(r, LowReplica)
           required == NumbersBelow(r, RequiredReplicas)
<1>1. /\ DOMAIN r.replicas = K /\ IsFiniteSet(K) /\ K \subseteq Nat
      /\ \A n \in K : all[n] \in Nat
      /\ \A S \in SUBSET K : ShareOf(r, S) = SumOver(S, all) /\ ShareOf(r, S) \in Int
      /\ SumOver(K, all) <= 10000
  BY SharesAre
<1>2. few \subseteq required /\ required \subseteq K /\ few \subseteq K /\ (RequiredReplicas = 0 => few = {})
  BY <1>1, ChecksAssumption DEF NumbersBelow
<1>3. /\ LowReplicaShare(r) = SumOver(few, all) /\ SumOver(few, all) \in Int
      /\ ShareOf(r, required) = SumOver(required, all) /\ SumOver(required, all) \in Int
  BY <1>1, <1>2, SharesOfChecks
<1>4. RequiredReplicas = 0 \/ SumOver(required, all) <= 100 * max
  BY <1>3, SharesOfChecks
<1> HIDE DEF K, all, few, required
<1>5. CASE RequiredReplicas = 0
  <2>1. SumOver(few, all) = 0
    BY <1>2, <1>5, SumEmpty
  <2>2. QED
    BY <1>3, <2>1
<1>6. CASE SumOver(required, all) <= 100 * max
  <2>1. SumOver(few, all) <= SumOver(required, all)
    <3>1. IsFiniteSet(required) /\ \A n \in required : all[n] \in Nat
      <4>1. IsFiniteSet(K) /\ (\A n \in K : all[n] \in Nat) /\ required \subseteq K
        BY <1>1, <1>2
      <4>2. QED
        BY ONLY <4>1, FS_Subset
    <3>2. QED
      BY <1>2, <3>1, SumPart
  <2>2. QED
    BY <1>3, <1>6, <2>1
<1>7. QED
  BY <1>4, <1>5, <1>6

\* Providers none of whom has more than its part are as many as the parts take.
LEMMA PartsOfProviders ==
  ASSUME FilPlusTypeOK, NEW c, NEW r, r.distribution = ClientProviderDistribution(c), NEW max \in Nat,
         ExceedingProviderDeal(r, max), Used(r) # {}
  PROVE  10000 < Cardinality(Used(r)) * (100 * max + 1)
<1> DEFINE K == ProvidersOf(c)
           rows == ClientProviderDistribution(c)
           totals == TotalColumn(rows)
           total == Total(ClaimsOf(c))
<1>1. DOMAIN rows = K /\ IsFiniteSet(K) /\ Used(r) = K
  BY DistributionIs DEF Used
<1>2. total \in Nat /\ total = SumOver(K, totals) /\ SumOfTotals(rows) = total
  BY <1>1, ClientFacts, TablesTotal, SumOfTotalsIs
<1>3. total >= 1
  <2>1. PICK k : k \in ClaimsOf(c)
    BY <1>1 DEF ProvidersOf
  <2>2. QED
    BY <2>1, ClientFacts, TotalPositive
<1>4. ASSUME NEW p \in K PROVE totals[p] \in Nat /\ totals[p] = rows[p].total
  <2> DEFINE at == Fibre(ClaimsOf(c), ProviderOf, p)
  <2>1. rows[p] = [total |-> Total(at), unique |-> Unique(at)] /\ at \in SUBSET ClaimsOf(c)
    BY DistributionIs
  <2> HIDE DEF at, rows
  <2>2. Total(at) \in Nat
    <3>1. ClaimsOf(c) \in SUBSET Claim /\ IsFiniteSet(ClaimsOf(c))
      BY ClientFacts
    <3>2. QED
      BY <2>1, <3>1, TotalOfClaims
  <2>3. totals[p] = rows[p].total
    BY <1>1 DEF TotalColumn
  <2>4. rows[p].total = Total(at)
    BY <2>1
  <2>5. QED
    BY <2>2, <2>3, <2>4
<1> HIDE DEF totals, total
<1>5. \A p \in K : ~(BigIntDiv(100 * totals[p], total) > 100 * max)
  <2>1. ExceedingProviderDeal(r, max) <=>
          SumOfTotals(rows) = 0 \/ \A p \in Used(r) : ~(BigIntDiv(100 * rows[p].total, SumOfTotals(rows)) > 100 * max)
    BY Zenon DEF ExceedingProviderDeal, NoneOf, SumOfTotals
  <2>2. total # 0
    BY <1>2, <1>3
  <2> HIDE DEF rows
  <2>3. QED
    BY <1>1, <1>2, <1>4, <2>1, <2>2
<1>6. \A p \in K : totals[p] \in Nat /\ BigIntDiv(100 * totals[p], total) <= 100 * max
  <2> SUFFICES ASSUME NEW p \in K
               PROVE  totals[p] \in Nat /\ BigIntDiv(100 * totals[p], total) <= 100 * max
    OBVIOUS
  <2>1. totals[p] \in Nat
    BY <1>4
  <2> DEFINE a == 100 * (100 * totals[p])
  <2>2. a \in Nat
    BY <2>1
  <2>3. BigIntDiv(100 * totals[p], total) = a \div total
    BY DEF BigIntDiv
  <2> HIDE DEF a
  <2>4. a \div total \in Nat
    BY <1>2, <1>3, <2>2, CutOff
  <2>5. QED
    BY <1>5, <2>1, <2>3, <2>4
<1> DEFINE m == 100 * max
<1>7. m \in Nat
  OBVIOUS
<1> HIDE DEF K, m, rows
<1>8. 10000 < Cardinality(K) * (m + 1)
  <2>1. \A p \in K : totals[p] \in Nat /\ BigIntDiv(100 * totals[p], total) <= m
    BY <1>6 DEF m
  <2>2. QED
    BY ONLY <1>1, <1>2, <1>3, <1>7, <2>1, ManyParts
<1>9. QED
  BY <1>1, <1>8 DEF m

\* A setting is a number, or not set.
LEMMA SettingOf ==
  ASSUME NEW env \in Environments, NEW s \in Settings, env[s] # NotSet
  PROVE  env[s] \in Nat
BY ChecksAssumption

AgreeOn(c, env) ==
  LET r == ClientReport(c)
      passed == Passed(c, env)
      failed == Failed(c, env)
      max == env["maxProviderDeal"]
  IN  /\ TablesTellTheSame(r)
      /\ "RETRIEVABILITY_75" \in passed => "RETRIEVABILITY_ZERO" \in passed
      /\ "CID_SHARING" \in failed =>
           \E o \in ReportedClients \ {c} : "CID_SHARING" \in Failed(o, env)
      /\ "EXCEED_PROVIDER_DEAL" \in passed /\ Used(r) # {} =>
           10000 < Cardinality(Used(r)) * (100 * max + 1)
      /\ "SAME_LOCATION" \in passed => Cardinality(Used(r)) > 1
      /\ LowReplicaShare(r) + HighReplicaShare(r) <= 10000
      /\ /\ "NOT_ENOUGH_COPIES" \in passed /\ RequiredReplicas >= LowReplica
         /\ env["maxLowReplica"] >= env["maxForRequiredCopies"]
         => "LOW_REPLICA" \notin failed
      /\ {"DECLARED_NOT_USED", "NOT_DECLARED"} \subseteq passed /\ env["maxNotDeclared"] = 0 =>
           Used(r) \in {{}, Declared[c]}

\* Clients that share are both reported, and both fail.
LEMMA BothFail ==
  ASSUME FilPlusInv, NEW c \in Clients, NEW env, "CID_SHARING" \in Failed(c, env)
  PROVE  \E o \in ReportedClients \ {c} : "CID_SHARING" \in Failed(o, env)
<1>1. ~NoCidSharing(ClientReport(c))
  BY Names, FailedSharing
<1>2. PICK o : o \in DOMAIN CidSharing(c)
  BY <1>1, ReportIs DEF NoCidSharing
<1>3. o \in Clients \ {c} /\ ClaimsOf(o) # {} /\ c \in DOMAIN CidSharing(o)
  BY <1>2, SharingIsMutual
<1>4. o \in ReportedClients
  <2>1. Total(ClaimsOf(o)) >= 1 /\ Total(ClaimsOf(o)) \in Int
    BY <1>3, ClientFacts, TotalPositive DEF FilPlusInv
  <2>2. AvailableDatacap(o) >= 0 /\ AvailableDatacap(o) = Received(ReceivedBy(o)) - Total(ClaimsOf(o))
    BY <1>3 DEF FilPlusInv, AvailableDatacap
  <2>3. Received(ReceivedBy(o)) \in Int
    BY ClientFacts DEF FilPlusInv
  <2>4. Received(ReceivedBy(o)) >= 1
    BY <2>1, <2>2, <2>3
  <2>5. Received({}) = 0
    BY FS_EmptySet, FilPlusAssumption DEF Received
  <2>6. ReceivedBy(o) # {}
    BY <2>4, <2>5
  <2>7. QED
    BY <1>3, <2>6 DEF ReportedClients
<1>5. ~NoCidSharing(ClientReport(o))
  BY <1>3, ReportIs DEF NoCidSharing
<1>6. "CID_SHARING" \in Failed(o, env)
  BY <1>5, Names
<1>7. QED
  BY <1>3, <1>4, <1>6

\* The checks of a report agree.
LEMMA ReportAgrees ==
  ASSUME FilPlusInv, NEW env \in Environments, NEW c \in Clients
  PROVE  AgreeOn(c, env)
<1> DEFINE r == ClientReport(c)
           passed == Passed(c, env)
           failed == Failed(c, env)
           max == env["maxProviderDeal"]
<1>0. FilPlusTypeOK
  BY DEF FilPlusInv
<1>1. /\ r.client = c /\ r.distribution = ClientProviderDistribution(c)
      /\ r.replicas = GetReplicationDistribution(c)
  BY ReportIs
<1>2. Used(r) = ProvidersOf(c) /\ IsFiniteSet(Used(r)) /\ Used(r) \subseteq Providers
  BY <1>0, <1>1, DistributionIs DEF Used
<1>3. ASSUME NEW name \in passed
      PROVE  \E x \in StoreReportChecks(r, env) : x.result /\ x.check = name
  BY Names
<1> HIDE DEF r
<1>4. TablesTellTheSame(r)
  BY TablesAgree DEF r
<1>5. ASSUME "RETRIEVABILITY_75" \in passed PROVE "RETRIEVABILITY_ZERO" \in passed
  <2>1. Retrievability75(r)
    BY <1>3, <1>5, PassedSays
  <2>2. RetrievabilityZero(r)
    BY <1>2, <2>1, FilPlusAssumption DEF Retrievability75, RetrievabilityZero, NoneOf, NoRate
  <2>3. QED
    BY <2>2, Names DEF r
<1>6. "CID_SHARING" \in failed => \E o \in ReportedClients \ {c} : "CID_SHARING" \in Failed(o, env)
  BY BothFail
<1>7. ASSUME "EXCEED_PROVIDER_DEAL" \in passed, Used(r) # {}
      PROVE  10000 < Cardinality(Used(r)) * (100 * max + 1)
  <2>1. max # NotSet /\ ExceedingProviderDeal(r, max)
    BY <1>3, <1>7, PassedSays
  <2>2. max \in Nat
    BY <2>1, SettingOf DEF Settings
  <2> HIDE DEF max
  <2>3. QED
    BY <1>0, <1>1, <1>7, <2>1, <2>2, PartsOfProviders
<1>8. ASSUME "SAME_LOCATION" \in passed PROVE Cardinality(Used(r)) > 1
  <2>1. Cardinality({Location[p] : p \in Used(r)}) > 1
    BY <1>3, <1>8, PassedSays DEF SameLocation
  <2>2. /\ IsFiniteSet({Location[p] : p \in Used(r)})
        /\ Cardinality({Location[p] : p \in Used(r)}) <= Cardinality(Used(r))
    BY <1>2, ImageSize
  <2>3. Cardinality(Used(r)) \in Nat /\ Cardinality({Location[p] : p \in Used(r)}) \in Nat
    BY <1>2, <2>2, FS_CardinalityType
  <2>4. QED
    BY <2>1, <2>2, <2>3
<1>9. LowReplicaShare(r) + HighReplicaShare(r) <= 10000
  BY <1>0, <1>1, LowAndHigh
<1>10. ASSUME "NOT_ENOUGH_COPIES" \in passed, RequiredReplicas >= LowReplica,
              env["maxLowReplica"] >= env["maxForRequiredCopies"], "LOW_REPLICA" \in failed
       PROVE  FALSE
  <2> DEFINE low == env["maxLowReplica"]
             copies == env["maxForRequiredCopies"]
  <2>1. copies # NotSet /\ NotEnoughCopies(r, copies)
    BY <1>3, <1>10, PassedSays
  <2>2. PICK x \in StoreReportChecks(r, env) : ~x.result /\ x.check = "LOW_REPLICA"
    BY <1>10, Names DEF r
  <2>3. low # NotSet /\ ~(LowReplicaShare(r) <= 100 * low)
    BY <2>2, FailedLowReplica
  <2>4. low \in Nat /\ copies \in Nat /\ copies <= low
    BY <1>10, <2>1, <2>3, SettingOf DEF Settings
  <2> HIDE DEF low, copies
  <2>5. LowReplicaShare(r) <= 100 * low
    BY <1>0, <1>1, <1>10, <2>1, <2>4, CopiesAndLow
  <2>6. QED
    BY <2>3, <2>5
<1>11. ASSUME "DECLARED_NOT_USED" \in passed, "NOT_DECLARED" \in passed, env["maxNotDeclared"] = 0
       PROVE  Used(r) \in {{}, Declared[c]}
  <2>1. Declared[c] \subseteq Used(r)
    BY <1>1, <1>3, <1>11, PassedSays DEF DeclaredNotUsed
  <2>2. NotDeclared(r, 0)
    BY <1>3, <1>11, PassedSays
  <2>3. Used(r) = {} \/ 100 * Cardinality(Used(r) \ Declared[c]) <= 0
    <3>1. Cardinality(Used(r)) \in Nat
      BY <1>2, FS_CardinalityType
    <3>2. 0 * Cardinality(Used(r)) = 0
      BY <3>1
    <3>3. QED
      BY <1>1, <2>2, <3>2 DEF NotDeclared
  <2>4. IsFiniteSet(Used(r) \ Declared[c])
    BY <1>2, FS_Subset
  <2>5. Used(r) = {} \/ Used(r) \ Declared[c] = {}
    BY <2>3, <2>4, FS_CardinalityType, FS_EmptySet
  <2>6. QED
    BY <2>1, <2>5
<1>12. QED
  BY <1>4, <1>5, <1>6, <1>7, <1>8, <1>9, <1>10, <1>11 DEF AgreeOn, r

\* In every state of the chain the checks of every report agree.
THEOREM ChecksAlwaysAgree == FilPlusSpec => []ChecksAgree
<1>1. FilPlusInv => ChecksAgree
  <2> SUFFICES ASSUME FilPlusInv, NEW env \in Environments, NEW c \in ReportedClients PROVE AgreeOn(c, env)
    BY DEF ChecksAgree, AgreeOn
  <2>1. QED
    BY ReportAgrees DEF ReportedClients
<1>2. QED
  BY <1>1, FilPlusInvariance, PTL

-----------------------------------------------------------------------------
(* The sums of the scores are sums of functions *)

\* They are the sums of the views.
LEMMA SumOfIs ==
  ASSUME NEW S, NEW f
  PROVE  SumOf(S, f) = SumOver(S, f)
BY Zenon DEF SumOf, SumOver

SizesColumn(S) == [row \in S |-> DealSize(row)]

\* The sizes of deals.
LEMMA SizesIs ==
  ASSUME NEW S
  PROVE  Sizes(S) = SumOver(S, SizesColumn(S))
BY SumOfIs DEF Sizes, SizesColumn

DuplicatesColumn(S) == [row \in S |-> (DealSize(row) - UniqueSize(row))]

\* Their data that is not unique.
LEMMA DuplicatesIs ==
  ASSUME NEW S
  PROVE  Duplicates(S) = SumOver(S, DuplicatesColumn(S))
BY SumOfIs DEF Duplicates, DuplicatesColumn

RatesColumn(S) == [row \in S |-> RateOf(row)]

\* The rates of their providers.
LEMMA RatesIs ==
  ASSUME NEW S
  PROVE  Rates(S) = SumOver(S, RatesColumn(S))
BY SumOfIs DEF Rates, RatesColumn

AllocatedToColumn(a, S) == [c \in S |-> WeightedAllocations(a, c)]

\* The allocations of clients.
LEMMA AllocatedToIs ==
  ASSUME NEW a, NEW S
  PROVE  AllocatedTo(a, S) = SumOver(S, AllocatedToColumn(a, S))
BY SumOfIs DEF AllocatedTo, AllocatedToColumn

SharedOfAllColumn(S) == [c \in S |-> SharedOf(c)]

\* What others claimed of the pieces of some clients.
LEMMA SharedOfAllIs ==
  ASSUME NEW S
  PROVE  SharedOfAll(S) = SumOver(S, SharedOfAllColumn(S))
BY SumOfIs DEF SharedOfAll, SharedOfAllColumn

UniqueOfColumn(S) == [c \in S |-> Weighted(c, ClientReport(c).uniqueDataSetSize)]

\* Their unique data.
LEMMA UniqueOfIs ==
  ASSUME NEW S
  PROVE  UniqueOf(S) = SumOver(S, UniqueOfColumn(S))
BY SumOfIs DEF UniqueOf, UniqueOfColumn

ExpectedOfColumn(S) == [c \in S |-> Weighted(c, Expected[c])]

\* The sizes they gave.
LEMMA ExpectedOfIs ==
  ASSUME NEW S
  PROVE  ExpectedOf(S) = SumOver(S, ExpectedOfColumn(S))
BY SumOfIs DEF ExpectedOf, ExpectedOfColumn

SharesColumn(a, S) == [c \in S |-> Share(a, c)]

\* Their shares.
LEMMA SharesIs ==
  ASSUME NEW a, NEW S
  PROVE  Shares(a, S) = SumOver(S, SharesColumn(a, S))
BY SumOfIs DEF Shares, SharesColumn

SquaredSharesColumn(a, S) == [c \in S |-> (Share(a, c) * Share(a, c))]

\* The squares of their shares.
LEMMA SquaredSharesIs ==
  ASSUME NEW a, NEW S
  PROVE  SquaredShares(a, S) = SumOver(S, SquaredSharesColumn(a, S))
BY SumOfIs DEF SquaredShares, SquaredSharesColumn

SharedOfColumn(c, S) == [o \in S |-> Weighted(c, CidSharing(c)[o].total)]

\* What others claimed of a client's pieces.
LEMMA SharedOfIs ==
  ASSUME NEW c, NEW S, S = DOMAIN CidSharing(c)
  PROVE  SharedOf(c) = SumOver(S, SharedOfColumn(c, S))
BY SumOfIs DEF SharedOf, SharedOfColumn

-----------------------------------------------------------------------------
(* The clients of an allocator and the rows of its report *)

\* The greatest of some bounded numbers.
LEMMA MaxIs ==
  ASSUME NEW T \in SUBSET Nat, T # {}, NEW n \in Nat, \A y \in T : y <= n
  PROVE  Max(T) \in T /\ \A y \in T : y <= Max(T)
<1> DEFINE R == {n - y : y \in T}
<1>1. R \in SUBSET Nat /\ R # {}
  <2>1. \A y \in T : n - y \in Nat
    OBVIOUS
  <2>2. QED
    BY <2>1
<1>2. PICK z \in R : \A y \in R : z <= y
  BY <1>1, Smallest
<1>3. PICK x \in T : z = n - x
  OBVIOUS
<1>4. \A y \in T : n - x <= n - y
  BY <1>2, <1>3
<1>5. \A y \in T : x >= y
  BY <1>4
<1>6. \E m \in T : \A y \in T : m >= y
  BY <1>5
<1>7. Max(T) \in T /\ \A y \in T : Max(T) >= y
  BY <1>6, Zenon DEF Max
<1>8. QED
  BY <1>7

\* The last day of some claims.
LEMMA LastOfClaims ==
  ASSUME NEW S \in SUBSET Claim
  PROVE  /\ S = {} => LastOf(S) = Never
         /\ S # {} => LastOf(S) \in Days /\ LastOf(S) # Never
<1> DEFINE T == {k.day : k \in S}
<1>1. CASE S # {}
  <2>1. T \in SUBSET Nat /\ T # {} /\ (\A y \in T : y <= LastDay) /\ LastDay \in Nat /\ T \subseteq Days
    BY <1>1, FilPlusAssumption DEF Claim, Days
  <2>2. Max(T) \in T
    BY <2>1, MaxIs
  <2>3. LastOf(S) = Max(T)
    BY <1>1 DEF LastOf
  <2>4. QED
    BY <1>1, <2>1, <2>2, <2>3 DEF Never, Days
<1>2. QED
  BY <1>1 DEF LastOf

\* The weight of a client.
LEMMA WeightIs ==
  ASSUME FilPlusTypeOK, NEW c
  PROVE  ComputeClientWeight(c) \in Nat
<1> DEFINE spent == GetLastDatacapSpent(c)
           daysAgo == today - spent
<1>1. spent = Never \/ spent \in Days
  BY ClientFacts, LastOfClaims DEF GetLastDatacapSpent
<1>2. today \in Nat /\ today <= LastDay /\ LastDay \in Nat /\ ActivityPeriod \in Nat /\ Precision \in Nat
  BY FilPlusAssumption, ChecksAssumption, ScoringAssumption DEF FilPlusTypeOK, Days
<1> HIDE DEF spent
<1>3. CASE spent = Never
  BY <1>3 DEF ComputeClientWeight, spent
<1>4. CASE spent # Never /\ daysAgo <= ActivityPeriod
  BY <1>2, <1>4 DEF ComputeClientWeight, spent
<1>5. CASE spent # Never /\ ~(daysAgo <= ActivityPeriod)
  <2>1. spent \in Nat /\ spent <= LastDay
    BY <1>1, <1>2, <1>5 DEF Days
  <2>2. daysAgo - ActivityPeriod \in Days
    BY <1>2, <1>5, <2>1 DEF Days
  <2>3. Decayed[daysAgo - ActivityPeriod] \in Nat
    BY <1>2, <2>2, ScoringAssumption
  <2>4. ComputeClientWeight(c) = Decayed[daysAgo - ActivityPeriod]
    BY <1>5 DEF ComputeClientWeight, spent
  <2>5. QED
    BY <2>3, <2>4
<1>6. QED
  BY <1>3, <1>4, <1>5

\* An amount times a weight.
LEMMA WeightedIs ==
  ASSUME FilPlusTypeOK, NEW c, NEW amount \in Nat
  PROVE  /\ Weighted(c, amount) \in Nat
         /\ amount = 0 => Weighted(c, amount) = 0
<1> DEFINE w == ComputeClientWeight(c)
           t == amount * w
<1>1. w \in Nat
  BY WeightIs
<1>2. t \in Nat /\ (amount = 0 => t = 0)
  <2> HIDE DEF w
  <2> QED BY <1>1
<1>3. Precision \in Nat /\ Precision >= 1
  BY ScoringAssumption
<1>4. Weighted(c, amount) = t \div Precision
  BY DEF Weighted, BigIntMul
<1> HIDE DEF w, t
<1>5. t \div Precision \in Nat /\ Precision * (t \div Precision) <= t
  BY <1>2, <1>3, CutOff
<1>6. t = 0 => t \div Precision = 0
  BY <1>3, <1>5
<1>7. QED
  BY <1>2, <1>4, <1>5, <1>6 DEF w

\* A percentage of some total.
LEMMA PercentIs ==
  ASSUME NEW part \in Nat, NEW total \in Nat
  PROVE  /\ PercentOf(part, total) \in Nat
         /\ part <= total => PercentOf(part, total) <= 10000
         /\ part = 0 => PercentOf(part, total) = 0
         /\ part = total /\ total >= 1 => PercentOf(part, total) = 10000
         /\ 10000 * part <= total => PercentOf(part, total) <= 1
<1>1. CASE total = 0
  BY <1>1 DEF PercentOf
<1>2. CASE total # 0
  <2> DEFINE t == 100 * (100 * part)
             q == t \div total
  <2>1. t \in Nat /\ t = 10000 * part
    OBVIOUS
  <2>2. PercentOf(part, total) = q
    BY <1>2 DEF PercentOf, BigIntDiv
  <2> HIDE DEF t
  <2>3. q \in Nat /\ total * q <= t /\ t < total * q + total
    BY <1>2, <2>1, CutOff
  <2> HIDE DEF q
  <2>4. part <= total => q <= 10000
    <3>1. part <= total => total * q <= total * 10000
      BY <2>1, <2>3
    <3>2. QED
      BY <1>2, <2>3, <3>1, TimesCancels
  <2>5. part = 0 => q = 0
    <3>1. part = 0 => total * q <= total * 0
      BY <2>1, <2>3
    <3>2. QED
      BY <1>2, <2>3, <3>1, TimesCancels
  <2>6. part = total => q >= 10000
    <3>1. total * (q + 1) = total * q + total * 1
      BY <2>3, TimesSum
    <3>2. part = total => ~(total * (q + 1) <= total * 10000)
      BY <2>1, <2>3, <3>1
    <3>3. q + 1 <= 10000 => total * (q + 1) <= total * 10000
      BY <2>3, TimesOrdered
    <3>4. QED
      BY <2>3, <3>2, <3>3
  <2>7. 10000 * part <= total => q <= 1
    <3>1. 10000 * part <= total => total * q <= total * 1
      BY <2>1, <2>3
    <3>2. QED
      BY <1>2, <2>3, <3>1, TimesCancels
  <2>8. QED
    BY <2>2, <2>3, <2>4, <2>5, <2>6, <2>7
<1>3. QED
  BY <1>1, <1>2

\* Claims have at least the size of any of them, and of their pieces.
LEMMA UniqueWithinTotal ==
  ASSUME NEW R \in SUBSET Claim, IsFiniteSet(R)
  PROVE  Unique(R) <= Total(R)
<1> DEFINE K == PiecesOf(R)
           key == [k \in R |-> k.piece]
           f == SizeOf(R)
<1>1. IsFiniteSet(K) /\ \A x \in K : Size[x] \in Nat
  BY UniqueOfClaims
<1>2. \A k \in R : f[k] \in Int /\ f[k] = Size[k.piece]
  <2>1. \A k \in R : f[k] \in Int
    BY TotalOfClaims
  <2>2. \A k \in R : f[k] = Size[k.piece]
    BY DEF SizeOf
  <2>3. QED
    BY <2>1, <2>2
<1>3. OfKeys(R, key, K) = R
  BY DEF OfKeys, PiecesOf
<1>4. ASSUME NEW x \in K
      PROVE  FibreSums(R, key, f, K)[x] \in Int /\ Size[x] <= FibreSums(R, key, f, K)[x]
  <2> DEFINE S == Fibre(R, key, x)
  <2>1. PICK k \in R : k.piece = x
    BY DEF PiecesOf
  <2>2. S \in SUBSET R /\ k \in S
    BY <2>1 DEF Fibre
  <2>3. FibreSums(R, key, f, K)[x] = SumOver(S, f)
    BY DEF FibreSums
  <2> HIDE DEF S, f, K, key
  <2>4. IsFiniteSet(S) /\ IsFiniteSet(S \ {k}) /\ S \ {k} \in SUBSET R
    BY <2>2, FS_Subset
  <2>5. SumOver(S, f) = f[k] + SumOver(S \ {k}, f)
    BY <1>2, <2>2, <2>4, SumRemove
  <2>6. SumOver(S \ {k}, f) \in Nat
    BY <2>4, TotalOfClaims DEF f
  <2>7. QED
    BY <1>2, <2>1, <2>3, <2>5, <2>6
<1>5. SumOver(R, f) = SumOver(K, FibreSums(R, key, f, K))
  <2> HIDE DEF f, K, key
  <2> QED BY <1>1, <1>2, <1>3, SumByKey
<1>6. SumOver(K, Size) <= SumOver(K, FibreSums(R, key, f, K))
  <2> HIDE DEF f, K, key
  <2>1. \A x \in K : Size[x] \in Int /\ FibreSums(R, key, f, K)[x] \in Int /\ Size[x] <= FibreSums(R, key, f, K)[x]
    BY <1>1, <1>4
  <2>2. QED
    BY <1>1, <2>1, SumCompare
<1>7. QED
  BY <1>5, <1>6, TotalIs, UniqueIs

\* The clients that an allocator allocated to.
LEMMA ClientsAre ==
  ASSUME FilPlusTypeOK, NEW a
  PROVE  /\ ClientsOf(a) \subseteq Clients /\ IsFiniteSet(ClientsOf(a))
         /\ \A c \in ClientsOf(a) : c \in ReportedClients
         /\ \A c : TotalAllocations(a, c) \in Nat
<1> DEFINE S == {y \in allocations : y.allocator = a}
           client == [y \in S |-> y.client]
<1>1. IsFiniteSet(S)
  BY FS_Subset DEF FilPlusTypeOK
<1>2. ClientsOf(a) = {client[y] : y \in S}
  BY DEF ClientsOf
<1>3. IsFiniteSet(ClientsOf(a))
  <2>1. IsFiniteSet({client[y] : y \in S})
    BY <1>1, ImageSize
  <2>2. QED
    BY <1>2, <2>1
<1>4. ClientsOf(a) \subseteq Clients /\ \A c \in ClientsOf(a) : c \in ReportedClients
  BY DEF ClientsOf, FilPlusTypeOK, Allocation, ReportedClients, ReceivedBy
<1>5. ASSUME NEW c PROVE TotalAllocations(a, c) \in Nat
  <2>1. IsFiniteSet(AllocationsTo(a, c))
    BY FS_Subset DEF FilPlusTypeOK, AllocationsTo
  <2>2. Cardinality(AllocationsTo(a, c)) \in Nat
    BY <2>1, FS_CardinalityType
  <2>3. QED
    BY <2>2, FilPlusAssumption DEF TotalAllocations, Received
<1>6. QED
  BY <1>3, <1>4, <1>5

\* The rows of its report.
LEMMA RowsAre ==
  ASSUME FilPlusTypeOK, NEW a
  PROVE  /\ IsFiniteSet(Rows(a))
         /\ \A row \in Rows(a) :
              /\ row = <<row[1], row[2]>> /\ row[1] \in ClientsOf(a)
              /\ row[2] \in ProvidersOf(row[1]) /\ row[2] \in Providers
              /\ DealSize(row) \in Nat /\ DealSize(row) >= 1
              /\ UniqueSize(row) \in Nat /\ UniqueSize(row) <= DealSize(row)
<1> DEFINE P == {k.provider : k \in claims}
           provider == [k \in claims |-> k.provider]
<1>1. IsFiniteSet(P)
  <2>1. P = {provider[k] : k \in claims}
    OBVIOUS
  <2>2. IsFiniteSet({provider[k] : k \in claims})
    BY ImageSize DEF FilPlusTypeOK
  <2>3. QED
    BY <2>1, <2>2
<1>2. \A c : DOMAIN ClientProviderDistribution(c) = ProvidersOf(c) /\ ProvidersOf(c) \subseteq P
             /\ ProvidersOf(c) \subseteq Providers
  BY DistributionIs DEF ProvidersOf, ClaimsOf
<1>3. \A row \in Rows(a) : /\ row = <<row[1], row[2]>> /\ row[1] \in ClientsOf(a)
                           /\ row[2] \in ProvidersOf(row[1])
  BY <1>2 DEF Rows
<1>4. IsFiniteSet(Rows(a))
  <2>1. Rows(a) \subseteq ClientsOf(a) \X P
    BY <1>2, <1>3
  <2>2. IsFiniteSet(ClientsOf(a) \X P)
    BY <1>1, ClientsAre, FS_Product
  <2>3. QED
    BY <2>1, <2>2, FS_Subset
<1>5. ASSUME NEW row \in Rows(a)
      PROVE  /\ DealSize(row) \in Nat /\ DealSize(row) >= 1
             /\ UniqueSize(row) \in Nat /\ UniqueSize(row) <= DealSize(row)
  <2> DEFINE at == Fibre(ClaimsOf(row[1]), ProviderOf, row[2])
  <2>1. /\ ClientProviderDistribution(row[1])[row[2]] = [total |-> Total(at), unique |-> Unique(at)]
        /\ at \in SUBSET ClaimsOf(row[1]) /\ at # {}
    BY <1>3, DistributionIs
  <2> HIDE DEF at
  <2>2. DealSize(row) = Total(at) /\ UniqueSize(row) = Unique(at)
    BY <2>1 DEF DealSize, UniqueSize
  <2>3. at \in SUBSET Claim /\ IsFiniteSet(at)
    BY <2>1, ClientFacts, FS_Subset
  <2>4. Total(at) \in Nat /\ Unique(at) \in Nat
    BY <2>3, TotalOfClaims, UniqueOfClaims
  <2>5. Total(at) >= 1
    BY <2>1, <2>3, TotalPositive
  <2>6. Unique(at) <= Total(at)
    BY <2>3, UniqueWithinTotal
  <2>7. QED
    BY <2>2, <2>4, <2>5, <2>6
<1>6. QED
  BY <1>2, <1>3, <1>4, <1>5

-----------------------------------------------------------------------------
(* Scores and their ranges *)

InRange(v, y) == y.from <= v /\ (y.to = NoMaximum \/ v <= y.to)
InsideRange(v, y) == y.from < v /\ (y.to = NoMaximum \/ v < y.to)
Bands == [from : Int, to : Int, score : Nat]

\* The score of a metric is that of its ranges.
Fits(m) ==
  /\ m.ranges \subseteq Bands /\ m.score \in Nat
  /\ m.score = 0 \/ \E y \in m.ranges : InRange(m.value, y)
  /\ (\E y \in m.ranges : InRange(m.value, y)) => \E y \in m.ranges : InRange(m.value, y) /\ y.score = m.score
  /\ \A y \in m.ranges : InsideRange(m.value, y) =>
       y.score = m.score /\ \A z \in m.ranges : InsideRange(m.value, z) => z = y

\* The weight changes nothing of that.
LEMMA StoredFits ==
  ASSUME NEW m, Fits(m), NEW w \in Nat
  PROVE  ScoreOfRange(StoreScore(m, w))
<1> DEFINE x == StoreScore(m, w)
           Times(y) == [y EXCEPT !.score = @ * w]
           around == {y \in x.ranges : InRange(x.value, y)}
           inside == {y \in x.ranges : InsideRange(x.value, y)}
<1>1. ASSUME NEW y \in Bands
      PROVE  Times(y).from = y.from /\ Times(y).to = y.to /\ Times(y).score = y.score * w
  BY DEF Bands
<1>2. x.ranges = {Times(y) : y \in m.ranges} /\ x.value = m.value /\ x.score = m.score * w
  BY DEF StoreScore
<1> HIDE DEF x, Times
<1>3. \A y \in m.ranges : /\ InRange(x.value, Times(y)) <=> InRange(m.value, y)
                          /\ InsideRange(x.value, Times(y)) <=> InsideRange(m.value, y)
  BY <1>1, <1>2 DEF Fits, InRange, InsideRange
<1>4. IF around = {} THEN x.score = 0 ELSE x.score \in {y.score : y \in around}
  <2>1. CASE around = {}
    <3>1. m.score = 0
      BY <1>2, <1>3, <2>1 DEF Fits
    <3>2. QED
      BY <1>2, <2>1, <3>1
  <2>2. CASE around # {}
    <3>1. PICK y \in m.ranges : InRange(m.value, y)
      BY <1>2, <1>3, <2>2
    <3>2. PICK z \in m.ranges : InRange(m.value, z) /\ z.score = m.score
      BY <3>1 DEF Fits
    <3>3. Times(z) \in around /\ Times(z).score = x.score
      BY <1>1, <1>2, <1>3, <3>2 DEF Fits
    <3>4. QED
      BY <2>2, <3>3
  <2>3. QED
    BY <2>1, <2>2
<1>5. ASSUME inside # {} PROVE inside = {CHOOSE y \in inside : y.score = x.score}
  <2>1. PICK y \in m.ranges : InsideRange(m.value, y)
    BY <1>2, <1>3, <1>5
  <2>2. y.score = m.score /\ \A z \in m.ranges : InsideRange(m.value, z) => z = y
    BY <2>1 DEF Fits
  <2>3. Times(y).score = x.score
    BY <1>1, <1>2, <2>2 DEF Fits
  <2>4. inside = {Times(y)}
    BY <1>2, <1>3, <2>1, <2>2
  <2> HIDE DEF inside
  <2>5. \E z \in inside : z.score = x.score
    BY <2>3, <2>4
  <2> DEFINE chosen == CHOOSE z \in inside : z.score = x.score
  <2>6. chosen \in inside
    BY <2>5
  <2> HIDE DEF chosen
  <2>7. inside = {chosen}
    BY <2>4, <2>6
  <2>8. QED
    BY <2>7 DEF chosen
<1>6. ScoreOfRange(x) <=> /\ IF around = {} THEN x.score = 0 ELSE x.score \in {y.score : y \in around}
                          /\ inside # {} => inside = {CHOOSE y \in inside : y.score = x.score}
  BY Zenon DEF ScoreOfRange, InRange, InsideRange
<1> HIDE DEF around, inside
<1>7. ScoreOfRange(x)
  BY <1>4, <1>5, <1>6
<1>8. QED
  BY <1>7 DEF x

ThreeBands(m, a, b, c, d, s, t, u) ==
  /\ m.value \in Int /\ {a, b, c, d} \subseteq Int /\ {s, t, u} \subseteq Nat
  /\ a <= b /\ b <= c /\ (c <= d \/ d = NoMaximum) /\ b >= 0 /\ c >= 0
  /\ m.ranges = {Band(a, b, s), Band(b, c, t), Band(c, d, u)}
  /\ m.score \in Nat /\ (m.score = 0 \/ (a <= m.value /\ (d = NoMaximum \/ m.value <= d)))
  /\ a <= m.value /\ m.value < b => m.score = s
  /\ b < m.value /\ m.value < c => m.score = t
  /\ c < m.value /\ (m.value <= d \/ d = NoMaximum) => m.score = u
  /\ m.value = b => m.score \in {s, t}
  /\ m.value = c /\ b < c => m.score \in {t, u}

\* Three ranges that follow each other.
LEMMA ThreeRanges ==
  ASSUME NEW m, NEW a, NEW b, NEW c, NEW d, NEW s, NEW t, NEW u, ThreeBands(m, a, b, c, d, s, t, u)
  PROVE  Fits(m)
<1> DEFINE v == m.value
           score == m.score
<1>0. /\ a <= b /\ b <= c /\ (c <= d \/ d = NoMaximum) /\ b >= 0 /\ c >= 0
      /\ m.ranges = {Band(a, b, s), Band(b, c, t), Band(c, d, u)}
      /\ score \in Nat /\ (score = 0 \/ (a <= v /\ (d = NoMaximum \/ v <= d)))
      /\ (a <= v /\ v < b => score = s) /\ (b < v /\ v < c => score = t)
      /\ (c < v /\ (v <= d \/ d = NoMaximum) => score = u)
      /\ (v = b => score \in {s, t}) /\ (v = c /\ b < c => score \in {t, u}) /\ v \in Int
      /\ a \in Int /\ b \in Int /\ c \in Int /\ d \in Int /\ s \in Nat /\ t \in Nat /\ u \in Nat
  BY DEF ThreeBands
<1> HIDE DEF v, score
<1>1. \A x, y, z : Band(x, y, z).from = x /\ Band(x, y, z).to = y /\ Band(x, y, z).score = z
  BY DEF Band
<1>2. m.ranges \subseteq Bands
  BY <1>0 DEF Band, Bands
<1> DEFINE p == Band(a, b, s)
           q == Band(b, c, t)
           r == Band(c, d, u)
<1>3. /\ p.from = a /\ p.to = b /\ p.score = s
      /\ q.from = b /\ q.to = c /\ q.score = t
      /\ r.from = c /\ r.to = d /\ r.score = u
      /\ m.ranges = {p, q, r}
  BY <1>0, <1>1
<1> HIDE DEF p, q, r
<1>4. /\ InRange(v, p) <=> a <= v /\ v <= b
      /\ InRange(v, q) <=> b <= v /\ v <= c
      /\ InRange(v, r) <=> c <= v /\ (d = NoMaximum \/ v <= d)
      /\ InsideRange(v, p) <=> a < v /\ v < b
      /\ InsideRange(v, q) <=> b < v /\ v < c
      /\ InsideRange(v, r) <=> c < v /\ (d = NoMaximum \/ v < d)
  BY <1>0, <1>3 DEF InRange, InsideRange, NoMaximum
<1>5. score = 0 \/ \E y \in m.ranges : InRange(v, y)
  BY <1>0, <1>3, <1>4
<1>6. ASSUME NEW y \in m.ranges, InRange(v, y)
      PROVE  \E z \in m.ranges : InRange(v, z) /\ z.score = score
  BY <1>0, <1>3, <1>4, <1>6
<1>7. ASSUME NEW y \in m.ranges, InsideRange(v, y)
      PROVE  y.score = score /\ \A z \in m.ranges : InsideRange(v, z) => z = y
  BY <1>0, <1>3, <1>4, <1>7
<1>8. QED
  BY <1>0, <1>2, <1>5, <1>6, <1>7 DEF Fits, v, score

\* The metrics: what the value can be, and that the score fits.
LEMMA IpniFits ==
  ASSUME FilPlusTypeOK, NEW a
  PROVE  /\ Fits(IpniReporting(a))
         /\ Rows(a) # {} /\ (\A row \in Rows(a) : ProviderReportingStatus(row[2]) = "OK") =>
              Full(IpniReporting(a))
<1> DEFINE ok == {row \in Rows(a) : ProviderReportingStatus(row[2]) = "OK"}
           part == Sizes(ok)
           total == Sizes(Rows(a))
           v == PercentOf(Sizes(ok), Sizes(Rows(a)))
           m == IpniReporting(a)
<1>1. m = Metric("IPNI_REPORTING", v, Steps(v > 5500, 3, v >= 5000, 1),
                 {Band(0, 5000, 0), Band(5000, 5500, 1), Band(5500, 10000, 3)}, 3, 0)
  BY DEF IpniReporting
<1>2. part \in Nat /\ total \in Nat /\ part <= total /\ (Rows(a) # {} => total >= 1)
  <2> DEFINE f == SizesColumn(Rows(a))
  <2>1. IsFiniteSet(Rows(a)) /\ IsFiniteSet(ok) /\ ok \subseteq Rows(a)
    BY RowsAre, FS_Subset
  <2>2. \A row \in Rows(a) : f[row] \in Nat /\ f[row] \in Int /\ f[row] >= 1
    BY RowsAre DEF SizesColumn
  <2>3. part = SumOver(ok, SizesColumn(ok)) /\ total = SumOver(Rows(a), f)
    BY SizesIs
  <2>4. SumOver(ok, SizesColumn(ok)) = SumOver(ok, f)
    <3>1. \A row \in ok : SizesColumn(ok)[row] \in Int /\ SizesColumn(ok)[row] = f[row]
      BY <2>1, <2>2 DEF SizesColumn
    <3>2. QED
      BY <2>1, <3>1, SumEqual
  <2> HIDE DEF f, ok, part, total
  <2>5. 0 <= SumOver(ok, f) /\ SumOver(ok, f) <= SumOver(Rows(a), f)
    BY <2>1, <2>2, SumPart
  <2>6. SumOver(ok, f) \in Int /\ SumOver(Rows(a), f) \in Int
    BY <2>1, <2>2, SumType
  <2>7. ASSUME NEW row \in Rows(a) PROVE SumOver(Rows(a), f) >= 1
    <3>1. SumOver(Rows(a), f) = f[row] + SumOver(Rows(a) \ {row}, f)
      BY <2>1, <2>2, SumRemove
    <3>2. 0 <= SumOver(Rows(a) \ {row}, f)
      BY <2>1, <2>2, SumPart
    <3>3. SumOver(Rows(a) \ {row}, f) \in Int
      BY <2>1, <2>2, SumType, FS_Subset
    <3>4. QED
      BY <2>2, <3>1, <3>2, <3>3
  <2>8. QED
    BY <2>3, <2>4, <2>5, <2>6, <2>7
<1>3. (ok = Rows(a) => part = total) /\ v = PercentOf(part, total)
  OBVIOUS
<1> HIDE DEF ok, part, total, v
<1>4. v \in Nat /\ v <= 10000 /\ (part = total /\ total >= 1 => v = 10000)
  BY <1>2, <1>3, PercentIs
<1>5. /\ m.value = v /\ m.score = Steps(v > 5500, 3, v >= 5000, 1)
      /\ m.ranges = {Band(0, 5000, 0), Band(5000, 5500, 1), Band(5500, 10000, 3)}
  BY <1>1 DEF Metric
<1> HIDE DEF m
<1>6. Fits(m)
  <2>1. m.score \in Nat /\ (v > 5500 => m.score = 3) /\ (v <= 5500 /\ v >= 5000 => m.score = 1)
        /\ (v < 5000 => m.score = 0)
    BY <1>4, <1>5 DEF Steps
  <2>2. QED
    <3>1. ThreeBands(m, 0, 5000, 5500, 10000, 0, 1, 3)
      BY <1>4, <1>5, <2>1 DEF ThreeBands, NoMaximum
    <3>2. QED
      BY <3>1, ThreeRanges
<1>7. ASSUME ok = Rows(a), Rows(a) # {} PROVE Full(m)
  <2>1. m.score = 3
    BY <1>2, <1>3, <1>4, <1>5, <1>7 DEF Steps
  <2>2. \A y \in m.ranges : y.score \in {0, 1, 3}
    BY <1>5 DEF Band
  <2>3. QED
    BY <2>1, <2>2 DEF Full
<1>8. QED
  BY <1>6, <1>7 DEF ok, m

-----------------------------------------------------------------------------
(* The percentiles of the rates *)

\* An average of rates is a rate.
LEMMA AverageIs ==
  ASSUME FilPlusTypeOK, NEW a
  PROVE  AvgRetrievability(a) \in Nat /\ AvgRetrievability(a) <= 4800
<1> DEFINE R == Rows(a)
           n == Cardinality(R)
           f == RatesColumn(R)
           one == [x \in R |-> 1]
           sum == SumOver(R, f)
           t == 48 * sum
<1>1. CASE R = {}
  BY <1>1 DEF AvgRetrievability
<1>2. CASE R # {}
  <2>1. IsFiniteSet(R) /\ \A row \in R : row[2] \in Providers
    BY RowsAre
  <2>2. n \in Nat /\ n >= 1
    BY <1>2, <2>1, FS_CardinalityType, FS_EmptySet
  <2>3. \A row \in R : f[row] \in Nat /\ f[row] <= 100
    BY <2>1, FilPlusAssumption DEF RatesColumn, RateOf, NoRate
  <2>4. AvgRetrievability(a) = t \div n
    BY <1>2, SizesIs, RatesIs DEF AvgRetrievability, RateUnit
  <2> HIDE DEF R, f, n
  <2>5. sum \in Nat
    <3>1. SumOver(R, f) \in Int /\ 0 <= SumOver(R, f)
      BY <2>1, <2>3, SumType, SumPart
    <3>2. QED
      BY <3>1
  <2>6. sum <= 100 * n
    <3>1. SumOver(R, one) = 1 * n
      BY <2>1, SumConstant DEF n
    <3>2. \A x \in R : f[x] \in Int /\ one[x] \in Int /\ 1 * f[x] <= 100 * one[x]
      BY <2>3
    <3> HIDE DEF one
    <3>3. 1 * SumOver(R, f) <= 100 * SumOver(R, one)
      BY <2>1, <3>2, SumProportion
    <3>4. QED
      BY <2>2, <2>5, <3>1, <3>3
  <2> HIDE DEF sum
  <2>7. t \in Nat /\ t <= 4800 * n
    BY <2>2, <2>5, <2>6
  <2> HIDE DEF t
  <2>8. t \div n \in Nat /\ n * (t \div n) <= t
    BY <2>2, <2>7, CutOff
  <2> DEFINE q == t \div n
  <2>9. q \in Nat /\ n * q <= n * 4800
    <3>1. n * 4800 = 4800 * n
      BY <2>2
    <3>2. n * q \in Nat
      BY <2>2, <2>8
    <3>3. QED
      BY <2>2, <2>7, <2>8, <3>1, <3>2
  <2> HIDE DEF q
  <2>10. q <= 4800
    BY <2>2, <2>9, TimesCancels
  <2>11. QED
    BY <2>4, <2>9, <2>10 DEF q
<1>3. QED
  BY <1>1, <1>2

\* A way through a set in ascending order.
SortedBy(h, S, f) ==
  /\ h \in [1..Cardinality(S) -> S]
  /\ \A x \in S : \E i \in 1..Cardinality(S) : h[i] = x
  /\ \A i, j \in 1..Cardinality(S) : i # j => h[i] # h[j]
  /\ \A i, j \in 1..Cardinality(S) : i < j => f[h[i]] <= f[h[j]]
Unsorted(S, f) == {s \in SUBSET S : ~ \E h : SortedBy(h, s, f)}

\* A finite set of allocators can be put in the order of their rates.
LEMMA SortedExists ==
  ASSUME NEW S, IsFiniteSet(S), NEW f, NEW n \in Nat, \A x \in S : f[x] \in Nat /\ f[x] <= n
  PROVE  \E h : SortedBy(h, S, f)
<1>1. SUFFICES ASSUME Unsorted(S, f) # {} PROVE FALSE
  BY DEF Unsorted
<1>2. \A s \in Unsorted(S, f) : IsFiniteSet(s)
  BY FS_Subset DEF Unsorted
<1>3. PICK s \in Unsorted(S, f) : \A x \in s : s \ {x} \notin Unsorted(S, f)
  <2> DEFINE F == Unsorted(S, f)
  <2>1. F # {} /\ \A r \in F : IsFiniteSet(r)
    BY <1>1, <1>2
  <2> HIDE DEF F
  <2>2. \E r \in F : \A x \in r : r \ {x} \notin F
    BY <2>1, SmallestSet
  <2>3. QED
    BY <2>2 DEF F
<1>4. s \in SUBSET S /\ IsFiniteSet(s) /\ ~ \E h : SortedBy(h, s, f)
  BY <1>2, <1>3 DEF Unsorted
<1>5. CASE s = {}
  <2> DEFINE h == [i \in {} |-> 0]
  <2>1. Cardinality(s) = 0
    BY <1>5, FS_EmptySet
  <2>2. 1..Cardinality(s) = {}
    BY <2>1
  <2>3. SortedBy(h, s, f)
    BY <1>5, <2>2 DEF SortedBy
  <2>4. QED
    BY <1>4, <2>3
<1>6. CASE s # {}
  <2> DEFINE T == {f[x] : x \in s}
  <2>1. T \in SUBSET Nat /\ T # {} /\ \A y \in T : y <= n
    BY <1>4, <1>6
  <2>2. Max(T) \in T /\ \A y \in T : y <= Max(T)
    BY <2>1, MaxIs
  <2>3. PICK m \in s : f[m] = Max(T)
    BY <2>2
  <2>4. \A x \in s : f[x] <= f[m]
    BY <2>2, <2>3
  <2> DEFINE r == s \ {m}
             k == Cardinality(r)
  <2>5. r \in SUBSET S /\ r \notin Unsorted(S, f)
    BY <1>3, <1>4
  <2>6. PICK h : SortedBy(h, r, f)
    BY <2>5 DEF Unsorted
  <2>7. Cardinality(s) = k + 1 /\ k \in Nat
    <3>1. k = Cardinality(s) - 1
      BY <1>4, FS_RemoveElement
    <3>2. IsFiniteSet(r) /\ Cardinality(s) \in Nat
      BY <1>4, FS_RemoveElement, FS_CardinalityType
    <3>3. k \in Nat
      BY <3>2, FS_CardinalityType
    <3>4. QED
      BY <3>1, <3>2, <3>3
  <2> DEFINE g == [i \in 1..(k + 1) |-> IF i = k + 1 THEN m ELSE h[i]]
  <2>8. /\ h \in [1..k -> r]
        /\ \A x \in r : \E i \in 1..k : h[i] = x
        /\ \A i, j \in 1..k : i # j => h[i] # h[j]
        /\ \A i, j \in 1..k : i < j => f[h[i]] <= f[h[j]]
    BY <2>6 DEF SortedBy
  <2>9. \A x \in r : x \in s /\ x # m /\ f[x] <= f[m]
    BY <2>4
  <2>10. s = r \cup {m}
    OBVIOUS
  <2> HIDE DEF r, k, T
  <2>11. \A i \in 1..(k + 1) : i # k + 1 => i \in 1..k
    BY <2>7
  <2>12. \A i \in 1..k : i \in 1..(k + 1) /\ i # k + 1
    BY <2>7
  <2>13. g[k + 1] = m /\ \A i \in 1..k : g[i] = h[i]
    BY <2>7, <2>12
  <2>14. g \in [1..(k + 1) -> s]
    <3>1. \A i \in 1..(k + 1) : g[i] \in s
      BY <2>3, <2>8, <2>9, <2>11, <2>13
    <3>2. QED
      BY <3>1
  <2> HIDE DEF g
  <2>15. k + 1 \in 1..(k + 1)
    BY <2>7
  <2>16. \A x \in s : \E i \in 1..(k + 1) : g[i] = x
    BY <2>8, <2>10, <2>12, <2>13, <2>15
  <2>17. ASSUME NEW i \in 1..(k + 1), NEW j \in 1..(k + 1), i # j PROVE g[i] # g[j]
    BY <2>8, <2>9, <2>11, <2>13, <2>17
  <2>18. ASSUME NEW i \in 1..(k + 1), NEW j \in 1..(k + 1), i < j PROVE f[g[i]] <= f[g[j]]
    <3>1. i \in 1..k
      BY <2>7, <2>18
    <3>2. CASE j \in 1..k
      BY <2>8, <2>13, <2>18, <3>1, <3>2
    <3>3. CASE j = k + 1
      BY <2>8, <2>9, <2>13, <3>1, <3>3
    <3>4. QED
      BY <2>11, <3>2, <3>3
  <2>19. SortedBy(g, s, f)
    BY <2>7, <2>14, <2>16, <2>17, <2>18 DEF SortedBy
  <2>20. QED
    BY <1>4, <2>19
<1>7. QED
  BY <1>5, <1>6

With(A, f, K) == {i \in A : f[i] \in K}
Alike(A, f, B, g, K) == Cardinality(With(A, f, K)) = Cardinality(With(B, g, K))
Unlike(A, f, B, g, K) == {s \in SUBSET K : ~Alike(A, f, B, g, s)}

\* One more value brings those that have it.
LEMMA WithOneMore ==
  ASSUME NEW A, IsFiniteSet(A), NEW f, NEW K, NEW x \in K
  PROVE  Cardinality(With(A, f, K)) = Cardinality(With(A, f, K \ {x})) + Cardinality(With(A, f, {x}))
<1> DEFINE P == With(A, f, K \ {x})
           Q == With(A, f, {x})
<1>1. IsFiniteSet(P) /\ IsFiniteSet(Q)
  BY FS_Subset DEF With
<1>2. With(A, f, K) = P \cup Q /\ P \cap Q = {}
  BY DEF With
<1> HIDE DEF P, Q
<1>3. Cardinality(P \cup Q) = Cardinality(P) + Cardinality(Q) - Cardinality(P \cap Q)
  BY <1>1, FS_Union
<1>4. Cardinality(P \cap Q) = 0
  BY <1>2, FS_EmptySet
<1>5. Cardinality(P) \in Nat /\ Cardinality(Q) \in Nat
  BY <1>1, FS_CardinalityType
<1>6. QED
  BY <1>2, <1>3, <1>4, <1>5 DEF P, Q

\* Where each value is as frequent, any values are.
LEMMA SameCounts ==
  ASSUME NEW A, NEW B, IsFiniteSet(A), IsFiniteSet(B), NEW f, NEW g, NEW K, IsFiniteSet(K),
         \A x \in K : Alike(A, f, B, g, {x})
  PROVE  Alike(A, f, B, g, K)
<1> DEFINE F == Unlike(A, f, B, g, K)
<1>1. SUFFICES ASSUME F # {} PROVE FALSE
  BY DEF Unlike
<1>2. \A s \in F : IsFiniteSet(s) /\ s \subseteq K /\ ~Alike(A, f, B, g, s)
  BY FS_Subset DEF Unlike
<1>3. \E s \in F : \A x \in s : s \ {x} \notin F
  <2> HIDE DEF F
  <2> QED BY <1>1, <1>2, SmallestSet
<1>4. PICK s \in F : \A x \in s : s \ {x} \notin F
  BY <1>3
<1>5. CASE s = {}
  <2>1. With(A, f, s) = {} /\ With(B, g, s) = {}
    BY <1>5 DEF With
  <2>2. QED
    BY <1>2, <1>4, <2>1 DEF Alike
<1>6. CASE s # {}
  <2>1. PICK x \in s : TRUE
    BY <1>6
  <2>2. Alike(A, f, B, g, s \ {x}) /\ Alike(A, f, B, g, {x})
    BY <1>2, <1>4, <2>1 DEF Unlike
  <2>3. /\ Cardinality(With(A, f, s)) = Cardinality(With(A, f, s \ {x})) + Cardinality(With(A, f, {x}))
        /\ Cardinality(With(B, g, s)) = Cardinality(With(B, g, s \ {x})) + Cardinality(With(B, g, {x}))
    BY <2>1, WithOneMore
  <2>4. Alike(A, f, B, g, s)
    BY <2>2, <2>3 DEF Alike
  <2>5. QED
    BY <1>2, <1>4, <2>4
<1>7. QED
  BY <1>5, <1>6

RatesOfAll == [a \in Allocators |-> AvgRetrievability(a)]
Number == Cardinality(Allocators)
InOrder(s, rates) ==
  /\ s \in [1..Cardinality(Allocators) -> {rates[a] : a \in Allocators}]
  /\ \A i, j \in DOMAIN s : i < j => s[i] <= s[j]
  /\ \A x \in {rates[a] : a \in Allocators} :
       Cardinality({i \in DOMAIN s : s[i] = x}) = Cardinality({a \in Allocators : rates[a] = x})

\* Where an order of the rates exists, SortedRates is one.
LEMMA ChosenOrder ==
  ASSUME NEW rates, NEW s, InOrder(s, rates)
  PROVE  InOrder(SortedRates(rates), rates)
<1> DEFINE T == {t \in [1..Cardinality(Allocators) -> {rates[a] : a \in Allocators}] : InOrder(t, rates)}
<1>1. s \in T
  BY DEF InOrder
<1>2. \E t \in [1..Cardinality(Allocators) -> {rates[a] : a \in Allocators}] :
        /\ \A i, j \in DOMAIN t : i < j => t[i] <= t[j]
        /\ \A x \in {rates[a] : a \in Allocators} :
             Cardinality({i \in DOMAIN t : t[i] = x}) = Cardinality({a \in Allocators : rates[a] = x})
  BY Zenon DEF InOrder
<1>3. QED
  BY <1>2, Zenon DEF SortedRates, InOrder

\* The sorted rates are the rates.
LEMMA SortedRatesAre ==
  ASSUME FilPlusTypeOK
  PROVE  LET s == SortedRates(RatesOfAll)
         IN  /\ s \in [1..Number -> Nat] /\ \A i \in 1..Number : s[i] <= 4800
             /\ \A i, j \in 1..Number : i <= j => s[i] <= s[j]
             /\ \A p \in Int : Cardinality({i \in 1..Number : s[i] > p})
                                 = Cardinality({a \in Allocators : RatesOfAll[a] > p})
<1> DEFINE r == RatesOfAll
           n == Number
           V == {r[a] : a \in Allocators}
           s == SortedRates(r)
<1>1. IsFiniteSet(Allocators) /\ \A a \in Allocators : r[a] \in Nat /\ r[a] <= 4800
  BY AverageIs, ScoringAssumption DEF RatesOfAll
<1>2. PICK h : SortedBy(h, Allocators, r)
  <2> DEFINE most == 4800
  <2>1. most \in Nat /\ \A a \in Allocators : r[a] \in Nat /\ r[a] <= most
    BY <1>1
  <2> HIDE DEF r, most
  <2>2. QED
    BY <1>1, <2>1, SortedExists
<1>3. n \in Nat /\ IsFiniteSet(1..n) /\ n = Cardinality(Allocators)
  BY <1>1, FS_CardinalityType, FS_Interval DEF Number
<1>4. /\ h \in [1..n -> Allocators]
      /\ \A x \in Allocators : \E i \in 1..n : h[i] = x
      /\ \A i, j \in 1..n : i # j => h[i] # h[j]
      /\ \A i, j \in 1..n : i < j => r[h[i]] <= r[h[j]]
  BY <1>2, <1>3 DEF SortedBy
<1> DEFINE t == [i \in 1..n |-> r[h[i]]]
<1> HIDE DEF r, n
<1>5. InOrder(t, r)
  <2>1. t \in [1..n -> V] /\ DOMAIN t = 1..n
    BY <1>4
  <2>2. \A i, j \in 1..n : i < j => t[i] <= t[j]
    BY <1>4
  <2>3. ASSUME NEW x
        PROVE  Cardinality({i \in 1..n : t[i] = x}) = Cardinality({a \in Allocators : r[a] = x})
    <3> DEFINE P == {i \in 1..n : t[i] = x}
               Q == {a \in Allocators : r[a] = x}
               g == [i \in P |-> h[i]]
    <3>1. IsFiniteSet(P)
      BY <1>3, FS_Subset
    <3>2. \A i \in P : i \in 1..n /\ r[h[i]] = x /\ g[i] = h[i]
      OBVIOUS
    <3>3. \A a \in Q : \E i \in P : g[i] = a
      BY <1>4
    <3>4. \A i \in P : g[i] \in Q
      BY <1>4, <3>2
    <3>5. g \in Surjection(P, Q)
      BY <3>3, <3>4 DEF Surjection
    <3>6. g \in Injection(P, Q)
      <4>1. \A i, j \in P : i # j => g[i] # g[j]
        BY <1>4, <3>2
      <4>2. g \in [P -> Q]
        BY <3>4
      <4> HIDE DEF P, Q, g
      <4>3. QED
        BY <4>1, <4>2 DEF Injection, IsInjective
    <3> HIDE DEF P, Q, g
    <3>7. Cardinality(P) = Cardinality(Q)
      BY <3>1, <3>5, <3>6, FS_Surjection
    <3>8. QED
      BY <3>7 DEF P, Q
  <2> HIDE DEF t
  <2>4. \A i, j \in DOMAIN t : i < j => t[i] <= t[j]
    BY <2>1, <2>2
  <2>5. \A x \in V : Cardinality({i \in DOMAIN t : t[i] = x}) = Cardinality({a \in Allocators : r[a] = x})
    BY <2>1, <2>3
  <2>6. t \in [1..Cardinality(Allocators) -> {r[a] : a \in Allocators}]
    BY <1>3, <2>1
  <2>7. QED
    BY <2>4, <2>5, <2>6, Zenon DEF InOrder
<1>6. InOrder(s, r)
  <2> HIDE DEF t, s
  <2> QED BY <1>5, ChosenOrder DEF s
<1> HIDE DEF t, s
<1>7. /\ s \in [1..n -> V]
      /\ \A i, j \in 1..n : i < j => s[i] <= s[j]
      /\ \A x \in V : Cardinality({i \in 1..n : s[i] = x}) = Cardinality({a \in Allocators : r[a] = x})
  <2>1. s \in [1..n -> V] /\ DOMAIN s = 1..n
    BY <1>3, <1>6 DEF InOrder
  <2>2. \A i, j \in 1..n : i < j => s[i] <= s[j]
    BY <1>6, <2>1 DEF InOrder
  <2>3. \A x \in V : Cardinality({i \in DOMAIN s : s[i] = x}) = Cardinality({a \in Allocators : r[a] = x})
    BY <1>6, Zenon DEF InOrder
  <2>4. QED
    BY <2>1, <2>2, <2>3
<1>8. \A i \in 1..n : s[i] \in Nat /\ s[i] <= 4800
  BY <1>1, <1>7
<1>9. ASSUME NEW p \in Int
      PROVE  Cardinality({i \in 1..n : s[i] > p}) = Cardinality({a \in Allocators : r[a] > p})
  <2> DEFINE K == {x \in V : x > p}
  <2>1. IsFiniteSet(V)
    BY <1>1, ImageSize
  <2>2. IsFiniteSet(K)
    BY <2>1, FS_Subset
  <2>3. ASSUME NEW x \in K PROVE Alike(1..n, s, Allocators, r, {x})
    <3>1. With(1..n, s, {x}) = {i \in 1..n : s[i] = x}
      BY DEF With
    <3>2. With(Allocators, r, {x}) = {a \in Allocators : r[a] = x}
      BY DEF With
    <3>3. QED
      BY <1>7, <3>1, <3>2 DEF Alike
  <2>4. Alike(1..n, s, Allocators, r, K)
    <3> DEFINE D == 1..n
    <3>1. \A x \in K : Alike(D, s, Allocators, r, {x})
      BY <2>3
    <3>2. IsFiniteSet(D) /\ IsFiniteSet(Allocators)
      BY <1>1, <1>3
    <3> HIDE DEF K, D
    <3>3. Alike(D, s, Allocators, r, K)
      BY ONLY <2>2, <3>1, <3>2, SameCounts
    <3>4. QED
      BY <3>3 DEF D
  <2>5. With(1..n, s, K) = {i \in 1..n : s[i] > p}
    BY <1>7 DEF With
  <2>6. With(Allocators, r, K) = {a \in Allocators : r[a] > p}
    BY DEF With
  <2>7. QED
    BY <2>4, <2>5, <2>6 DEF Alike
<1>10. \A i, j \in 1..n : i <= j => s[i] <= s[j]
  <2>1. ASSUME NEW i \in 1..n, NEW j \in 1..n, i <= j PROVE s[i] <= s[j]
    <3>1. i < j \/ i = j
      BY <1>3, <2>1
    <3>2. QED
      BY <1>7, <1>8, <2>1, <3>1
  <2>2. QED
    BY <2>1
<1>11. s \in [1..n -> Nat]
  BY <1>7, <1>8
<1>12. QED
  BY <1>8, <1>9, <1>10, <1>11 DEF n, s, r

\* Between two numbers.
LEMMA Between ==
  ASSUME NEW x \in Nat, NEW y \in Nat, x <= y, NEW r \in 0..3
  PROVE  LET z == x + ((y - x) * r) \div 4
         IN  z \in Nat /\ x <= z /\ z <= y
<1> DEFINE t == (y - x) * r
           q == t \div 4
<1>1. t \in Nat /\ t <= 4 * (y - x)
  <2>1. r = 0 \/ r = 1 \/ r = 2 \/ r = 3
    OBVIOUS
  <2>2. r = 0 => t = 0
    OBVIOUS
  <2>3. r = 1 => t = y - x
    OBVIOUS
  <2>4. r = 2 => t = 2 * (y - x)
    OBVIOUS
  <2>5. r = 3 => t = 3 * (y - x)
    OBVIOUS
  <2> HIDE DEF t
  <2>6. QED
    BY <2>1, <2>2, <2>3, <2>4, <2>5
<1> HIDE DEF t
<1>2. q \in Nat /\ 4 * q <= t
  BY <1>1, CutOff
<1> HIDE DEF q
<1>3. q <= y - x
  BY <1>1, <1>2
<1>4. x + q \in Nat /\ x <= x + q /\ x + q <= y
  BY <1>2, <1>3
<1>5. QED
  BY <1>4 DEF q, t

\* Half of a number is no less than a quarter of it.
LEMMA Between2 ==
  ASSUME NEW x \in Nat, NEW y \in Nat, x <= y
  PROVE  x + ((y - x) * 1) \div 4 <= x + ((y - x) * 2) \div 4
OBVIOUS

Sorted == SortedRates(RatesOfAll)
Least(quarters) == (quarters * (Number - 1)) \div 4 + 1
Rest(quarters) == (quarters * (Number - 1)) % 4

\* Where a percentile lies.
LEMMA PercentileIs ==
  ASSUME FilPlusTypeOK, NEW a \in Allocators, NEW quarters \in {1, 2}
  PROVE  LET p == CalculateQuarterPercentile(quarters)
             k == Least(quarters)
         IN  /\ Number \in Nat /\ Number >= 1 /\ k \in 1..Number /\ p \in Nat /\ p <= 4800
             /\ Rest(quarters) \in 0..3 /\ Sorted[k] \in Nat /\ Sorted[k] <= p
             /\ Rest(quarters) = 0 => p = Sorted[k]
             /\ Rest(quarters) # 0 =>
                  /\ k + 1 \in 1..Number /\ Sorted[k + 1] \in Nat /\ p <= Sorted[k + 1]
                  /\ p = Sorted[k] + ((Sorted[k + 1] - Sorted[k]) * Rest(quarters)) \div 4
<1> DEFINE s == Sorted
           n == Number
           index == quarters * (n - 1)
           r == Rest(quarters)
           k == Least(quarters)
           p == CalculateQuarterPercentile(quarters)
<1>1. /\ s \in [1..n -> Nat] /\ \A i \in 1..n : s[i] <= 4800
      /\ \A i, j \in 1..n : i <= j => s[i] <= s[j]
  BY SortedRatesAre DEF Sorted
<1>2. n \in Nat /\ n >= 1
  BY FS_CardinalityType, FS_EmptySet, ScoringAssumption DEF Number
<1>3. Len(s) = n
  <2> HIDE DEF s, n
  <2>1. s \in Seq(Nat)
    BY <1>1, <1>2
  <2>2. QED
    BY <1>1, <1>2, <2>1
<1>4. p = IF (quarters * (Len(s) - 1)) % 4 = 0 THEN s[(quarters * (Len(s) - 1)) \div 4 + 1]
          ELSE s[(quarters * (Len(s) - 1)) \div 4 + 1]
                 + ((s[(quarters * (Len(s) - 1)) \div 4 + 2] - s[(quarters * (Len(s) - 1)) \div 4 + 1])
                      * ((quarters * (Len(s) - 1)) % 4)) \div 4
  BY Zenon DEF CalculateQuarterPercentile, Sorted, RatesOfAll
<1>5. /\ index \in Nat /\ index <= 2 * (n - 1)
      /\ r = index % 4 /\ r \in 0..3 /\ k = index \div 4 + 1 /\ k \in 1..n
      /\ (r # 0 => k + 1 \in 1..n) /\ k + 1 = index \div 4 + 2
  <2>1. index = n - 1 \/ index = 2 * (n - 1)
    BY <1>2
  <2>2. r = index % 4 /\ k = index \div 4 + 1
    BY DEF Rest, Least
  <2> HIDE DEF index, r, k, n
  <2>3. index \in Nat /\ index <= 2 * (n - 1)
    BY <1>2, <2>1
  <2>4. QED
    BY <1>2, <2>2, <2>3
<1>6. p = IF r = 0 THEN s[k] ELSE s[k] + ((s[k + 1] - s[k]) * r) \div 4
  BY <1>3, <1>4, <1>5
<1> HIDE DEF s, n, index, r, k, p
<1>7. CASE r = 0
  BY <1>1, <1>2, <1>5, <1>6, <1>7 DEF s, n, r, k, p
<1>8. CASE r # 0
  <2> DEFINE x == s[k]
             y == s[k + 1]
             z == x + ((y - x) * r) \div 4
  <2>1. x \in Nat /\ y \in Nat /\ x <= y /\ y <= 4800
    BY <1>1, <1>5, <1>8
  <2>2. z \in Nat /\ x <= z /\ z <= y
    <3> HIDE DEF x, y
    <3> QED BY <1>5, <2>1, Between
  <2>3. p = z
    BY <1>6, <1>8
  <2>4. z \in Nat /\ z <= 4800 /\ x <= z /\ z <= y /\ k + 1 \in 1..n
    <3> HIDE DEF x, y, z
    <3> QED BY <1>5, <1>8, <2>1, <2>2
  <2>5. QED
    BY <1>2, <1>5, <1>8, <2>1, <2>3, <2>4 DEF s, n, r, k, p
<1>9. QED
  BY <1>7, <1>8

\* The quarter is no more than the half.
LEMMA QuarterWithinHalf ==
  ASSUME FilPlusTypeOK, NEW a \in Allocators
  PROVE  CalculateQuarterPercentile(1) <= CalculateQuarterPercentile(2)
<1> DEFINE n == Number
           p25 == CalculateQuarterPercentile(1)
           p50 == CalculateQuarterPercentile(2)
<1>1. /\ n \in Nat /\ n >= 1 /\ Least(1) \in 1..n /\ p25 \in Nat /\ Rest(1) \in 0..3 /\ Sorted[Least(1)] \in Nat
      /\ Rest(1) = 0 => p25 = Sorted[Least(1)]
      /\ Rest(1) # 0 =>
           /\ Least(1) + 1 \in 1..n /\ Sorted[Least(1) + 1] \in Nat /\ p25 <= Sorted[Least(1) + 1]
           /\ p25 = Sorted[Least(1)] + ((Sorted[Least(1) + 1] - Sorted[Least(1)]) * Rest(1)) \div 4
  BY PercentileIs
<1>2. /\ Least(2) \in 1..n /\ p50 \in Nat /\ Rest(2) \in 0..3 /\ Sorted[Least(2)] \in Nat
      /\ Sorted[Least(2)] <= p50
      /\ Rest(2) # 0 => p50 = Sorted[Least(2)] + ((Sorted[Least(2) + 1] - Sorted[Least(2)]) * Rest(2)) \div 4
  BY PercentileIs
<1>3. \A i, j \in 1..n : i <= j => Sorted[i] <= Sorted[j]
  BY SortedRatesAre DEF Sorted
<1>4. /\ Least(1) = (n - 1) \div 4 + 1 /\ Rest(1) = (n - 1) % 4
      /\ Least(2) = (2 * (n - 1)) \div 4 + 1 /\ Rest(2) = (2 * (n - 1)) % 4
  BY <1>1 DEF Least, Rest
<1> HIDE DEF n, p25, p50
<1>5. Least(1) <= Least(2) /\ (Rest(1) # 0 /\ n # 2 => Least(1) + 1 <= Least(2))
      /\ (n = 2 => Rest(1) = 1 /\ Rest(2) = 2 /\ Least(1) = 1 /\ Least(2) = 1)
  BY <1>1, <1>4
<1>6. CASE Rest(1) = 0
  <2>1. Sorted[Least(1)] <= Sorted[Least(2)]
    BY <1>1, <1>2, <1>3, <1>5
  <2>2. QED
    BY <1>1, <1>2, <1>6, <2>1 DEF p25, p50
<1>7. CASE Rest(1) # 0 /\ n # 2
  <2>1. Sorted[Least(1) + 1] <= Sorted[Least(2)]
    BY <1>1, <1>2, <1>3, <1>5, <1>7
  <2>2. p25 <= Sorted[Least(1) + 1] /\ Sorted[Least(1) + 1] \in Nat
    BY <1>1, <1>7
  <2> DEFINE x == Sorted[Least(1) + 1]
             y == Sorted[Least(2)]
  <2>3. x \in Nat /\ y \in Nat /\ p25 <= x /\ x <= y /\ y <= p50 /\ p25 \in Nat /\ p50 \in Nat
    BY <1>1, <1>2, <2>1, <2>2
  <2> HIDE DEF x, y
  <2>4. p25 <= p50
    BY <2>3
  <2>5. QED
    BY <2>4 DEF p25, p50
<1>8. CASE n = 2
  <2> DEFINE x == Sorted[1]
             y == Sorted[2]
  <2>1. x \in Nat /\ y \in Nat
    BY <1>1, <1>5, <1>8
  <2>2. x <= y
    BY <1>3, <1>8
  <2>3. p25 = x + ((y - x) * 1) \div 4 /\ p50 = x + ((y - x) * 2) \div 4
    BY <1>1, <1>2, <1>5, <1>8
  <2> HIDE DEF x, y
  <2>4. p25 <= p50
    BY <2>1, <2>2, <2>3, Between2
  <2>5. QED
    BY <2>4 DEF p25, p50
<1>9. QED
  BY <1>6, <1>7, <1>8

\* The score of retrievability fits, whatever the rates of the others.
LEMMA UrlFinderFits ==
  ASSUME FilPlusTypeOK, NEW a \in Allocators
  PROVE  Fits(UrlFinderRetrievability(a))
<1> DEFINE m == UrlFinderRetrievability(a)
           v == AvgRetrievability(a)
           p25 == CalculateQuarterPercentile(1)
           p50 == CalculateQuarterPercentile(2)
<1>1. m = Metric("URL_FINDER", v, Steps(v > p50, 3, v > p25, 1),
                 {Band(0, p25, 0), Band(p25, p50, 1), Band(p50, 100 * RateUnit, 3)}, 5, 0)
  BY DEF UrlFinderRetrievability
<1>2. v \in Nat /\ v <= 4800
  BY AverageIs
<1>3. p25 \in Nat /\ p50 \in Nat /\ p25 <= p50 /\ p50 <= 4800
  BY PercentileIs, QuarterWithinHalf
<1> HIDE DEF v, p25, p50
<1>4. /\ m.value = v /\ m.score = Steps(v > p50, 3, v > p25, 1)
      /\ m.ranges = {Band(0, p25, 0), Band(p25, p50, 1), Band(p50, 4800, 3)}
  BY <1>1 DEF Metric, RateUnit
<1> HIDE DEF m
<1>5. m.score \in Nat /\ (v > p50 => m.score = 3) /\ (v <= p50 /\ v > p25 => m.score = 1)
      /\ (v <= p50 /\ v <= p25 => m.score = 0)
  BY <1>2, <1>3, <1>4 DEF Steps
<1>6. ThreeBands(m, 0, p25, p50, 4800, 0, 1, 3)
  BY <1>2, <1>3, <1>4, <1>5 DEF ThreeBands, NoMaximum
<1>7. QED
  BY <1>6, ThreeRanges DEF m

\* No more than half of them are above the median.
LEMMA HalfAbove ==
  ASSUME FilPlusTypeOK
  PROVE  2 * Cardinality({a \in Allocators : UrlFinderRetrievability(a).score = 3}) <= Cardinality(Allocators)
<1> DEFINE A == {a \in Allocators : UrlFinderRetrievability(a).score = 3}
           p == CalculateQuarterPercentile(2)
           B == {a \in Allocators : RatesOfAll[a] > p}
           n == Number
           k == Least(2)
           I == {i \in 1..n : Sorted[i] > p}
<1>1. CASE Allocators = {}
  <2>1. A = {}
    BY <1>1
  <2>2. QED
    BY <1>1, <2>1, FS_EmptySet
<1>2. CASE Allocators # {}
  <2>1. PICK b \in Allocators : TRUE
    BY <1>2
  <2>2. /\ n \in Nat /\ n >= 1 /\ k \in 1..n /\ p \in Nat
        /\ Rest(2) \in 0..3 /\ Sorted[k] \in Nat /\ Sorted[k] <= p
    BY <2>1, PercentileIs
  <2>3. /\ \A i \in 1..n : Sorted[i] \in Nat
        /\ \A i, j \in 1..n : i <= j => Sorted[i] <= Sorted[j]
        /\ Cardinality(I) = Cardinality(B)
    <3>1. p \in Int
      BY <2>2
    <3> HIDE DEF p
    <3>2. QED
      BY <3>1, SortedRatesAre DEF Sorted
  <2>4. A \subseteq B
    <3>1. ASSUME NEW a \in A PROVE RatesOfAll[a] > p
      <4>1. UrlFinderRetrievability(a).score = Steps(AvgRetrievability(a) > p, 3, AvgRetrievability(a) > CalculateQuarterPercentile(1), 1)
        BY DEF UrlFinderRetrievability, Metric
      <4>2. AvgRetrievability(a) > p
        BY <4>1 DEF Steps
      <4>3. QED
        BY <4>2 DEF RatesOfAll
    <3>2. QED
      BY <3>1
  <2>5. I \subseteq (k + 1)..n
    <3> HIDE DEF p, n, k
    <3>1. ASSUME NEW i \in I PROVE i \in (k + 1)..n
      <4>1. i \in 1..n /\ Sorted[i] > p /\ Sorted[i] \in Nat
        BY <2>3
      <4>2. ~(i <= k)
        BY <2>2, <2>3, <4>1
      <4>3. QED
        BY <2>2, <4>1, <4>2
    <3>2. QED
      BY <3>1
  <2>6. k = (2 * (n - 1)) \div 4 + 1
    BY DEF Least
  <2> HIDE DEF k, n
  <2>7. IsFiniteSet((k + 1)..n) /\ Cardinality((k + 1)..n) = IF k + 1 > n THEN 0 ELSE n - (k + 1) + 1
    <3> DEFINE l == k + 1
    <3>1. l \in Int /\ n \in Int
      BY <2>2
    <3> HIDE DEF l
    <3>2. IsFiniteSet(l..n) /\ Cardinality(l..n) = IF l > n THEN 0 ELSE n - l + 1
      BY <3>1, FS_Interval
    <3>3. QED
      BY <3>2 DEF l
  <2> HIDE DEF I, B, A
  <2>8. Cardinality(I) <= Cardinality((k + 1)..n)
    BY <2>5, <2>7, FS_Subset
  <2>9. Cardinality(A) <= Cardinality(B) /\ Cardinality(A) \in Nat /\ Cardinality(B) \in Nat
    <3>1. IsFiniteSet(B) /\ IsFiniteSet(A)
      BY <2>4, ScoringAssumption, FS_Subset DEF A, B
    <3>2. QED
      BY <2>4, <3>1, FS_Subset, FS_CardinalityType
  <2>10. n = Cardinality(Allocators)
    BY DEF n, Number
  <2>11. 2 * Cardinality(A) <= n
    <3>1. Cardinality(A) <= n - k
      BY <2>2, <2>3, <2>7, <2>8, <2>9
    <3>2. 2 * (n - k) <= n
      BY <2>2, <2>6
    <3>3. QED
      BY <2>2, <2>9, <3>1, <3>2
  <2>12. QED
    BY <2>10, <2>11 DEF A
<1>3. QED
  BY <1>1, <1>2

\* Sums of numbers, and of zeros.
LEMMA SumNat ==
  ASSUME NEW S, IsFiniteSet(S), NEW f, \A x \in S : f[x] \in Nat
  PROVE  SumOver(S, f) \in Nat /\ ((\A x \in S : f[x] = 0) => SumOver(S, f) = 0)
<1>1. SumOver(S, f) \in Int
  BY SumType
<1>2. 0 <= SumOver(S, f)
  BY SumPart
<1>3. ASSUME \A x \in S : f[x] = 0 PROVE SumOver(S, f) <= 0
  <2> DEFINE none == [x \in S |-> 0]
  <2>1. \A x \in S : f[x] \in Int /\ none[x] \in Int /\ f[x] <= none[x]
    BY <1>3
  <2>2. SumOver(S, none) = 0 * Cardinality(S)
    BY SumConstant
  <2>3. 0 * Cardinality(S) = 0
    BY FS_CardinalityType
  <2> HIDE DEF none
  <2>4. SumOver(S, f) <= SumOver(S, none)
    BY <2>1, SumCompare
  <2>5. QED
    BY <2>2, <2>3, <2>4
<1>4. QED
  BY <1>1, <1>2, <1>3

\* What others claimed of a client's pieces.
LEMMA SharedOfType ==
  ASSUME FilPlusTypeOK, NEW c
  PROVE  SharedOf(c) \in Nat /\ (DOMAIN CidSharing(c) = {} => SharedOf(c) = 0)
<1> DEFINE S == DOMAIN CidSharing(c)
           f == SharedOfColumn(c, S)
           clientOf == [k \in claims |-> k.client]
<1>1. CidSharing(c) = [o \in {o \in Clients \ {c} : Shared(c, o) # {}} |->
                 [total |-> Total(Shared(c, o)), pieces |-> Cardinality(PiecesOf(Shared(c, o)))]]
  BY Zenon DEF CidSharing, Shared
<1>2. IsFiniteSet(S)
  <2>1. S \subseteq {clientOf[k] : k \in claims}
    BY <1>1 DEF Shared, ClaimsOf
  <2>2. IsFiniteSet({clientOf[k] : k \in claims})
    BY ImageSize DEF FilPlusTypeOK
  <2>3. QED
    BY <2>1, <2>2, FS_Subset
<1>3. ASSUME NEW o \in S PROVE f[o] \in Nat
  <2>1. CidSharing(c)[o] = [total |-> Total(Shared(c, o)), pieces |-> Cardinality(PiecesOf(Shared(c, o)))]
    BY <1>1
  <2>2. Shared(c, o) \in SUBSET ClaimsOf(o)
    BY DEF Shared
  <2>3. Total(Shared(c, o)) \in Nat
    BY <2>2, ClientFacts, TotalOfClaims
  <2>4. CidSharing(c)[o].total \in Nat
    BY <2>1, <2>3
  <2>5. f[o] = Weighted(c, CidSharing(c)[o].total)
    BY DEF SharedOfColumn
  <2>6. QED
    BY <2>4, <2>5, WeightedIs
<1>4. SharedOf(c) = SumOver(S, f)
  BY SharedOfIs
<1> HIDE DEF f
<1>5. S = {} => SumOver(S, f) = 0
  BY SumEmpty
<1> HIDE DEF S
<1>6. QED
  BY <1>2, <1>3, <1>4, <1>5, SumNat DEF S

\* The sums over the clients of an allocator.
LEMMA WeightedSums ==
  ASSUME FilPlusTypeOK, NEW a
  PROVE  LET clients == ClientsOf(a)
         IN  /\ SharedOfAll(clients) \in Nat /\ AllocatedTo(a, clients) \in Nat
             /\ UniqueOf(clients) \in Nat /\ ExpectedOf(clients) \in Nat
             /\ \A c \in clients : WeightedAllocations(a, c) \in Nat
             /\ (\A c \in clients : DOMAIN CidSharing(c) = {}) => SharedOfAll(clients) = 0
<1> DEFINE S == ClientsOf(a)
           s == SharedOfAllColumn(S)
           w == AllocatedToColumn(a, S)
           u == UniqueOfColumn(S)
           e == ExpectedOfColumn(S)
<1>1. IsFiniteSet(S) /\ S \subseteq Clients /\ \A c : TotalAllocations(a, c) \in Nat
  BY ClientsAre
<1>2. SharedOfAll(S) = SumOver(S, s) /\ AllocatedTo(a, S) = SumOver(S, w)
  BY SharedOfAllIs, AllocatedToIs
<1>3. UniqueOf(S) = SumOver(S, u) /\ ExpectedOf(S) = SumOver(S, e)
  BY UniqueOfIs, ExpectedOfIs
<1>4. \A c \in S : s[c] \in Nat /\ (DOMAIN CidSharing(c) = {} => s[c] = 0)
  BY SharedOfType DEF SharedOfAllColumn
<1>5. \A c \in S : WeightedAllocations(a, c) \in Nat /\ w[c] \in Nat
  BY <1>1, WeightedIs DEF AllocatedToColumn, WeightedAllocations
<1>6. ASSUME NEW c \in S PROVE u[c] \in Nat
  <2>1. ClientReport(c).uniqueDataSetSize = Unique(ClaimsOf(c))
    BY ReportIs, DataSetSize
  <2>2. Unique(ClaimsOf(c)) \in Nat
    BY ClientFacts, UniqueOfClaims
  <2>3. u[c] = Weighted(c, ClientReport(c).uniqueDataSetSize)
    BY DEF UniqueOfColumn
  <2>4. QED
    BY <2>1, <2>2, <2>3, WeightedIs
<1>7. \A c \in S : e[c] \in Nat
  <2>1. \A c \in S : Expected[c] \in Nat /\ e[c] = Weighted(c, Expected[c])
    BY <1>1, ChecksAssumption DEF ExpectedOfColumn
  <2>2. QED
    BY <2>1, WeightedIs
<1> HIDE DEF S, s, w, u, e
<1>8. /\ SumOver(S, s) \in Nat /\ SumOver(S, w) \in Nat /\ SumOver(S, u) \in Nat /\ SumOver(S, e) \in Nat
      /\ (\A c \in S : s[c] = 0) => SumOver(S, s) = 0
  BY <1>1, <1>4, <1>5, <1>6, <1>7, SumNat
<1>9. QED
  BY <1>2, <1>3, <1>4, <1>5, <1>8 DEF S

\* A percentage is a natural number, and nothing is zero per cent.
LEMMA PercentOfNothing ==
  ASSUME NEW part \in Nat, NEW total \in Nat
  PROVE  PercentOf(part, total) \in Nat /\ (part = 0 => PercentOf(part, total) = 0)
<1>1. PercentOf(part, total) \in Nat
  BY PercentIs
<1>2. part = 0 => PercentOf(part, total) = 0
  BY PercentIs
<1>3. QED
  BY <1>1, <1>2

\* The score of sharing.
LEMMA CidSharingFits ==
  ASSUME FilPlusTypeOK, NEW a
  PROVE  /\ Fits(CidSharingScore(a))
         /\ (\A c \in ClientsOf(a) : DOMAIN CidSharing(c) = {}) => Full(CidSharingScore(a))
<1> DEFINE m == CidSharingScore(a)
           v == PercentOf(SharedOfAll(ClientsOf(a)), AllocatedTo(a, ClientsOf(a)))
<1>1. m = Metric("CID_SHARING", v, Steps(v = 0, 2, v > 0 /\ v <= 200, 1),
                 {Band(0, 0, 2), Band(0, 200, 1), Band(200, 10000, 0)}, 3, 3)
  BY DEF CidSharingScore
<1>2. v \in Nat /\ ((\A c \in ClientsOf(a) : DOMAIN CidSharing(c) = {}) => v = 0)
  <2> DEFINE shared == SharedOfAll(ClientsOf(a))
             allocated == AllocatedTo(a, ClientsOf(a))
  <2>1. /\ shared \in Nat /\ allocated \in Nat
        /\ (\A c \in ClientsOf(a) : DOMAIN CidSharing(c) = {}) => shared = 0
    BY WeightedSums
  <2> HIDE DEF shared, allocated
  <2>2. PercentOf(shared, allocated) \in Nat /\ (shared = 0 => PercentOf(shared, allocated) = 0)
    <3>1. shared \in Nat /\ allocated \in Nat
      BY <2>1
    <3>2. QED
      BY ONLY <3>1, PercentOfNothing
  <2>3. v = PercentOf(shared, allocated)
    BY DEF shared, allocated
  <2> HIDE DEF v
  <2>4. QED
    BY <2>1, <2>2, <2>3
<1> HIDE DEF v
<1>3. /\ m.value = v /\ m.score = Steps(v = 0, 2, v > 0 /\ v <= 200, 1)
      /\ m.ranges = {Band(0, 0, 2), Band(0, 200, 1), Band(200, 10000, 0)}
  BY <1>1 DEF Metric
<1> HIDE DEF m
<1>4. m.score \in Nat /\ (v = 0 => m.score = 2) /\ (v > 0 /\ v <= 200 => m.score = 1)
      /\ (v > 200 => m.score = 0)
  BY <1>2, <1>3 DEF Steps
<1>5. Fits(m)
  <2>1. ThreeBands(m, 0, 0, 200, 10000, 2, 1, 0)
    BY <1>2, <1>3, <1>4 DEF ThreeBands, NoMaximum
  <2>2. QED
    BY <2>1, ThreeRanges
<1>6. v = 0 => Full(m)
  <2>1. \A y \in m.ranges : y.score \in {0, 1, 2}
    BY <1>3 DEF Band
  <2>2. QED
    BY <1>4, <2>1 DEF Full
<1>7. QED
  BY <1>2, <1>5, <1>6 DEF m

\* The score of the size of data sets.
LEMMA UniqueDataSetSizeFits ==
  ASSUME FilPlusTypeOK, NEW a
  PROVE  Fits(UniqueDataSetSizeScore(a))
<1> DEFINE m == UniqueDataSetSizeScore(a)
           v == PercentOf(UniqueOf(ClientsOf(a)), ExpectedOf(ClientsOf(a)))
<1>1. m = Metric("UNIQUE_DATA_SET_SIZE", v, Steps(v < 10000, 1, v <= 12000, 2),
                 {Band(0, 10000, 1), Band(10000, 12000, 2), Band(12000, NoMaximum, 0)}, 1, 1)
  BY DEF UniqueDataSetSizeScore
<1>2. v \in Nat
  BY WeightedSums, PercentIs
<1> HIDE DEF v
<1>3. /\ m.value = v /\ m.score = Steps(v < 10000, 1, v <= 12000, 2)
      /\ m.ranges = {Band(0, 10000, 1), Band(10000, 12000, 2), Band(12000, NoMaximum, 0)}
  BY <1>1 DEF Metric
<1> HIDE DEF m
<1>4. m.score \in Nat /\ (v < 10000 => m.score = 1) /\ (v >= 10000 /\ v <= 12000 => m.score = 2)
      /\ (v > 12000 => m.score = 0)
  BY <1>2, <1>3 DEF Steps
<1>5. ThreeBands(m, 0, 10000, 12000, NoMaximum, 1, 2, 0)
  BY <1>2, <1>3, <1>4 DEF ThreeBands, NoMaximum
<1>6. QED
  BY <1>5, ThreeRanges DEF m

\* What a duplication that is cut off to nothing says.
LEMMA CutToNothing ==
  ASSUME NEW x \in Nat, NEW y \in Nat, y >= 1, ~(BigIntDiv(100 * x, y) > 0)
  PROVE  10000 * x <= y
<1> DEFINE t == 100 * (100 * x)
           q == t \div y
<1>1. t \in Nat /\ t = 10000 * x
  OBVIOUS
<1>2. BigIntDiv(100 * x, y) = q
  BY DEF BigIntDiv
<1> HIDE DEF t
<1>3. q \in Nat /\ t < y * q + y
  BY <1>1, CutOff
<1> HIDE DEF q
<1>4. q = 0
  BY <1>2, <1>3
<1>5. y * q = 0
  BY <1>4
<1>6. QED
  BY <1>1, <1>3, <1>5

\* The score of duplicates.
LEMMA DuplicatedFits ==
  ASSUME FilPlusTypeOK, NEW a
  PROVE  /\ Fits(DuplicatedData(a))
         /\ (\A row \in Rows(a) : ~(BigIntDiv(100 * (DealSize(row) - UniqueSize(row)), DealSize(row)) > 0))
              => Full(DuplicatedData(a))
<1> DEFINE m == DuplicatedData(a)
           S == Rows(a)
           part == Duplicates(S)
           total == Sizes(S)
           v == PercentOf(part, total)
           s == SizesColumn(S)
           d == DuplicatesColumn(S)
           Whole == \A row \in S : ~(BigIntDiv(100 * (DealSize(row) - UniqueSize(row)), DealSize(row)) > 0)
<1>1. m = Metric("DUPLICATED_DATA", v, Steps(v <= 25, 2, v <= 500, 1),
                 {Band(0, 25, 2), Band(25, 500, 1), Band(500, 10000, 0)}, 2, 2)
  BY DEF DuplicatedData
<1>2. IsFiniteSet(S) /\ part = SumOver(S, d) /\ total = SumOver(S, s)
  BY RowsAre, DuplicatesIs, SizesIs
<1>3. \A row \in S : /\ s[row] = DealSize(row) /\ s[row] \in Nat /\ s[row] >= 1
                     /\ d[row] = DealSize(row) - UniqueSize(row) /\ d[row] \in Nat
  BY RowsAre DEF SizesColumn, DuplicatesColumn
<1>4. ASSUME Whole, NEW row \in S PROVE 10000 * d[row] <= 1 * s[row]
  <2> DEFINE x == DealSize(row) - UniqueSize(row)
             y == DealSize(row)
  <2>1. x = d[row] /\ y = s[row] /\ ~(BigIntDiv(100 * x, y) > 0)
    BY <1>3, <1>4
  <2>2. x \in Nat /\ y \in Nat /\ y >= 1
    BY <1>3, <2>1
  <2> HIDE DEF x, y
  <2>3. 10000 * x <= y
    BY ONLY <2>1, <2>2, CutToNothing
  <2>4. QED
    BY <2>1, <2>2, <2>3
<1> HIDE DEF s, d, S, Whole, part, total
<1>5. part \in Nat /\ total \in Nat
  BY <1>2, <1>3, SumNat
<1>6. Whole => 10000 * part <= total
  <2>1. SUFFICES ASSUME Whole PROVE 10000 * part <= total
    OBVIOUS
  <2>2. \A row \in S : d[row] \in Int /\ s[row] \in Int /\ 10000 * d[row] <= 1 * s[row]
    BY <1>3, <1>4, <2>1
  <2>3. 10000 * SumOver(S, d) <= 1 * SumOver(S, s)
    BY <1>2, <2>2, SumProportion
  <2>4. QED
    BY <1>2, <1>5, <2>3
<1>7. v \in Nat
  BY ONLY <1>5, PercentOfNothing
<1>8. Whole => v <= 1
  <2>1. 10000 * part <= total => v <= 1
    BY ONLY <1>5, PercentIs
  <2>2. QED
    BY <1>6, <2>1
<1> HIDE DEF v
<1>9. /\ m.value = v /\ m.score = Steps(v <= 25, 2, v <= 500, 1)
      /\ m.ranges = {Band(0, 25, 2), Band(25, 500, 1), Band(500, 10000, 0)}
  BY <1>1 DEF Metric
<1> HIDE DEF m
<1>10. m.score \in Nat /\ (v <= 25 => m.score = 2) /\ (v > 25 /\ v <= 500 => m.score = 1)
       /\ (v > 500 => m.score = 0)
  BY <1>7, <1>9 DEF Steps
<1>11. Fits(m)
  <2>1. ThreeBands(m, 0, 25, 500, 10000, 2, 1, 0)
    BY <1>7, <1>9, <1>10 DEF ThreeBands, NoMaximum
  <2>2. QED
    BY <2>1, ThreeRanges
<1>12. Whole => Full(m)
  <2>1. \A y \in m.ranges : y.score \in {0, 1, 2}
    BY <1>9 DEF Band
  <2>2. Whole => m.score = 2
    BY <1>7, <1>8, <1>10
  <2>3. QED
    BY <2>1, <2>2 DEF Full
<1>13. QED
  BY <1>11, <1>12 DEF m, Whole, S

\* The score of diversity.
LEMMA DiversityFits ==
  ASSUME FilPlusTypeOK, NEW a \in Allocators
  PROVE  Fits(ClientDiversity(a))
<1> DEFINE m == ClientDiversity(a)
           days == today - FirstAudit[a]
           known == FirstAudit[a] # Never /\ days # 0
           v == IF known THEN 100 * MonthDays * Cardinality(ClientsOf(a)) ELSE 0
           unit == IF known THEN days ELSE 1
           low == 40 * unit
           high == 60 * unit
<1>1. m = Metric("DIVERSITY", v, Steps(v > high, 2, v >= low, 1),
                 {Band(high, NoMaximum, 2), Band(low, high, 1), Band(0, low, 0)}, 2, 2)
  BY DEF ClientDiversity
<1>2. v \in Nat
  <2>1. Cardinality(ClientsOf(a)) \in Nat /\ MonthDays \in Nat
    BY ClientsAre, FS_CardinalityType, ScoringAssumption
  <2>2. QED
    BY <2>1
<1>3. unit \in Nat /\ unit >= 1
  <2>1. FirstAudit[a] \in {Never, 0} /\ today \in Nat
    BY ScoringAssumption, FilPlusAssumption DEF FilPlusTypeOK, Days
  <2>2. QED
    BY <2>1
<1> HIDE DEF unit, v
<1>4. low \in Nat /\ high \in Nat /\ low <= high
  BY <1>3
<1> HIDE DEF low, high
<1>5. /\ m.value = v /\ m.score = Steps(v > high, 2, v >= low, 1)
      /\ m.ranges = {Band(0, low, 0), Band(low, high, 1), Band(high, NoMaximum, 2)}
  BY <1>1 DEF Metric
<1> HIDE DEF m
<1>6. m.score \in Nat /\ (v > high => m.score = 2) /\ (v <= high /\ v >= low => m.score = 1)
      /\ (v <= high /\ v < low => m.score = 0)
  BY <1>2, <1>4, <1>5 DEF Steps
<1>7. ThreeBands(m, 0, low, high, NoMaximum, 0, 1, 2)
  BY <1>2, <1>4, <1>5, <1>6 DEF ThreeBands, NoMaximum
<1>8. QED
  BY <1>7, ThreeRanges DEF m

\* The score of clients that come back.
LEMMA PreviousFits ==
  ASSUME FilPlusTypeOK, NEW a
  PROVE  Fits(ClientPreviousApplications(a))
<1> DEFINE m == ClientPreviousApplications(a)
           returning == {c \in ClientsOf(a) : Cardinality(AllocationsTo(a, c)) > 1}
           n == IF ClientsOf(a) = {} THEN 1 ELSE Cardinality(ClientsOf(a))
           v == 100 * Cardinality(returning)
           low == 60 * n
           high == 75 * n
           all == 100 * n
<1>1. m = Metric("PREVIOUS_APPLICATIONS", v, Steps(v > high, 2, v >= low, 1),
                 {Band(high, all, 2), Band(low, high, 1), Band(0, low, 0)}, 1, 1)
  BY DEF ClientPreviousApplications
<1>2. n \in Nat /\ Cardinality(returning) \in Nat /\ Cardinality(returning) <= n
  <2>1. IsFiniteSet(ClientsOf(a))
    BY ClientsAre
  <2>2. IsFiniteSet(returning) /\ Cardinality(returning) <= Cardinality(ClientsOf(a))
    BY <2>1, FS_Subset
  <2>3. ClientsOf(a) = {} => Cardinality(ClientsOf(a)) = 0
    BY FS_EmptySet
  <2>4. Cardinality(ClientsOf(a)) \in Nat /\ Cardinality(returning) \in Nat
    BY <2>1, <2>2, FS_CardinalityType
  <2> HIDE DEF returning
  <2>5. QED
    BY <2>2, <2>3, <2>4
<1> HIDE DEF returning, n
<1>3. v \in Nat /\ low \in Nat /\ high \in Nat /\ all \in Nat /\ low <= high /\ high <= all /\ v <= all
  BY <1>2
<1> HIDE DEF v, low, high, all
<1>4. /\ m.value = v /\ m.score = Steps(v > high, 2, v >= low, 1)
      /\ m.ranges = {Band(0, low, 0), Band(low, high, 1), Band(high, all, 2)}
  BY <1>1 DEF Metric
<1> HIDE DEF m
<1>5. m.score \in Nat /\ (v > high => m.score = 2) /\ (v <= high /\ v >= low => m.score = 1)
      /\ (v <= high /\ v < low => m.score = 0)
  BY <1>3, <1>4 DEF Steps
<1>6. ThreeBands(m, 0, low, high, all, 0, 1, 2)
  BY <1>3, <1>4, <1>5 DEF ThreeBands, NoMaximum
<1>7. QED
  BY <1>6, ThreeRanges DEF m

\* The variance of the shares is a number.
LEMMA DeviationIs ==
  ASSUME FilPlusTypeOK, NEW a
  PROVE  SquaredDeviation(a) \in Int
<1> DEFINE S == ClientsOf(a)
           n == Cardinality(S)
           s == SharesColumn(a, S)
           q == SquaredSharesColumn(a, S)
           total == AllocatedTo(a, S)
<1>1. IsFiniteSet(S) /\ n \in Nat
  BY ClientsAre, FS_CardinalityType
<1>2. total \in Nat /\ \A c \in S : WeightedAllocations(a, c) \in Nat
  BY WeightedSums
<1>3. ASSUME NEW c \in S PROVE Share(a, c) \in Int
  <2> DEFINE t == 100 * (WeightedAllocations(a, c) * n)
  <2>1. Share(a, c) = IF total = 0 THEN 0 ELSE t \div total
    BY DEF Share, BigIntDiv
  <2>2. t \in Nat
    <3> HIDE DEF n
    <3> QED BY <1>1, <1>2
  <2> HIDE DEF t, total
  <2>3. total # 0 => t \div total \in Nat
    BY <1>2, <2>2, CutOff
  <2>4. QED
    BY <2>1, <2>3
<1>4. \A c \in S : s[c] \in Int /\ q[c] \in Int
  <2>1. \A c \in S : s[c] = Share(a, c) /\ q[c] = Share(a, c) * Share(a, c)
    BY DEF SharesColumn, SquaredSharesColumn
  <2>2. QED
    BY <1>3, <2>1
<1>5. Shares(a, S) = SumOver(S, s) /\ SquaredShares(a, S) = SumOver(S, q)
  BY SharesIs, SquaredSharesIs
<1>6. SquaredDeviation(a) = n * SquaredShares(a, S) - Shares(a, S) * Shares(a, S)
  BY DEF SquaredDeviation
<1> HIDE DEF S, n, s, q
<1>7. SumOver(S, s) \in Int /\ SumOver(S, q) \in Int
  BY <1>1, <1>4, SumType
<1> DEFINE x == Shares(a, S)
           y == SquaredShares(a, S)
<1>8. x \in Int /\ y \in Int
  BY <1>5, <1>7
<1>9. SquaredDeviation(a) = n * y - x * x
  BY <1>6
<1> HIDE DEF x, y
<1>10. QED
  BY <1>1, <1>8, <1>9

SevenBands(m, a, b, c, d, e, f) ==
  /\ m.value \in Int /\ {a, b, c, d, e, f} \subseteq Nat
  /\ a <= b /\ b <= c /\ c <= d /\ d <= e /\ e <= f
  /\ m.ranges = {Band(c, d, 3), Band(b, c, 2), Band(d, e, 2), Band(a, b, 1), Band(e, f, 1),
                 Band(0, a, 0), Band(f, NoMaximum, 0)}
  /\ m.score = IF c <= m.value /\ m.value <= d THEN 3
               ELSE IF (b <= m.value /\ m.value <= c) \/ (d <= m.value /\ m.value <= e) THEN 2
               ELSE IF (a <= m.value /\ m.value <= b) \/ (e <= m.value /\ m.value <= f) THEN 1 ELSE 0

\* Seven ranges around the middle.
LEMMA SevenRanges ==
  ASSUME NEW m, NEW a, NEW b, NEW c, NEW d, NEW e, NEW f, SevenBands(m, a, b, c, d, e, f)
  PROVE  Fits(m)
<1> DEFINE v == m.value
           score == m.score
           p1 == Band(c, d, 3)
           p2 == Band(b, c, 2)
           p3 == Band(d, e, 2)
           p4 == Band(a, b, 1)
           p5 == Band(e, f, 1)
           p6 == Band(0, a, 0)
           p7 == Band(f, NoMaximum, 0)
<1>1. /\ v \in Int /\ a \in Nat /\ b \in Nat /\ c \in Nat /\ d \in Nat /\ e \in Nat /\ f \in Nat
      /\ a <= b /\ b <= c /\ c <= d /\ d <= e /\ e <= f
      /\ m.ranges = {p1, p2, p3, p4, p5, p6, p7}
      /\ score = IF c <= v /\ v <= d THEN 3
               ELSE IF (b <= v /\ v <= c) \/ (d <= v /\ v <= e) THEN 2
               ELSE IF (a <= v /\ v <= b) \/ (e <= v /\ v <= f) THEN 1 ELSE 0
  BY DEF SevenBands
<1>2. /\ p1.from = c /\ p1.to = d /\ p1.score = 3
      /\ p2.from = b /\ p2.to = c /\ p2.score = 2
      /\ p3.from = d /\ p3.to = e /\ p3.score = 2
      /\ p4.from = a /\ p4.to = b /\ p4.score = 1
      /\ p5.from = e /\ p5.to = f /\ p5.score = 1
      /\ p6.from = 0 /\ p6.to = a /\ p6.score = 0
      /\ p7.from = f /\ p7.to = NoMaximum /\ p7.score = 0
  BY DEF Band
<1>3. m.ranges \subseteq Bands
  BY <1>1 DEF Band, Bands, NoMaximum
<1> HIDE DEF v, score, p1, p2, p3, p4, p5, p6, p7
<1>4. /\ InRange(v, p1) <=> c <= v /\ v <= d
      /\ InRange(v, p2) <=> b <= v /\ v <= c
      /\ InRange(v, p3) <=> d <= v /\ v <= e
      /\ InRange(v, p4) <=> a <= v /\ v <= b
      /\ InRange(v, p5) <=> e <= v /\ v <= f
      /\ InRange(v, p6) <=> 0 <= v /\ v <= a
      /\ InRange(v, p7) <=> f <= v
  BY <1>1, <1>2 DEF InRange, NoMaximum
<1>5. /\ InsideRange(v, p1) <=> c < v /\ v < d
      /\ InsideRange(v, p2) <=> b < v /\ v < c
      /\ InsideRange(v, p3) <=> d < v /\ v < e
      /\ InsideRange(v, p4) <=> a < v /\ v < b
      /\ InsideRange(v, p5) <=> e < v /\ v < f
      /\ InsideRange(v, p6) <=> 0 < v /\ v < a
      /\ InsideRange(v, p7) <=> f < v
  BY <1>1, <1>2 DEF InsideRange, NoMaximum
<1>6. score \in Nat
  BY <1>1
<1>7. score = 0 \/ \E y \in m.ranges : InRange(v, y)
  BY <1>1, <1>4
<1>8. ASSUME NEW y \in m.ranges, InRange(v, y)
      PROVE  \E z \in m.ranges : InRange(v, z) /\ z.score = score
  BY <1>1, <1>2, <1>4, <1>8
<1>9. ASSUME NEW y \in m.ranges, InsideRange(v, y)
      PROVE  y.score = score
  BY <1>1, <1>2, <1>5, <1>9
<1>10. ASSUME NEW y \in m.ranges, InsideRange(v, y), NEW z \in m.ranges, InsideRange(v, z)
       PROVE  z = y
  BY <1>1, <1>5, <1>10
<1>11. QED
  BY <1>3, <1>6, <1>7, <1>8, <1>9, <1>10 DEF Fits, v, score

\* The score of equality.
LEMMA EqualityFits ==
  ASSUME FilPlusTypeOK, NEW a
  PROVE  Fits(EqualityOfDatacapDistribution(a))
<1> DEFINE m == EqualityOfDatacapDistribution(a)
           n == IF ClientsOf(a) = {} THEN 1 ELSE Cardinality(ClientsOf(a))
           v == SquaredDeviation(a)
           At(h) == h * h * n * n
           b1 == At(50)
           b2 == At(70)
           b3 == At(90)
           b4 == At(110)
           b5 == At(130)
           b6 == At(150)
<1>1. m = Metric("EQUALITY", v, IF b3 <= v /\ v <= b4 THEN 3
                  ELSE IF (b2 <= v /\ v <= b3) \/ (b4 <= v /\ v <= b5) THEN 2
                  ELSE IF (b1 <= v /\ v <= b2) \/ (b5 <= v /\ v <= b6) THEN 1 ELSE 0,
               {Band(b3, b4, 3), Band(b2, b3, 2), Band(b4, b5, 2), Band(b1, b2, 1), Band(b5, b6, 1),
                Band(0, b1, 0), Band(b6, NoMaximum, 0)}, 2, 2)
  BY Zenon DEF EqualityOfDatacapDistribution
<1>2. n \in Nat
  BY ClientsAre, FS_CardinalityType
<1>3. v \in Int
  BY DeviationIs
<1> HIDE DEF n, v
<1>4. /\ {b1, b2, b3, b4, b5, b6} \subseteq Nat
      /\ b1 <= b2 /\ b2 <= b3 /\ b3 <= b4 /\ b4 <= b5 /\ b5 <= b6
  <2> DEFINE t == n * n
  <2>1. /\ b1 = 2500 * t /\ b2 = 4900 * t /\ b3 = 8100 * t
        /\ b4 = 12100 * t /\ b5 = 16900 * t /\ b6 = 22500 * t
    BY <1>2
  <2>2. t \in Nat
    BY <1>2
  <2> HIDE DEF t, b1, b2, b3, b4, b5, b6
  <2>3. QED
    BY <2>1, <2>2
<1> HIDE DEF b1, b2, b3, b4, b5, b6
<1>5. /\ m.value = v
      /\ m.score = IF b3 <= v /\ v <= b4 THEN 3
                   ELSE IF (b2 <= v /\ v <= b3) \/ (b4 <= v /\ v <= b5) THEN 2
                   ELSE IF (b1 <= v /\ v <= b2) \/ (b5 <= v /\ v <= b6) THEN 1 ELSE 0
      /\ m.ranges = {Band(b3, b4, 3), Band(b2, b3, 2), Band(b4, b5, 2), Band(b1, b2, 1), Band(b5, b6, 1),
                     Band(0, b1, 0), Band(b6, NoMaximum, 0)}
  BY <1>1 DEF Metric
<1> HIDE DEF m
<1>6. SevenBands(m, b1, b2, b3, b4, b5, b6)
  BY <1>3, <1>4, <1>5 DEF SevenBands
<1>7. QED
  BY <1>6, SevenRanges DEF m

\* The weight keeps a full score full.
LEMMA StoredFull ==
  ASSUME NEW m, Fits(m), Full(m), NEW w \in Nat
  PROVE  Full(StoreScore(m, w))
<1> DEFINE x == StoreScore(m, w)
           Times(y) == [y EXCEPT !.score = @ * w]
<1>1. x.ranges = {Times(y) : y \in m.ranges} /\ x.score = m.score * w
  BY DEF StoreScore
<1>2. \A y \in m.ranges : y \in Bands /\ y.score \in Nat /\ m.score >= y.score
  BY DEF Fits, Full, Bands
<1>3. \A y \in m.ranges : Times(y).score = y.score * w
  BY <1>2 DEF Bands
<1> HIDE DEF x, Times
<1>4. ASSUME NEW y \in m.ranges PROVE x.score >= Times(y).score
  <2> DEFINE s == m.score
             t == y.score
  <2>1. s \in Nat /\ t \in Nat /\ t <= s /\ x.score = s * w /\ Times(y).score = t * w
    BY <1>1, <1>2, <1>3 DEF Fits
  <2> HIDE DEF s, t
  <2>2. w * t <= w * s /\ w * t = t * w /\ w * s = s * w
    BY <2>1, TimesOrdered
  <2>3. t * w \in Int /\ s * w \in Int
    BY <2>1
  <2>4. QED
    BY <2>1, <2>2, <2>3
<1>5. QED
  BY <1>1, <1>4 DEF Full, x

\* What a check that passed says.
LEMMA PassedSaysMore ==
  ASSUME NEW r, NEW env, NEW x \in StoreReportChecks(r, env), x.result
  PROVE  /\ x.check = "CID_SHARING" => NoCidSharing(r)
         /\ x.check = "EXCEED_MAX_DUPLICATION" => ExceedingMaxDuplication(r, env["maxDuplication"])
         /\ x.check = "IPNI_MISREPORTING" => IpniMisreporting(r)
         /\ x.check = "IPNI_NOT_REPORTING" => IpniNotReporting(r)
BY SMT DEF StoreReportChecks, StoreStorageProviderDistributionChecks, StoreDealDataReplicationChecks, Always, Check

\* A check that a client's report passed says of the report what its name says.
LEMMA NamesPassed ==
  ASSUME NEW c, NEW env
  PROVE  /\ "CID_SHARING" \in Passed(c, env) => NoCidSharing(ClientReport(c))
         /\ "EXCEED_MAX_DUPLICATION" \in Passed(c, env) =>
              ExceedingMaxDuplication(ClientReport(c), env["maxDuplication"])
         /\ "IPNI_MISREPORTING" \in Passed(c, env) => IpniMisreporting(ClientReport(c))
         /\ "IPNI_NOT_REPORTING" \in Passed(c, env) => IpniNotReporting(ClientReport(c))
<1> DEFINE r == ClientReport(c)
           PassedAs(name) == \E x \in StoreReportChecks(r, env) : x.result /\ x.check = name
<1>1. \A name : name \in Passed(c, env) => PassedAs(name)
  BY Names
<1> HIDE DEF r
<1>2. PassedAs("CID_SHARING") => NoCidSharing(r)
  BY PassedSaysMore
<1>3. PassedAs("EXCEED_MAX_DUPLICATION") => ExceedingMaxDuplication(r, env["maxDuplication"])
  BY PassedSaysMore
<1>4. PassedAs("IPNI_MISREPORTING") => IpniMisreporting(r)
  BY PassedSaysMore
<1>5. PassedAs("IPNI_NOT_REPORTING") => IpniNotReporting(r)
  BY PassedSaysMore
<1> HIDE DEF PassedAs
<1>6. QED
  BY <1>1, <1>2, <1>3, <1>4, <1>5 DEF r

\* Where all clients pass the checks, the score is full.
LEMMA PassedIsFull ==
  ASSUME FilPlusTypeOK, NEW a, NEW env
  PROVE  /\ (\A c \in ClientsOf(a) : {"CID_SHARING"} \subseteq Passed(c, env)) => Full(CidSharingScore(a))
         /\ env["maxDuplication"] = 0
              /\ (\A c \in ClientsOf(a) : {"EXCEED_MAX_DUPLICATION"} \subseteq Passed(c, env))
              => Full(DuplicatedData(a))
         /\ Rows(a) # {}
              /\ (\A c \in ClientsOf(a) : {"IPNI_MISREPORTING", "IPNI_NOT_REPORTING"} \subseteq Passed(c, env))
              => Full(IpniReporting(a))
<1>1. ASSUME \A c \in ClientsOf(a) : {"CID_SHARING"} \subseteq Passed(c, env)
      PROVE  Full(CidSharingScore(a))
  <2>1. \A c \in ClientsOf(a) : NoCidSharing(ClientReport(c))
    BY <1>1, NamesPassed
  <2>2. \A c \in ClientsOf(a) : DOMAIN CidSharing(c) = {}
    BY <2>1, ReportIs DEF NoCidSharing
  <2>3. QED
    BY <2>2, CidSharingFits
<1>2. ASSUME env["maxDuplication"] = 0,
             \A c \in ClientsOf(a) : {"EXCEED_MAX_DUPLICATION"} \subseteq Passed(c, env)
      PROVE  Full(DuplicatedData(a))
  <2>1. \A c \in ClientsOf(a) : ExceedingMaxDuplication(ClientReport(c), 0)
    BY <1>2, NamesPassed
  <2>2. ASSUME NEW row \in Rows(a)
        PROVE  ~(BigIntDiv(100 * (DealSize(row) - UniqueSize(row)), DealSize(row)) > 0)
    <3> DEFINE c == row[1]
               p == row[2]
               rows == ClientProviderDistribution(c)
    <3>1. c \in ClientsOf(a) /\ p \in ProvidersOf(c) /\ DealSize(row) \in Nat /\ DealSize(row) >= 1
      BY RowsAre
    <3>2. DealSize(row) = rows[p].total /\ UniqueSize(row) = rows[p].unique
      BY DEF DealSize, UniqueSize
    <3>3. ClientReport(c).distribution = rows /\ DOMAIN rows = ProvidersOf(c)
      BY ReportIs, DistributionIs
    <3>4. ExceedingMaxDuplication(ClientReport(c), 0)
      BY <2>1, <3>1
    <3> HIDE DEF c, p, rows
    <3>5. \A q \in ProvidersOf(c) :
            ~(rows[q].total # 0 /\ BigIntDiv(100 * (rows[q].total - rows[q].unique), rows[q].total) > 100 * 0)
      BY <3>3, <3>4 DEF ExceedingMaxDuplication, NoneOf, Used
    <3>6. 100 * 0 = 0 /\ rows[p].total # 0
      BY <3>1, <3>2
    <3>7. QED
      BY <3>1, <3>2, <3>5, <3>6
  <2>3. QED
    BY <2>2, DuplicatedFits
<1>3. ASSUME Rows(a) # {},
             \A c \in ClientsOf(a) : {"IPNI_MISREPORTING", "IPNI_NOT_REPORTING"} \subseteq Passed(c, env)
      PROVE  Full(IpniReporting(a))
  <2>1. \A c \in ClientsOf(a) : IpniMisreporting(ClientReport(c)) /\ IpniNotReporting(ClientReport(c))
    BY <1>3, NamesPassed
  <2>2. ASSUME NEW row \in Rows(a) PROVE ProviderReportingStatus(row[2]) = "OK"
    <3> DEFINE c == row[1]
               p == row[2]
    <3>1. c \in ClientsOf(a) /\ p \in ProvidersOf(c)
      BY RowsAre
    <3>2. Used(ClientReport(c)) = ProvidersOf(c)
      BY ReportIs, DistributionIs DEF Used
    <3>3. ProviderReportingStatus(p) # "MISREPORTING" /\ ProviderReportingStatus(p) # "NOT_REPORTING"
      BY <2>1, <3>1, <3>2 DEF IpniMisreporting, IpniNotReporting, NoneOf
    <3>4. ProviderReportingStatus(p) \in {"OK", "MISREPORTING", "NOT_REPORTING"}
      BY DEF ProviderReportingStatus, ReportingStatus
    <3>5. QED
      BY <3>3, <3>4
  <2>3. QED
    BY <1>3, <2>2, IpniFits
<1>4. QED
  BY <1>1, <1>2, <1>3

\* A score that is stored.
LEMMA StoredScore ==
  ASSUME FilPlusTypeOK, NEW a \in Allocators, NEW x \in StoreScoring(a)
  PROVE  \E m \in Metrics(a), w \in Nat : Fits(m) /\ x = StoreScore(m, w) /\ x.name = m.name
<1>1. PICK m \in Metrics(a) : x = StoreScore(m, WeightOf(m, DataType[a]))
  BY DEF StoreScoring
<1>2. Fits(m)
  BY <1>1, IpniFits, UrlFinderFits, CidSharingFits, DuplicatedFits, UniqueDataSetSizeFits, EqualityFits,
     DiversityFits, PreviousFits DEF Metrics
<1>3. m.open \in Nat /\ m.enterprise \in Nat
  BY <1>1 DEF Metrics, IpniReporting, UrlFinderRetrievability, CidSharingScore, DuplicatedData,
     UniqueDataSetSizeScore, EqualityOfDatacapDistribution, ClientDiversity, ClientPreviousApplications, Metric
<1>4. WeightOf(m, DataType[a]) \in Nat
  BY <1>3 DEF WeightOf
<1>5. x.name = m.name
  BY <1>1 DEF StoreScore
<1>6. QED
  BY <1>1, <1>2, <1>4, <1>5

\* Metrics by their names.
LEMMA MetricNames ==
  ASSUME NEW a, NEW m \in Metrics(a)
  PROVE  /\ m.name = "CID_SHARING" => m = CidSharingScore(a)
         /\ m.name = "DUPLICATED_DATA" => m = DuplicatedData(a)
         /\ m.name = "IPNI_REPORTING" => m = IpniReporting(a)
<1>1. /\ IpniReporting(a).name = "IPNI_REPORTING" /\ UrlFinderRetrievability(a).name = "URL_FINDER"
      /\ CidSharingScore(a).name = "CID_SHARING" /\ DuplicatedData(a).name = "DUPLICATED_DATA"
      /\ UniqueDataSetSizeScore(a).name = "UNIQUE_DATA_SET_SIZE"
      /\ EqualityOfDatacapDistribution(a).name = "EQUALITY"
      /\ ClientDiversity(a).name = "DIVERSITY" /\ ClientPreviousApplications(a).name = "PREVIOUS_APPLICATIONS"
  BY DEF IpniReporting, UrlFinderRetrievability, CidSharingScore, DuplicatedData,
     UniqueDataSetSizeScore, EqualityOfDatacapDistribution, ClientDiversity, ClientPreviousApplications, Metric
<1>2. QED
  BY <1>1 DEF Metrics

\* Every metric that an allocator's scoring stores fits the ranges stored with it.
LEMMA ScoresMatch ==
  ASSUME FilPlusTypeOK
  PROVE  ScoresMatchRanges
<1>1. ASSUME NEW a \in Allocators, NEW x \in StoreScoring(a), NEW env \in Environments
      PROVE  /\ ScoreOfRange(x)
             /\ x.name = "CID_SHARING" /\ (\A c \in ClientsOf(a) : {"CID_SHARING"} \subseteq Passed(c, env)) => Full(x)
             /\ env["maxDuplication"] = 0
                  /\ x.name = "DUPLICATED_DATA"
                  /\ (\A c \in ClientsOf(a) : {"EXCEED_MAX_DUPLICATION"} \subseteq Passed(c, env)) => Full(x)
             /\ Rows(a) # {}
                  /\ x.name = "IPNI_REPORTING"
                  /\ (\A c \in ClientsOf(a) : {"IPNI_MISREPORTING", "IPNI_NOT_REPORTING"} \subseteq Passed(c, env))
                  => Full(x)
  <2>1. PICK m \in Metrics(a), w \in Nat : Fits(m) /\ x = StoreScore(m, w) /\ x.name = m.name
    BY StoredScore
  <2>2. ScoreOfRange(x)
    BY <2>1, StoredFits
  <2>3. Full(m) => Full(x)
    BY <2>1, StoredFull
  <2>4. QED
    BY <2>1, <2>2, <2>3, MetricNames, PassedIsFull
<1>2. 2 * Cardinality({a \in Allocators : UrlFinderRetrievability(a).score = 3}) <= Cardinality(Allocators)
  BY HalfAbove
<1>3. QED
  BY <1>1, <1>2, Zenon DEF ScoresMatchRanges

\* The score of an allocator is that of the ranges stored with it, it agrees with the checks
\* of its clients, and at most half of the allocators are above the median.
THEOREM ScoresAlwaysMatchRanges == FilPlusSpec => []ScoresMatchRanges
<1>1. FilPlusInv => ScoresMatchRanges
  BY ScoresMatch DEF FilPlusInv
<1>2. QED
  BY <1>1, FilPlusInvariance, PTL

-----------------------------------------------------------------------------
(* The sums of the statistics are sums of functions *)

TotalOfColumn(S) == [x \in S |-> x.total]

\* The totals of some records.
LEMMA TotalOfIs ==
  ASSUME NEW S
  PROVE  TotalOf(S) = SumOver(S, TotalOfColumn(S))
BY SumOfIs DEF TotalOf, TotalOfColumn

CountOfColumn(S) == [b \in S |-> b.count]

\* The counts of some buckets.
LEMMA CountOfIs ==
  ASSUME NEW S
  PROVE  CountOf(S) = SumOver(S, CountOfColumn(S))
BY SumOfIs DEF CountOf, CountOfColumn

DatacapInColumn(S) == [b \in S |-> b.datacap]

\* Their datacap.
LEMMA DatacapInIs ==
  ASSUME NEW S
  PROVE  DatacapIn(S) = SumOver(S, DatacapInColumn(S))
BY SumOfIs DEF DatacapIn, DatacapInColumn

SpsOfColumn(S) == [row \in S |-> row.totalSps]

\* The providers of some allocators.
LEMMA SpsOfIs ==
  ASSUME NEW S
  PROVE  SpsOf(S) = SumOver(S, SpsOfColumn(S))
BY SumOfIs DEF SpsOf, SpsOfColumn

DatacapOfColumn(S) == [row \in S |-> row.totalDatacap]

\* The datacap of some allocators.
LEMMA DatacapOfIs ==
  ASSUME NEW S
  PROVE  DatacapOf(S) = SumOver(S, DatacapOfColumn(S))
BY SumOfIs DEF DatacapOf, DatacapOfColumn

AmountOfColumn(a, S) == [row \in S |-> Amount(a, row)]

\* The amounts of some rows.
LEMMA AmountOfIs ==
  ASSUME NEW a, NEW S
  PROVE  AmountOf(a, S) = SumOver(S, AmountOfColumn(a, S))
BY SumOfIs DEF AmountOf, AmountOfColumn

-----------------------------------------------------------------------------
(* What the statistics need of the chain *)

\* Nothing is of a later day, and who claims a piece was allocated datacap by then.
Backed(k) == \E x \in allocations : x.client = k.client /\ x.day <= k.day
StatisticsInv ==
  /\ FilPlusInv
  /\ \A x \in allocations : x.day <= today
  /\ \A k \in claims : k.day <= today /\ Backed(k)

\* Datacap that is available was allocated.
LEMMA AvailableIsAllocated ==
  ASSUME FilPlusInv, NEW c \in Clients, NEW n \in Nat \ {0}, AvailableDatacap(c) >= n
  PROVE  \E x \in allocations : x.client = c
<1>1. ReceivedBy(c) # {}
  <2>1. SUFFICES ASSUME ReceivedBy(c) = {} PROVE FALSE
    OBVIOUS
  <2>2. Received(ReceivedBy(c)) = 0
    <3>1. Cardinality(ReceivedBy(c)) = 0
      BY <2>1, FS_EmptySet
    <3>2. QED
      BY <3>1, FilPlusAssumption DEF Received
  <2>3. Total(ClaimsOf(c)) \in Nat
    BY ClientFacts DEF FilPlusInv
  <2>4. QED
    BY <2>2, <2>3 DEF AvailableDatacap
<1>2. QED
  BY <1>1 DEF ReceivedBy

\* Days only get later, and nothing is taken back.
LEMMA StatisticsInvariance == FilPlusSpec => []StatisticsInv
<1>1. FilPlusInit => StatisticsInv
  BY FilPlusInitially DEF FilPlusInit, StatisticsInv
<1>2. ASSUME StatisticsInv, [FilPlusNext]_filPlusVars, FilPlusInv'
      PROVE  StatisticsInv'
  <2> USE <1>2
  <2>1. today \in Int /\ today \in Days
    BY DEF StatisticsInv, FilPlusInv, FilPlusTypeOK, Days
  <2>2. ASSUME NEW a \in Allocators, NEW c \in Clients, Allocate(a, c)
        PROVE  StatisticsInv'
    <3> DEFINE new == [allocator |-> a, client |-> c, day |-> today]
    <3>1. allocations' = allocations \cup {new} /\ today' = today /\ claims' = claims
      BY <2>2 DEF Allocate
    <3>2. \A x \in allocations' : x.day <= today'
      <4>1. \A x \in allocations : x.day <= today
        BY DEF StatisticsInv
      <4>2. new.day = today
        OBVIOUS
      <4>3. QED
        BY <3>1, <4>1, <4>2, <2>1
    <3>3. \A k \in claims' : k.day <= today' /\ Backed(k)'
      <4>1. \A k \in claims : k.day <= today /\ Backed(k)
        BY DEF StatisticsInv
      <4>2. QED
        BY <3>1, <4>1 DEF Backed
    <3>4. QED
      BY <3>2, <3>3 DEF StatisticsInv
  <2>3. ASSUME NEW c \in Clients, NEW p \in Providers, NEW piece \in Pieces, ClaimPiece(c, p, piece)
        PROVE  StatisticsInv'
    <3> DEFINE new == [client |-> c, provider |-> p, piece |-> piece, day |-> today]
    <3>1. /\ claims' = claims \cup {new} /\ today' = today /\ allocations' = allocations
          /\ AvailableDatacap(c) >= Size[piece]
      BY <2>3 DEF ClaimPiece
    <3>2. \A x \in allocations : x.day <= today
      BY DEF StatisticsInv
    <3>3. PICK x \in allocations : x.client = c
      <4>1. Size[piece] \in Nat \ {0}
        BY FilPlusAssumption
      <4>2. QED
        BY <3>1, <4>1, AvailableIsAllocated DEF StatisticsInv
    <3>4. new.day = today /\ new.client = c /\ new.day <= today
      BY <2>1
    <3>5. Backed(new)'
      BY <3>1, <3>2, <3>3, <3>4 DEF Backed
    <3>6. \A k \in claims : k.day <= today /\ Backed(k)
      BY DEF StatisticsInv
    <3>7. \A k \in claims : Backed(k)'
      BY <3>6, <3>1 DEF Backed
    <3>8. QED
      BY <3>1, <3>2, <3>4, <3>5, <3>6, <3>7 DEF StatisticsInv
  <2>4. ASSUME NextDay
        PROVE  StatisticsInv'
    <3>1. allocations' = allocations /\ claims' = claims /\ today' = today + 1
      BY <2>4 DEF NextDay
    <3>2. /\ \A x \in allocations : x.day <= today /\ x.day \in Int
          /\ \A k \in claims : k.day <= today /\ Backed(k) /\ k.day \in Int
      BY DEF StatisticsInv, FilPlusInv, FilPlusTypeOK, Allocation, Claim, Days
    <3>3. \A k \in claims : Backed(k)'
      BY <3>1, <3>2 DEF Backed
    <3>4. QED
      BY <3>1, <3>2, <3>3, <2>1 DEF StatisticsInv
  <2>5. ASSUME UNCHANGED filPlusVars
        PROVE  StatisticsInv'
    <3>1. allocations' = allocations /\ claims' = claims /\ today' = today
      BY <2>5 DEF filPlusVars
    <3>2. \A k \in claims : Backed(k)'
      BY <3>1 DEF Backed, StatisticsInv
    <3>3. QED
      BY <3>1, <3>2 DEF StatisticsInv
  <2>6. QED
    BY <2>2, <2>3, <2>4, <2>5 DEF FilPlusNext
<1>3. QED
  BY <1>1, <1>2, FilPlusInvariance, PTL DEF FilPlusSpec

-----------------------------------------------------------------------------
(* Sums over records *)

\* A single term.
LEMMA SumSingle ==
  ASSUME NEW x, NEW f, f[x] \in Int
  PROVE  SumOver({x}, f) = f[x]
<1>1. SumOver({x}, f) = f[x] + SumOver({x} \ {x}, f)
  BY FS_Singleton, SumRemove
<1>2. QED
  BY <1>1, SumEmpty

Image(K, rec) == {rec[c] : c \in K}

\* The sum over records, one for each key, is that over the keys.
LEMMA SumImage ==
  ASSUME NEW K, IsFiniteSet(K), NEW rec, \A c, d \in K : rec[c] = rec[d] => c = d,
         NEW g, NEW f, \A c \in K : f[c] \in Int /\ g[rec[c]] = f[c]
  PROVE  /\ IsFiniteSet(Image(K, rec)) /\ Cardinality(Image(K, rec)) = Cardinality(K)
         /\ SumOver(Image(K, rec), g) = SumOver(K, f)
<1> DEFINE I == Image(K, rec)
<1>1. IsFiniteSet(I)
  BY ImageSize DEF Image
<1>2. SumOver(OfKeys(K, rec, I), f) = SumOver(I, FibreSums(K, rec, f, I))
  BY <1>1, SumByKey, Zenon
<1>3. OfKeys(K, rec, I) = K
  BY DEF OfKeys, Image
<1>4. \A y \in I : FibreSums(K, rec, f, I)[y] \in Int /\ FibreSums(K, rec, f, I)[y] = g[y]
  <2> SUFFICES ASSUME NEW y \in I PROVE FibreSums(K, rec, f, I)[y] \in Int /\ FibreSums(K, rec, f, I)[y] = g[y]
    OBVIOUS
  <2>1. PICK c \in K : y = rec[c]
    BY DEF Image
  <2>2. Fibre(K, rec, y) = {c}
    BY <2>1 DEF Fibre
  <2>3. SumOver({c}, f) = f[c]
    BY SumSingle
  <2>4. FibreSums(K, rec, f, I)[y] = SumOver(Fibre(K, rec, y), f)
    BY DEF FibreSums
  <2>5. QED
    BY <2>1, <2>2, <2>3, <2>4
<1>5. SumOver(I, FibreSums(K, rec, f, I)) = SumOver(I, g)
  BY <1>1, <1>4, SumEqual
<1>6. Cardinality(I) = Cardinality(K)
  <2> DEFINE h == [c \in K |-> rec[c]]
  <2>1. h \in Bijection(K, I)
    BY DEF Bijection, Injection, Surjection, IsInjective, Image
  <2>2. QED
    BY <2>1, FS_Bijection, Zenon DEF ExistsBijection
<1>7. QED
  BY <1>1, <1>2, <1>3, <1>5, <1>6, Zenon

\* So it is of totals.
LEMMA TotalOfRecords ==
  ASSUME NEW K, IsFiniteSet(K), NEW rec, \A c, d \in K : rec[c] = rec[d] => c = d,
         NEW f, \A c \in K : f[c] \in Int /\ rec[c].total = f[c]
  PROVE  /\ IsFiniteSet(Image(K, rec)) /\ Cardinality(Image(K, rec)) = Cardinality(K)
         /\ TotalOf(Image(K, rec)) = SumOver(K, f)
<1> DEFINE I == Image(K, rec)
           g == TotalOfColumn(I)
<1>1. \A c \in K : g[rec[c]] = f[c]
  BY DEF TotalOfColumn, Image
<1>2. TotalOf(I) = SumOver(I, g)
  BY TotalOfIs
<1> HIDE DEF g
<1>3. QED
  BY <1>1, <1>2, SumImage

\* Finitely many numbers have a greatest.
LEMMA MaxOfFinite ==
  ASSUME NEW T \in SUBSET Nat, IsFiniteSet(T), T # {}
  PROVE  Max(T) \in T /\ \A y \in T : y <= Max(T)
<1> DEFINE id == [y \in T |-> y]
<1>1. \A y \in T : id[y] \in Nat /\ id[y] \in Int /\ id[y] = y
  OBVIOUS
<1> HIDE DEF id
<1>2. SumOver(T, id) \in Int
  BY <1>1, SumType
<1>3. \A y \in T : 0 <= y /\ y <= SumOver(T, id)
  <2> SUFFICES ASSUME NEW y \in T PROVE 0 <= y /\ y <= SumOver(T, id)
    OBVIOUS
  <2>1. SumOver({y}, id) = y
    BY <1>1, SumSingle
  <2>2. {y} \subseteq T
    OBVIOUS
  <2>3. SumOver({y}, id) <= SumOver(T, id)
    BY <1>1, <2>2, SumPart, Zenon
  <2>4. QED
    BY <1>2, <2>1, <2>3
<1>4. SumOver(T, id) \in Nat
  <2>1. PICK y \in T : TRUE
    OBVIOUS
  <2>2. y \in Int /\ 0 <= y /\ y <= SumOver(T, id)
    BY <1>3
  <2>3. QED
    BY <1>2, <2>2
<1>5. QED
  BY <1>3, <1>4, MaxIs

-----------------------------------------------------------------------------
(* The rows of an allocator *)

AllocationsOf(a) == {x \in allocations : x.allocator = a}
RowOf == [x \in allocations |-> <<x.client, Week(x.day)>>]

\* An allocation is on some day.
LEMMA AllocationsAre ==
  ASSUME FilPlusTypeOK, NEW S \in SUBSET allocations
  PROVE  /\ IsFiniteSet(S) /\ Cardinality(S) \in Nat
         /\ Received(S) = Allowance * Cardinality(S) /\ Received(S) \in Nat
         /\ \A x \in S : /\ x.allocator \in Allocators /\ x.client \in Clients /\ x.day \in Nat
                         /\ x.day \in Int /\ Week(x.day) \in Nat
<1>1. IsFiniteSet(S)
  BY FS_Subset DEF FilPlusTypeOK
<1>2. Cardinality(S) \in Nat
  BY <1>1, FS_CardinalityType
<1>3. Received(S) = Allowance * Cardinality(S) /\ Received(S) \in Nat
  BY <1>2, FilPlusAssumption DEF Received
<1>4. \A x \in S : x.allocator \in Allocators /\ x.client \in Clients /\ x.day \in Nat
  BY DEF FilPlusTypeOK, Allocation, Days
<1>5. \A x \in S : Week(x.day) \in Nat
  BY <1>4, FilPlusAssumption, CutOff DEF Week
<1>6. QED
  BY <1>1, <1>2, <1>3, <1>4, <1>5

\* What is received is a sum over the allocations.
LEMMA ReceivedIs ==
  ASSUME FilPlusTypeOK, NEW S \in SUBSET allocations, NEW f, \A x \in S : f[x] = Allowance
  PROVE  Received(S) = SumOver(S, f)
<1>1. Allowance \in Int
  BY FilPlusAssumption
<1>2. QED
  BY <1>1, AllocationsAre, SumConstant

\* The rows of an allocator are those of its allocations.
LEMMA WeeklyRowsAre ==
  ASSUME FilPlusTypeOK, NEW a
  PROVE  /\ WeeklyRows(a) = {RowOf[x] : x \in AllocationsOf(a)}
         /\ IsFiniteSet(WeeklyRows(a))
         /\ \A row \in WeeklyRows(a) :
              /\ row = <<row[1], row[2]>> /\ row[1] \in Clients /\ row[2] \in Nat
              /\ Amount(a, row) = Received(Fibre(AllocationsOf(a), RowOf, row))
<1>1. WeeklyRows(a) = {RowOf[x] : x \in AllocationsOf(a)}
  BY DEF WeeklyRows, AllocationsOf, RowOf
<1>2. AllocationsOf(a) \in SUBSET allocations /\ IsFiniteSet(AllocationsOf(a))
  BY AllocationsAre DEF AllocationsOf
<1>3. IsFiniteSet(WeeklyRows(a))
  BY <1>1, <1>2, ImageSize
<1>4. ASSUME NEW row \in WeeklyRows(a)
      PROVE  /\ row = <<row[1], row[2]>> /\ row[1] \in Clients /\ row[2] \in Nat
             /\ Amount(a, row) = Received(Fibre(AllocationsOf(a), RowOf, row))
  <2>1. PICK x \in AllocationsOf(a) : row = <<x.client, Week(x.day)>>
    BY <1>4 DEF WeeklyRows, AllocationsOf
  <2>2. row = <<row[1], row[2]>> /\ row[1] \in Clients /\ row[2] \in Nat
    BY <1>2, <2>1, AllocationsAre
  <2>3. \A y \in allocations : RowOf[y] = <<y.client, Week(y.day)>>
    BY DEF RowOf
  <2>4. \A y \in allocations : RowOf[y] = row <=> y.client = row[1] /\ Week(y.day) = row[2]
    BY <2>2, <2>3
  <2>5. {y \in AllocationsTo(a, row[1]) : Week(y.day) = row[2]} = Fibre(AllocationsOf(a), RowOf, row)
    BY <2>4, Zenon DEF AllocationsTo, AllocationsOf, Fibre
  <2>6. QED
    BY <2>2, <2>5 DEF Amount
<1>5. QED
  BY <1>1, <1>3, <1>4

\* The amount of some rows is that of their allocations.
LEMMA AmountsAre ==
  ASSUME FilPlusTypeOK, NEW a, NEW R \in SUBSET WeeklyRows(a)
  PROVE  /\ IsFiniteSet(R)
         /\ \A row \in R : Amount(a, row) \in Nat
         /\ AmountOf(a, R) = Received(OfKeys(AllocationsOf(a), RowOf, R))
         /\ AmountOf(a, R) \in Nat
<1> DEFINE S == AllocationsOf(a)
           f == [x \in S |-> Allowance]
<1>1. IsFiniteSet(R)
  BY WeeklyRowsAre, FS_Subset
<1>2. S \in SUBSET allocations /\ IsFiniteSet(S)
  BY AllocationsAre DEF AllocationsOf
<1>3. \A x \in S : f[x] = Allowance /\ f[x] \in Int
  BY FilPlusAssumption
<1> HIDE DEF f
<1>4. \A K : /\ OfKeys(S, RowOf, K) \in SUBSET S /\ Fibre(S, RowOf, K) \in SUBSET S
             /\ OfKeys(S, RowOf, K) \in SUBSET allocations /\ Fibre(S, RowOf, K) \in SUBSET allocations
  BY <1>2 DEF OfKeys, Fibre
<1>5. SumOver(OfKeys(S, RowOf, R), f) = SumOver(R, FibreSums(S, RowOf, f, R))
  BY <1>1, <1>2, <1>3, SumByKey
<1>6. Received(OfKeys(S, RowOf, R)) = SumOver(OfKeys(S, RowOf, R), f)
  BY <1>3, <1>4, ReceivedIs
<1>7. \A row \in R : /\ Amount(a, row) \in Nat /\ FibreSums(S, RowOf, f, R)[row] = Amount(a, row)
                     /\ AmountOfColumn(a, R)[row] = Amount(a, row)
  <2> SUFFICES ASSUME NEW row \in R
               PROVE  /\ Amount(a, row) \in Nat /\ FibreSums(S, RowOf, f, R)[row] = Amount(a, row)
                      /\ AmountOfColumn(a, R)[row] = Amount(a, row)
    OBVIOUS
  <2>1. Amount(a, row) = Received(Fibre(S, RowOf, row))
    BY WeeklyRowsAre
  <2>2. Received(Fibre(S, RowOf, row)) = SumOver(Fibre(S, RowOf, row), f)
    BY <1>3, <1>4, ReceivedIs DEF Fibre
  <2>3. Received(Fibre(S, RowOf, row)) \in Nat
    BY <1>4, AllocationsAre
  <2>4. FibreSums(S, RowOf, f, R)[row] = SumOver(Fibre(S, RowOf, row), f)
    BY DEF FibreSums
  <2>5. AmountOfColumn(a, R)[row] = Amount(a, row)
    BY DEF AmountOfColumn
  <2>6. QED
    BY <2>1, <2>2, <2>3, <2>4, <2>5
<1>8. SumOver(R, FibreSums(S, RowOf, f, R)) = SumOver(R, AmountOfColumn(a, R))
  <2>1. \A row \in R : FibreSums(S, RowOf, f, R)[row] \in Int /\ FibreSums(S, RowOf, f, R)[row] = AmountOfColumn(a, R)[row]
    BY <1>7
  <2>2. QED
    BY <1>1, <2>1, SumEqual
<1>9. AmountOf(a, R) = SumOver(R, AmountOfColumn(a, R))
  BY AmountOfIs
<1>10. Received(OfKeys(S, RowOf, R)) \in Nat
  BY <1>4, AllocationsAre
<1>11. QED
  BY <1>1, <1>5, <1>6, <1>7, <1>8, <1>9, <1>10

\* What the clients were allocated to date is what all of them were.
LEMMA ToDateAddsUp ==
  ASSUME FilPlusTypeOK, NEW a, NEW R \in SUBSET WeeklyRows(a)
  PROVE  TotalOf(ClientsToDate(a, R)) = AmountOf(a, R)
<1> DEFINE K == ClientsIn(R)
           key == [row \in R |-> row[1]]
           g == AmountOfColumn(a, R)
           f == [c \in K |-> AmountOf(a, {row \in R : row[1] = c})]
           rec == [c \in K |-> [client |-> c, total |-> AmountOf(a, {row \in R : row[1] = c})]]
<1>1. /\ IsFiniteSet(R) /\ \A row \in R : Amount(a, row) \in Nat
      /\ \A Q \in SUBSET R : AmountOf(a, Q) \in Nat /\ IsFiniteSet(Q)
  <2>1. \A Q \in SUBSET R : Q \in SUBSET WeeklyRows(a)
    OBVIOUS
  <2>2. QED
    BY <2>1, AmountsAre
<1>2. K = {key[row] : row \in R} /\ IsFiniteSet(K)
  <2>1. K = {key[row] : row \in R}
    BY DEF ClientsIn
  <2> HIDE DEF key, K
  <2>2. QED
    BY <1>1, <2>1, ImageSize
<1>3. \A row \in R : g[row] = Amount(a, row) /\ g[row] \in Int
  BY <1>1 DEF AmountOfColumn
<1>4. \A c \in K : f[c] \in Int /\ rec[c].total = f[c] /\ f[c] = FibreSums(R, key, g, K)[c]
  <2> SUFFICES ASSUME NEW c \in K PROVE f[c] \in Int /\ rec[c].total = f[c] /\ f[c] = FibreSums(R, key, g, K)[c]
    OBVIOUS
  <2>1. {row \in R : row[1] = c} = Fibre(R, key, c)
    BY DEF Fibre
  <2> DEFINE Q == Fibre(R, key, c)
  <2>2. Q \in SUBSET R
    BY DEF Fibre
  <2>3. f[c] = AmountOf(a, Q) /\ rec[c].total = AmountOf(a, Q)
    BY <2>1
  <2>4. AmountOf(a, Q) = SumOver(Q, AmountOfColumn(a, Q))
    BY AmountOfIs
  <2>5. SumOver(Q, AmountOfColumn(a, Q)) = SumOver(Q, g)
    <3>1. \A row \in Q : AmountOfColumn(a, Q)[row] = Amount(a, row)
      BY DEF AmountOfColumn
    <3>2. \A row \in Q : AmountOfColumn(a, Q)[row] \in Int /\ AmountOfColumn(a, Q)[row] = g[row]
      BY <3>1, <1>3, <2>2
    <3>3. QED
      BY <1>1, <2>2, <3>2, SumEqual
  <2>6. FibreSums(R, key, g, K)[c] = SumOver(Q, g)
    BY DEF FibreSums
  <2>7. QED
    BY <1>1, <2>2, <2>3, <2>4, <2>5, <2>6
<1>5. OfKeys(R, key, K) = R
  BY <1>2 DEF OfKeys
<1> HIDE DEF g
<1>6. SumOver(R, g) = SumOver(K, FibreSums(R, key, g, K))
  BY <1>1, <1>2, <1>3, <1>5, SumByKey
<1>7. SumOver(K, f) = SumOver(K, FibreSums(R, key, g, K))
  BY <1>2, <1>4, SumEqual
<1>8. \A c, d \in K : rec[c] = rec[d] => c = d
  <2>1. \A c \in K : rec[c].client = c
    OBVIOUS
  <2>2. QED
    BY <2>1
<1>9. ClientsToDate(a, R) = Image(K, rec)
  BY DEF ClientsToDate, Image
<1>10. TotalOf(Image(K, rec)) = SumOver(K, f)
  <2>1. \A c \in K : f[c] \in Int /\ rec[c].total = f[c]
    BY <1>4
  <2> HIDE DEF f, rec, K
  <2>2. QED
    BY <1>2, <1>8, <2>1, TotalOfRecords
<1>11. AmountOf(a, R) = SumOver(R, g)
  BY AmountOfIs DEF g
<1>12. QED
  BY <1>6, <1>7, <1>9, <1>10, <1>11

\* Multiples of a step are whole steps apart.
LEMMA MultiplesApart ==
  ASSUME NEW step \in Nat, step >= 1, NEW x \in Int, NEW y \in Int
  PROVE  (step * x - step * y) % step = 0
<1> DEFINE k == x - y
           q == (step * k) \div step
           r == (step * k) % step
<1>1. step * x - step * y = step * k
  BY TimesSum
<1>2. k \in Int /\ step * k \in Int
  OBVIOUS
<1>3. q \in Int /\ r \in Int /\ step * k = step * q + r /\ 0 <= r /\ r < step
  BY <1>2
<1> HIDE DEF k, q, r
<1>4. r = step * (k - q)
  <2>1. step * k = step * ((k - q) + q)
    BY <1>2, <1>3
  <2>2. step * ((k - q) + q) = step * (k - q) + step * q
    BY <1>2, <1>3, TimesSum
  <2>3. step * (k - q) \in Int /\ step * q \in Int
    BY <1>2, <1>3
  <2>4. QED
    BY <1>3, <2>1, <2>2, <2>3
<1>5. k - q = 0
  <2>1. CASE k - q >= 1
    <3>1. step * 1 <= step * (k - q)
      BY <1>2, <1>3, <2>1, TimesOrdered
    <3>2. QED
      BY <1>3, <1>4, <3>1
  <2>2. CASE k - q <= -1
    <3>1. step * (k - q) <= step * (-1)
      BY <1>2, <1>3, <2>2, TimesOrdered
    <3>2. step * (-1) = -step
      OBVIOUS
    <3>3. QED
      BY <1>3, <1>4, <3>1, <3>2
  <2>3. QED
    BY <1>2, <1>3, <2>1, <2>2
<1>6. r = 0
  BY <1>4, <1>5
<1>7. QED
  BY <1>1, <1>6 DEF k, r

Periods == {"week", "month"}

\* A step is not nothing.
LEMMA StepIs ==
  ASSUME NEW period \in Periods
  PROVE  PeriodDays(period) \in Nat /\ PeriodDays(period) >= 1
BY FilPlusAssumption, ScoringAssumption DEF PeriodDays, Periods

\* The date of a row is whole steps.
LEMMA DateIs ==
  ASSUME FilPlusTypeOK, NEW a, NEW row \in WeeklyRows(a), NEW period \in Periods
  PROVE  /\ DateOf(row, period) \in Nat
         /\ \E q \in Int : DateOf(row, period) = PeriodDays(period) * q
<1> DEFINE step == PeriodDays(period)
           n == row[2] * DaysPerWeek + step - 1
<1>1. row[2] \in Nat
  BY WeeklyRowsAre
<1>2. step \in Nat /\ step >= 1
  BY StepIs
<1>3. row[2] * DaysPerWeek \in Nat
  BY <1>1, FilPlusAssumption
<1>4. n \in Nat
  BY <1>2, <1>3
<1>5. n \div step \in Nat
  <2> HIDE DEF n, step
  <2>1. QED
    BY <1>2, <1>4, CutOff
<1>6. DateOf(row, period) = step * (n \div step)
  BY DEF DateOf
<1>7. step * (n \div step) \in Nat
  BY <1>2, <1>5
<1>8. QED
  BY <1>5, <1>6, <1>7

\* The dates of an allocator's rows, and those between them.
LEMMA DatesAre ==
  ASSUME FilPlusTypeOK, NEW a, NEW period \in Periods
  PROVE  LET dates == Dates(a, period)
             every == EveryDate(a, period)
         IN  /\ dates \in SUBSET Nat /\ IsFiniteSet(dates)
             /\ dates = {} => every = {}
             /\ dates # {} => /\ Min(dates) \in dates /\ Max(dates) \in dates
                              /\ \A d \in dates : Min(dates) <= d /\ d <= Max(dates)
                              /\ \A d \in every : d \in Nat /\ Min(dates) <= d /\ d <= Max(dates)
             /\ dates \subseteq every
<1> DEFINE dates == Dates(a, period)
           every == EveryDate(a, period)
           date == [row \in WeeklyRows(a) |-> DateOf(row, period)]
<1>1. dates \in SUBSET Nat
  BY DateIs DEF Dates
<1>2. IsFiniteSet(dates)
  <2>1. dates = {date[row] : row \in WeeklyRows(a)}
    BY DEF Dates
  <2>2. IsFiniteSet(WeeklyRows(a))
    BY WeeklyRowsAre
  <2> HIDE DEF date, dates
  <2>3. QED
    BY <2>1, <2>2, ImageSize
<1>3. dates = {} => every = {}
  BY DEF EveryDate
<1>4. ASSUME dates # {}
      PROVE  /\ Min(dates) \in dates /\ Max(dates) \in dates
             /\ \A d \in dates : Min(dates) <= d /\ d <= Max(dates)
             /\ Min(dates) \in Nat /\ Max(dates) \in Nat
  <2> HIDE DEF dates
  <2>1. QED
    BY <1>1, <1>2, <1>4, MinIs, MaxOfFinite
<1>5. ASSUME dates # {}
      PROVE  every = {d \in Min(dates)..Max(dates) : (d - Min(dates)) % PeriodDays(period) = 0}
  BY <1>5, Zenon DEF EveryDate
<1>6. ASSUME dates # {}
      PROVE  \A d \in every : d \in Nat /\ Min(dates) <= d /\ d <= Max(dates)
  <2> HIDE DEF dates, every
  <2>1. \A d \in every : d \in Min(dates)..Max(dates)
    BY <1>5, <1>6
  <2>2. QED
    BY <1>4, <1>6, <2>1
<1>7. \A d \in dates : \E q \in Int : d = PeriodDays(period) * q
  BY DateIs DEF Dates
<1>8. ASSUME NEW d \in dates
      PROVE  d \in every
  <2>0. dates # {}
    BY <1>8
  <2>1. Min(dates) \in dates /\ d \in Nat /\ Min(dates) <= d /\ d <= Max(dates) /\ Min(dates) \in Nat /\ Max(dates) \in Nat
    BY <1>1, <1>4, <1>8, <2>0
  <2>2. PICK x \in Int : d = PeriodDays(period) * x
    BY <1>7, <1>8
  <2>3. PICK y \in Int : Min(dates) = PeriodDays(period) * y
    BY <1>7, <2>1
  <2>4. (d - Min(dates)) % PeriodDays(period) = 0
    BY <2>2, <2>3, StepIs, MultiplesApart
  <2>5. d \in Min(dates)..Max(dates)
    BY <2>1
  <2> HIDE DEF dates, every
  <2>6. QED
    BY <1>5, <2>0, <2>4, <2>5
<1> HIDE DEF dates, every
<1>9. dates # {} => /\ Min(dates) \in dates /\ Max(dates) \in dates
                    /\ \A d \in dates : Min(dates) <= d /\ d <= Max(dates)
                    /\ \A d \in every : d \in Nat /\ Min(dates) <= d /\ d <= Max(dates)
  BY <1>4, <1>6
<1>10. dates \subseteq every
  BY <1>8
<1>11. QED
  BY <1>1, <1>2, <1>3, <1>9, <1>10 DEF dates, every

AllOf(a, period) == GetAllocationsByAllocator(a, period, TRUE)
EntriesOf(a, period) == GetAllocationsByAllocator(a, period, FALSE)

\* The entries of an allocator are those of its dates.
LEMMA EntriesAre ==
  ASSUME NEW a, NEW period
  PROVE  /\ AllOf(a, period) = {Entry(a, period, d) : d \in EveryDate(a, period)}
         /\ EntriesOf(a, period) = {Entry(a, period, d) : d \in Dates(a, period)}
         /\ \A d : LET e == Entry(a, period, d)
                   IN  /\ e.date = d /\ e.total = AmountOf(a, RowsUpTo(a, period, d))
                       /\ e.clients = ClientsToDate(a, RowsUpTo(a, period, d))
                       /\ e.newClients = NewClients(a, period, d)
                       /\ e.newAllocations = {row \in RowsUpTo(a, period, d) : DateOf(row, period) = d}
BY DEF AllOf, EntriesOf, GetAllocationsByAllocator, Entry

\* A row is new at its date, and only there.
LEMMA NewRowIs ==
  ASSUME FilPlusTypeOK, NEW a, NEW period \in Periods, NEW d \in EveryDate(a, period), NEW row
  PROVE  row \in Entry(a, period, d).newAllocations <=> row \in WeeklyRows(a) /\ DateOf(row, period) = d
<1>1. Entry(a, period, d).newAllocations = {r \in RowsUpTo(a, period, d) : DateOf(r, period) = d}
  BY EntriesAre
<1>2. d \in Nat
  BY DatesAre
<1>3. QED
  BY <1>1, <1>2 DEF RowsUpTo

\* The entries kept are those with a row.
LEMMA EntriesKept ==
  ASSUME FilPlusTypeOK, NEW a, NEW period \in Periods
  PROVE  EntriesOf(a, period) = {e \in AllOf(a, period) : e.newAllocations # {}}
<1>1. Dates(a, period) \subseteq EveryDate(a, period)
  BY DatesAre
<1>2. ASSUME NEW d \in EveryDate(a, period)
      PROVE  Entry(a, period, d).newAllocations # {} <=> d \in Dates(a, period)
  BY <1>2, NewRowIs DEF Dates
<1>3. EntriesOf(a, period) \subseteq {e \in AllOf(a, period) : e.newAllocations # {}}
  BY <1>1, <1>2, EntriesAre
<1>4. {e \in AllOf(a, period) : e.newAllocations # {}} \subseteq EntriesOf(a, period)
  BY <1>2, EntriesAre
<1>5. QED
  BY <1>3, <1>4

Latest(all) == CHOOSE e \in all : \A f \in all : f.date <= e.date

\* The last of all entries is that of the last row, and has all that was allocated.
LEMMA LastEntry ==
  ASSUME FilPlusTypeOK, NEW a, NEW period \in Periods, AllOf(a, period) # {}
  PROVE  /\ Latest(AllOf(a, period)) \in EntriesOf(a, period)
         /\ Latest(AllOf(a, period)).total = Received({x \in allocations : x.allocator = a})
<1> DEFINE all == AllOf(a, period)
           dates == Dates(a, period)
           m == Max(dates)
           last == Entry(a, period, m)
<1>1. EveryDate(a, period) # {}
  BY EntriesAre
<1>2. /\ m \in dates /\ m \in EveryDate(a, period) /\ dates \in SUBSET Nat
      /\ \A d \in EveryDate(a, period) : d \in Nat /\ d <= m
      /\ \A d \in dates : d <= m
  BY <1>1, DatesAre
<1>3. last \in EntriesOf(a, period) /\ last \in all /\ last.date = m
  BY <1>2, EntriesAre
<1>4. \A e \in all : e.date \in EveryDate(a, period) /\ e = Entry(a, period, e.date)
  BY EntriesAre
<1>5. \A e \in all : e.date <= last.date
  BY <1>2, <1>3, <1>4
<1>6. ASSUME NEW e \in all, \A f \in all : f.date <= e.date
      PROVE  e = last
  <2>1. m <= e.date /\ e.date <= m /\ e.date \in Nat
    BY <1>2, <1>3, <1>4, <1>6
  <2>2. e.date = m
    BY <1>2, <2>1
  <2>3. QED
    BY <1>4, <2>2
<1> HIDE DEF last, all
<1>7. Latest(all) \in all /\ \A f \in all : f.date <= Latest(all).date
  BY <1>3, <1>5 DEF Latest
<1>8. Latest(all) = last
  BY <1>6, <1>7
<1>9. last.total = Received({x \in allocations : x.allocator = a})
  <2>1. RowsUpTo(a, period, m) = WeeklyRows(a)
    <3>1. \A row \in WeeklyRows(a) : DateOf(row, period) <= m
      BY <1>2 DEF Dates
    <3>2. QED
      BY <3>1 DEF RowsUpTo
  <2>2. last.total = AmountOf(a, WeeklyRows(a))
    BY <2>1, EntriesAre DEF last
  <2>3. AmountOf(a, WeeklyRows(a)) = Received(OfKeys(AllocationsOf(a), RowOf, WeeklyRows(a)))
    BY AmountsAre
  <2>4. OfKeys(AllocationsOf(a), RowOf, WeeklyRows(a)) = AllocationsOf(a)
    BY WeeklyRowsAre DEF OfKeys
  <2>5. QED
    BY <2>2, <2>3, <2>4 DEF AllocationsOf
<1>10. QED
  BY <1>3, <1>8, <1>9 DEF all

\* A row is shown once.
LEMMA RowOnce ==
  ASSUME FilPlusTypeOK, NEW a, NEW period \in Periods, NEW row \in WeeklyRows(a)
  PROVE  LET some == {e \in AllOf(a, period) : row \in e.newAllocations}
         IN  Cardinality(some) = 1 /\ some \subseteq EntriesOf(a, period)
<1> DEFINE some == {e \in AllOf(a, period) : row \in e.newAllocations}
           d == DateOf(row, period)
<1>1. d \in Dates(a, period) /\ d \in EveryDate(a, period)
  <2>1. Dates(a, period) \subseteq EveryDate(a, period)
    BY DatesAre
  <2>2. d \in Dates(a, period)
    BY DEF Dates
  <2>3. QED
    BY <2>1, <2>2
<1>2. some = {Entry(a, period, d)}
  <2>1. \A e \in some : e = Entry(a, period, d)
    BY EntriesAre, NewRowIs
  <2>2. Entry(a, period, d) \in some
    BY <1>1, EntriesAre, NewRowIs
  <2>3. QED
    BY <2>1, <2>2
<1>3. Entry(a, period, d) \in EntriesOf(a, period)
  BY <1>1, EntriesAre
<1> HIDE DEF some
<1>4. Cardinality(some) = 1
  BY <1>2, FS_Singleton
<1>5. QED
  BY <1>2, <1>3, <1>4 DEF some

DatesWith(a, period, c) == {DateOf(row, period) : row \in {r \in WeeklyRows(a) : r[1] = c}}

\* A client is new at the first date of its rows.
LEMMA NewClientIs ==
  ASSUME FilPlusTypeOK, NEW a, NEW period \in Periods, NEW c \in ClientsOf(a)
  PROVE  /\ DatesWith(a, period, c) \subseteq Dates(a, period) /\ DatesWith(a, period, c) \in SUBSET Nat
         /\ DatesWith(a, period, c) # {}
         /\ \A d \in Nat : c \in NewClients(a, period, d) <=> d = Min(DatesWith(a, period, c))
<1> DEFINE with == DatesWith(a, period, c)
<1>1. with \subseteq Dates(a, period) /\ with \in SUBSET Nat
  <2>1. Dates(a, period) \in SUBSET Nat
    BY DatesAre
  <2>2. with \subseteq Dates(a, period)
    BY DEF DatesWith, Dates
  <2>3. QED
    BY <2>1, <2>2
<1>2. with # {}
  <2>1. PICK x \in allocations : x.allocator = a /\ x.client = c
    BY DEF ClientsOf
  <2>2. <<x.client, Week(x.day)>> \in WeeklyRows(a)
    BY <2>1 DEF WeeklyRows
  <2>3. QED
    BY <2>1, <2>2 DEF DatesWith
<1>3. Min(with) \in with /\ \A d \in with : Min(with) <= d
  <2> HIDE DEF with
  <2>1. QED
    BY <1>1, <1>2, MinIs
<1>4. \A d \in Int : c \in ClientsIn(RowsUpTo(a, period, d)) <=> \E x \in with : x <= d
  BY DEF ClientsIn, RowsUpTo, DatesWith
<1> HIDE DEF with
<1>5. ASSUME NEW d \in Nat
      PROVE  c \in NewClients(a, period, d) <=> d = Min(with)
  <2>1. c \in NewClients(a, period, d) <=> (\E x \in with : x <= d) /\ ~(\E x \in with : x <= d - 1)
    <3>1. d \in Int /\ d - 1 \in Int
      OBVIOUS
    <3>2. QED
      BY <1>4, <3>1 DEF NewClients
  <2>2. \A x \in with : x \in Nat /\ Min(with) \in Nat
    BY <1>1, <1>3
  <2>3. (\E x \in with : x <= d) <=> Min(with) <= d
    BY <1>3, <2>2
  <2>4. (\E x \in with : x <= d - 1) <=> Min(with) <= d - 1
    BY <1>3, <2>2
  <2>5. Min(with) \in Nat
    BY <1>3, <2>2
  <2>6. QED
    BY <2>1, <2>3, <2>4, <2>5
<1>6. QED
  BY <1>1, <1>2, <1>5 DEF with

\* A client is new once.
LEMMA ClientOnce ==
  ASSUME FilPlusTypeOK, NEW a, NEW period \in Periods, NEW c \in ClientsOf(a)
  PROVE  LET some == {e \in AllOf(a, period) : c \in e.newClients}
         IN  Cardinality(some) = 1 /\ some \subseteq EntriesOf(a, period)
<1> DEFINE some == {e \in AllOf(a, period) : c \in e.newClients}
           d == Min(DatesWith(a, period, c))
<1>1. d \in DatesWith(a, period, c)
  BY NewClientIs, MinIs
<1>2. d \in Dates(a, period) /\ d \in EveryDate(a, period) /\ d \in Nat
  BY <1>1, NewClientIs, DatesAre
<1>3. \A x \in EveryDate(a, period) : x \in Nat
  <2>1. Dates(a, period) # {}
    BY <1>2
  <2>2. QED
    BY <2>1, DatesAre
<1>4. \A x \in EveryDate(a, period) : c \in Entry(a, period, x).newClients <=> x = d
  <2>1. \A x : Entry(a, period, x).newClients = NewClients(a, period, x)
    BY DEF Entry
  <2>2. QED
    BY <1>3, <2>1, NewClientIs
<1> HIDE DEF d
<1>5. some = {Entry(a, period, d)}
  <2>1. \A e \in some : e = Entry(a, period, d)
    BY <1>4, EntriesAre
  <2>2. Entry(a, period, d) \in some
    BY <1>2, <1>4, EntriesAre
  <2>3. QED
    BY <2>1, <2>2
<1>6. Entry(a, period, d) \in EntriesOf(a, period)
  BY <1>2, EntriesAre
<1> HIDE DEF some
<1>7. Cardinality(some) = 1
  BY <1>5, FS_Singleton
<1>8. QED
  BY <1>5, <1>6, <1>7 DEF some

\* However the allocations are grouped.
LEMMA Groups ==
  ASSUME FilPlusTypeOK, NEW a, NEW period \in Periods
  PROVE  GroupsAddUp(a, period)
<1>1. \A e \in AllOf(a, period) : e.total = TotalOf(e.clients)
  <2> SUFFICES ASSUME NEW e \in AllOf(a, period) PROVE e.total = TotalOf(e.clients)
    OBVIOUS
  <2>1. PICK d : e = Entry(a, period, d)
    BY EntriesAre
  <2>2. /\ e.total = AmountOf(a, RowsUpTo(a, period, d))
        /\ e.clients = ClientsToDate(a, RowsUpTo(a, period, d))
    BY <2>1, EntriesAre
  <2>3. RowsUpTo(a, period, d) \in SUBSET WeeklyRows(a)
    BY DEF RowsUpTo
  <2>4. QED
    BY <2>2, <2>3, ToDateAddsUp
<1>2. QED
  BY <1>1, EntriesKept, LastEntry, RowOnce, ClientOnce, Zenon DEF GroupsAddUp, AllOf, EntriesOf, Latest

-----------------------------------------------------------------------------
(* The history of all allocations, and audits *)

\* Later days are in later windows.
LEMMA WindowsInOrder ==
  ASSUME NEW a \in Nat, NEW b \in Nat, a <= b, NEW n \in Nat, n >= 1
  PROVE  a \div n \in Nat /\ b \div n \in Nat /\ a \div n <= b \div n
<1> DEFINE p == a \div n
           q == b \div n
<1>1. /\ p \in Nat /\ n * p <= a /\ a < n * p + n
      /\ q \in Nat /\ n * q <= b /\ b < n * q + n
  BY CutOff
<1> HIDE DEF p, q
<1>2. n * p \in Nat /\ n * q \in Nat
  BY <1>1
<1>3. n * (q + 1) = n * q + n
  <2>1. n * (q + 1) = n * q + n * 1
    BY <1>1, TimesSum
  <2>2. QED
    BY <2>1
<1>4. CASE p <= q
  BY <1>1, <1>4 DEF p, q
<1>5. CASE q + 1 <= p
  <2>1. n * (q + 1) <= n * p
    BY <1>1, <1>5, TimesOrdered
  <2>2. QED
    BY <1>1, <1>2, <1>3, <2>1
<1>6. QED
  BY <1>1, <1>4, <1>5

\* What is received is the sum over keys of what is received with each.
LEMMA ReceivedByKey ==
  ASSUME FilPlusTypeOK, NEW S \in SUBSET allocations, NEW key, NEW K, IsFiniteSet(K),
         NEW f, \A k \in K : f[k] = Received(Fibre(S, key, k))
  PROVE  /\ Received(OfKeys(S, key, K)) = SumOver(K, f)
         /\ \A k \in K : f[k] \in Nat
<1> DEFINE one == [x \in S |-> Allowance]
<1>1. IsFiniteSet(S) /\ \A x \in S : one[x] = Allowance /\ one[x] \in Int
  BY AllocationsAre, FilPlusAssumption
<1> HIDE DEF one
<1>2. \A k : /\ OfKeys(S, key, k) \in SUBSET allocations /\ Fibre(S, key, k) \in SUBSET allocations
             /\ OfKeys(S, key, k) \in SUBSET S /\ Fibre(S, key, k) \in SUBSET S
  BY DEF OfKeys, Fibre
<1>3. SumOver(OfKeys(S, key, K), one) = SumOver(K, FibreSums(S, key, one, K))
  BY <1>1, SumByKey
<1>4. Received(OfKeys(S, key, K)) = SumOver(OfKeys(S, key, K), one)
  BY <1>1, <1>2, ReceivedIs
<1>5. \A k \in K : f[k] \in Nat /\ f[k] = FibreSums(S, key, one, K)[k]
  <2> SUFFICES ASSUME NEW k \in K PROVE f[k] \in Nat /\ f[k] = FibreSums(S, key, one, K)[k]
    OBVIOUS
  <2>1. Received(Fibre(S, key, k)) = SumOver(Fibre(S, key, k), one)
    BY <1>1, <1>2, ReceivedIs
  <2>2. FibreSums(S, key, one, K)[k] = SumOver(Fibre(S, key, k), one)
    BY DEF FibreSums
  <2>3. Received(Fibre(S, key, k)) \in Nat
    BY <1>2, AllocationsAre
  <2>4. QED
    BY <2>1, <2>2, <2>3
<1>6. SumOver(K, f) = SumOver(K, FibreSums(S, key, one, K))
  <2>1. \A k \in K : f[k] \in Int /\ f[k] = FibreSums(S, key, one, K)[k]
    BY <1>5
  <2>2. QED
    BY <2>1, SumEqual
<1>7. QED
  BY <1>3, <1>4, <1>5, <1>6

Counted == {x \in allocations : x.allocator \notin LeftOut}
WindowIn(days) == [x \in allocations |-> x.day \div days]
HistoryEntry(days, w) == [window |-> w, total |-> AllocatedIn(days, {w}),
                          cumulative |-> AllocatedIn(days, FirstWindow(days)..w)]
Spans(days) == FirstWindow(days)..(today \div days)

\* The windows of the history are those of the allocations, and those between them.
LEMMA SpansAre ==
  ASSUME StatisticsInv, NEW days \in Nat, days >= 1, allocations # {}
  PROVE  /\ FirstWindow(days) \in Nat /\ today \div days \in Nat /\ FirstWindow(days) <= today \div days
         /\ IsFiniteSet(Spans(days)) /\ today \div days \in Spans(days)
         /\ \A x \in allocations : WindowIn(days)[x] \in Spans(days)
<1> DEFINE windows == {x.day \div days : x \in allocations}
           current == today \div days
<1>1. \A x \in allocations : x.day \in Nat /\ today \in Nat /\ x.day <= today
  BY AllocationsAre DEF StatisticsInv, FilPlusInv, FilPlusTypeOK, Days
<1>2. \A x \in allocations : x.day \div days \in Nat /\ current \in Nat /\ x.day \div days <= current
  BY <1>1, WindowsInOrder
<1> HIDE DEF current
<1>3. windows \in SUBSET Nat /\ windows # {}
  BY <1>2
<1>4. Min(windows) \in windows /\ \A y \in windows : Min(windows) <= y
  <2> HIDE DEF windows
  <2>1. QED
    BY <1>3, MinIs
<1>5. FirstWindow(days) = Min(windows)
  BY DEF FirstWindow
<1>6. FirstWindow(days) \in Nat /\ \A x \in allocations : FirstWindow(days) <= x.day \div days
  <2>1. \A x \in allocations : x.day \div days \in windows
    OBVIOUS
  <2> HIDE DEF windows
  <2>2. QED
    BY <1>3, <1>4, <1>5, <2>1
<1>7. current \in Nat /\ FirstWindow(days) <= current
  <2>1. PICK x \in allocations : TRUE
    OBVIOUS
  <2>2. QED
    BY <1>2, <1>6, <2>1
<1>8. IsFiniteSet(Spans(days))
  BY <1>6, <1>7, FS_Interval DEF Spans, current
<1>9. \A x \in allocations : WindowIn(days)[x] \in FirstWindow(days)..current
  <2>1. \A x \in allocations : WindowIn(days)[x] = x.day \div days
    BY DEF WindowIn
  <2>2. QED
    BY <1>2, <1>6, <1>7, <2>1
<1>10. QED
  BY <1>6, <1>7, <1>8, <1>9 DEF current, Spans

\* What was allocated in some windows.
LEMMA AllocatedInIs ==
  ASSUME NEW days, NEW windows
  PROVE  AllocatedIn(days, windows) = Received(OfKeys(Counted, WindowIn(days), windows))
<1>1. {x \in allocations : x.allocator \notin LeftOut /\ x.day \div days \in windows}
        = OfKeys(Counted, WindowIn(days), windows)
  BY DEF OfKeys, Counted, WindowIn
<1>2. QED
  BY <1>1, Zenon DEF AllocatedIn

\* The history has an entry for each window.
LEMMA HistoryIs ==
  ASSUME NEW days, allocations # {}
  PROVE  /\ CumulativeAllocationsHistory(days) = {HistoryEntry(days, w) : w \in Spans(days)}
         /\ \A w : HistoryEntry(days, w).window = w
BY DEF CumulativeAllocationsHistory, HistoryEntry, Spans

\* It ends at all that it counts.
LEMMA UsageIs ==
  ASSUME StatisticsInv
  PROVE  GetAllocatorsDatacapUsage = Received(Counted)
<1> DEFINE history == CumulativeAllocationsHistory(MonthDays)
           current == today \div MonthDays
           last == HistoryEntry(MonthDays, current)
<1>1. CASE allocations = {}
  <2>1. history = {}
    BY <1>1 DEF CumulativeAllocationsHistory
  <2>2. Counted = {}
    BY <1>1 DEF Counted
  <2>3. Received(Counted) = 0
    BY <2>2, FS_EmptySet, FilPlusAssumption DEF Received
  <2>4. QED
    BY <2>1, <2>3 DEF GetAllocatorsDatacapUsage
<1>2. CASE allocations # {}
  <2>0. MonthDays \in Nat /\ MonthDays >= 1
    BY ScoringAssumption
  <2>1. /\ FirstWindow(MonthDays) \in Nat /\ current \in Nat /\ current \in Spans(MonthDays)
        /\ \A x \in allocations : WindowIn(MonthDays)[x] \in Spans(MonthDays)
    BY <1>2, <2>0, SpansAre
  <2>2. \A w \in Spans(MonthDays) : w \in Int /\ w <= current
    BY <2>1 DEF Spans
  <2>3. last \in history /\ last.window = current
    BY <1>2, <2>1, HistoryIs
  <2>4. \A y \in history : y.window \in Spans(MonthDays) /\ y = HistoryEntry(MonthDays, y.window)
    BY <1>2, HistoryIs
  <2>5. \A y \in history : y.window <= last.window
    BY <2>2, <2>3, <2>4
  <2>6. ASSUME NEW x \in history, \A y \in history : y.window <= x.window
        PROVE  x = last
    <3>1. x.window <= current /\ current <= x.window /\ x.window \in Int
      BY <2>2, <2>3, <2>4, <2>6
    <3>2. x.window = current
      BY <2>1, <3>1
    <3>3. QED
      BY <2>4, <3>2
  <2> HIDE DEF history, last
  <2>7. Last(history) \in history /\ \A y \in history : y.window <= Last(history).window
    BY <2>3, <2>5 DEF Last
  <2>8. Last(history) = last
    BY <2>6, <2>7
  <2>9. last.cumulative = AllocatedIn(MonthDays, Spans(MonthDays))
    BY DEF last, HistoryEntry, Spans
  <2>10. OfKeys(Counted, WindowIn(MonthDays), Spans(MonthDays)) = Counted
    BY <2>1 DEF OfKeys, Counted
  <2>11. history # {}
    BY <2>3
  <2>12. GetAllocatorsDatacapUsage = Last(history).cumulative
    BY <2>11 DEF GetAllocatorsDatacapUsage, history
  <2>13. QED
    BY <2>8, <2>9, <2>10, <2>12, AllocatedInIs
<1>3. QED
  BY <1>1, <1>2

\* What is added up in an entry is the sum of the windows up to it.
LEMMA CumulativeIs ==
  ASSUME StatisticsInv, NEW days \in Nat, days >= 1, NEW x \in CumulativeAllocationsHistory(days)
  PROVE  x.cumulative = TotalOf({y \in CumulativeAllocationsHistory(days) : y.window <= x.window})
<1> DEFINE first == FirstWindow(days)
           w == x.window
           K == first..w
           rec == [v \in K |-> HistoryEntry(days, v)]
           f == [v \in K |-> AllocatedIn(days, {v})]
           S == Counted
           key == WindowIn(days)
<1>1. allocations # {}
  BY DEF CumulativeAllocationsHistory
<1>2. first \in Nat /\ today \div days \in Nat /\ first <= today \div days
  BY <1>1, SpansAre
<1>3. w \in Spans(days) /\ x = HistoryEntry(days, w)
  BY <1>1, HistoryIs
<1>4. w \in Nat /\ w <= today \div days /\ first <= w
  BY <1>2, <1>3 DEF Spans
<1>5. K \subseteq Spans(days) /\ \A v \in Spans(days) : v <= w => v \in K
  BY <1>2, <1>4 DEF Spans
<1>6. {y \in CumulativeAllocationsHistory(days) : y.window <= w} = Image(K, rec)
  <2> HIDE DEF K
  <2>0. \A v \in K : rec[v] = HistoryEntry(days, v)
    OBVIOUS
  <2>1. \A v \in K : v <= w
    BY <1>2, <1>4 DEF K
  <2>2. \A y \in CumulativeAllocationsHistory(days) : y.window \in Spans(days) /\ y = HistoryEntry(days, y.window)
    BY <1>1, HistoryIs
  <2>3. \A v \in K : HistoryEntry(days, v) \in CumulativeAllocationsHistory(days) /\ HistoryEntry(days, v).window = v
    BY <1>1, <1>5, HistoryIs
  <2> HIDE DEF rec, w
  <2>4. Image(K, rec) \subseteq {y \in CumulativeAllocationsHistory(days) : y.window <= w}
    BY <2>0, <2>1, <2>3 DEF Image
  <2>5. {y \in CumulativeAllocationsHistory(days) : y.window <= w} \subseteq Image(K, rec)
    BY <1>5, <2>0, <2>2 DEF Image
  <2>6. QED
    BY <2>4, <2>5
<1>7. IsFiniteSet(K)
  <2>1. first \in Int /\ w \in Int
    BY <1>2, <1>4
  <2> HIDE DEF first, w
  <2>2. QED
    BY <2>1, FS_Interval
<1>8. S \in SUBSET allocations
  BY DEF Counted
<1>9. \A v \in K : f[v] = Received(Fibre(S, key, v))
  <2>1. \A v : OfKeys(S, key, {v}) = Fibre(S, key, v)
    BY DEF OfKeys, Fibre
  <2>2. QED
    BY <2>1, AllocatedInIs
<1>10. x.cumulative = Received(OfKeys(S, key, K))
  <2>1. x.cumulative = AllocatedIn(days, K)
    BY <1>3 DEF HistoryEntry
  <2>2. QED
    BY <2>1, AllocatedInIs
<1>11. \A v \in K : rec[v].total = f[v]
  BY DEF HistoryEntry
<1>12. \A u, v \in K : rec[u] = rec[v] => u = v
  <2>1. \A v \in K : rec[v].window = v
    BY DEF HistoryEntry
  <2>2. QED
    BY <2>1
<1> HIDE DEF K, rec, f, S, key
<1>13. Received(OfKeys(S, key, K)) = SumOver(K, f) /\ \A v \in K : f[v] \in Nat
  BY <1>7, <1>8, <1>9, ReceivedByKey DEF StatisticsInv, FilPlusInv
<1>14. \A v \in K : f[v] \in Int /\ rec[v].total = f[v]
  BY <1>11, <1>13
<1>15. TotalOf(Image(K, rec)) = SumOver(K, f)
  BY <1>7, <1>12, <1>14, TotalOfRecords
<1>16. QED
  BY <1>6, <1>10, <1>13, <1>15

\* The audits that count are the first ones, as they are in order.
LEMMA AuditsUpToAre ==
  ASSUME NEW a \in Allocators, NEW month \in Nat, AuditsUpTo(a, month) # {}
  PROVE  LET m == Max(AuditsUpTo(a, month))
         IN  m \in 1..Len(Audits[a]) /\ Cardinality(AuditsUpTo(a, month)) = m
<1> DEFINE upTo == AuditsUpTo(a, month)
           m == Max(upTo)
           ended(i) == Audits[a][i].ended
<1>1. /\ Len(Audits[a]) \in Nat /\ DOMAIN Audits[a] = 1..Len(Audits[a])
      /\ \A i \in 1..Len(Audits[a]) : ended(i) \in Int
      /\ \A i, j \in 1..Len(Audits[a]) : i < j /\ ended(j) # Never => ended(i) # Never /\ ended(i) <= ended(j)
  <2>1. Audits[a] \in Seq(Audit)
    BY StatisticsAssumption
  <2>2. Len(Audits[a]) \in Nat /\ DOMAIN Audits[a] = 1..Len(Audits[a])
    BY <2>1, LenProperties
  <2>3. \A i \in 1..Len(Audits[a]) : Audits[a][i] \in Audit
    BY <2>1, ElementOfSeq
  <2>4. \A i \in 1..Len(Audits[a]) : ended(i) \in Int
    BY <2>3, FilPlusAssumption DEF Audit, Days, Never
  <2>5. QED
    BY <2>2, <2>4, StatisticsAssumption
<1>2. upTo \in SUBSET Nat /\ upTo \subseteq 1..Len(Audits[a]) /\ \A i \in upTo : i <= Len(Audits[a])
  BY <1>1 DEF AuditsUpTo
<1>3. m \in upTo /\ \A i \in upTo : i <= m
  <2> HIDE DEF upTo
  <2>1. QED
    BY <1>1, <1>2, MaxIs DEF upTo
<1>4. m \in 1..Len(Audits[a]) /\ m \in Nat
  BY <1>2, <1>3
<1>5. month * MonthDays \in Int
  BY ScoringAssumption
<1>6. upTo = 1..m
  <2>1. \A i \in upTo : i \in 1..m
    BY <1>1, <1>2, <1>3, <1>4
  <2>2. ASSUME NEW i \in 1..m PROVE i \in upTo
    <3>1. i \in 1..Len(Audits[a])
      BY <1>1, <1>4
    <3>2. ended(m) # Never /\ ended(m) <= month * MonthDays /\ ended(m) \in Int
      BY <1>1, <1>3, <1>4 DEF AuditsUpTo
    <3>3. CASE i = m
      BY <1>3, <3>3
    <3>4. CASE i < m
      <4>1. ended(i) # Never /\ ended(i) <= ended(m) /\ ended(i) \in Int
        BY <1>1, <1>4, <3>1, <3>2, <3>4
      <4>2. ended(i) <= month * MonthDays
        BY <1>5, <3>2, <4>1
      <4>3. QED
        BY <1>1, <3>1, <4>1, <4>2 DEF AuditsUpTo
    <3>5. QED
      BY <1>4, <3>3, <3>4
  <2>3. QED
    BY <2>1, <2>2
<1> HIDE DEF m, upTo
<1>7. Cardinality(upTo) = m
  <2>1. Cardinality(1..m) = m
    BY <1>4, FS_Interval
  <2>2. QED
    BY <1>6, <2>1
<1>8. QED
  BY <1>4, <1>7 DEF m, upTo

\* An outcome of a month is among the audits shown, or the first.
LEMMA OutcomeShown ==
  ASSUME NEW a \in Allocators, NEW month \in Nat
  PROVE  LET outcome == AuditOutcome(a, month).outcome
             states == GetAuditStatesData(a)
         IN  \/ outcome \in {"unknown", MapAuditOutcome(Audits[a][1].outcome, 0)}
             \/ \E i \in DOMAIN states : states[i] = outcome
<1> DEFINE upTo == AuditsUpTo(a, month)
           m == Max(upTo)
           states == GetAuditStatesData(a)
<1>1. CASE upTo = {}
  BY <1>1 DEF AuditOutcome
<1>2. CASE upTo # {}
  <2>1. m \in 1..Len(Audits[a]) /\ Cardinality(upTo) = m
    BY <1>2, AuditsUpToAre
  <2>2. AuditOutcome(a, month).outcome = MapAuditOutcome(Audits[a][m].outcome, m - 1)
    BY <1>2, <2>1 DEF AuditOutcome
  <2> HIDE DEF m
  <2>3. Len(Audits[a]) \in Nat
    BY LenProperties, StatisticsAssumption
  <2>4. CASE m = 1
    BY <2>2, <2>4
  <2>5. CASE m # 1
    <3>1. m - 1 \in 1..(Len(Audits[a]) - 1) /\ (m - 1) + 1 = m
      BY <2>1, <2>3, <2>5
    <3>2. m - 1 \in DOMAIN states /\ states[m - 1] = MapAuditOutcome(Audits[a][m].outcome, m - 1)
      BY <3>1 DEF GetAuditStatesData
    <3>3. QED
      BY <2>2, <3>2
  <2>6. QED
    BY <2>4, <2>5
<1>3. QED
  BY <1>1, <1>2

\* Allocations add up, by allocator and in all, and so do audits.
LEMMA AllocationsDo ==
  ASSUME StatisticsInv
  PROVE  AllocationsAddUp
<1>0. FilPlusTypeOK
  BY DEF StatisticsInv, FilPlusInv
<1>1. \A a \in Allocators, period \in {"week", "month"} : GroupsAddUp(a, period)
  BY <1>0, Groups DEF Periods
<1>2. GetAllocatorsDatacapUsage = Received({x \in allocations : x.allocator \notin LeftOut})
  BY UsageIs DEF Counted
<1>3. \A x \in CumulativeAllocationsHistory(DaysPerWeek) :
        x.cumulative = TotalOf({y \in CumulativeAllocationsHistory(DaysPerWeek) : y.window <= x.window})
  <2>1. DaysPerWeek \in Nat /\ DaysPerWeek >= 1
    BY FilPlusAssumption
  <2>2. QED
    BY <2>1, CumulativeIs
<1>4. AuditsAgree
  <2>1. today \in Nat /\ MonthDays \in Nat /\ MonthDays >= 1
    BY <1>0, ScoringAssumption DEF FilPlusTypeOK, Days
  <2>2. today \div MonthDays \in Nat
    BY <2>1, CutOff
  <2>3. \A month \in 0..(today \div MonthDays) : month \in Nat
    BY <2>2
  <2>4. QED
    BY <2>3, OutcomeShown, Zenon DEF AuditsAgree
<1>5. QED
  BY <1>1, <1>2, <1>3, <1>4 DEF AllocationsAddUp

\* Allocations always add up, however they are grouped, and the audits shown agree, for any
\* allocators, days, windows and audits.
THEOREM AllocationsAlwaysAddUp == FilPlusSpec => []AllocationsAddUp
  BY AllocationsDo, StatisticsInvariance, PTL

-----------------------------------------------------------------------------
(* The tables of a week *)

\* The size of some claims is the sum over keys of the sizes of those with each.
LEMMA TotalByKey ==
  ASSUME NEW S \in SUBSET Claim, IsFiniteSet(S), NEW key, NEW K, IsFiniteSet(K),
         NEW f, \A k \in K : f[k] = Total(Fibre(S, key, k))
  PROVE  /\ Total(OfKeys(S, key, K)) = SumOver(K, f)
         /\ \A k \in K : f[k] \in Nat
<1> DEFINE one == SizeOf(S)
<1>1. \A x \in S : one[x] \in Int
  BY TotalOfClaims
<1>2. \A k : OfKeys(S, key, k) \in SUBSET S /\ Fibre(S, key, k) \in SUBSET S
  BY DEF OfKeys, Fibre
<1>3. \A R \in SUBSET S : Total(R) = SumOver(R, one) /\ Total(R) \in Nat
  BY TotalOfClaims
<1> HIDE DEF one
<1>4. SumOver(OfKeys(S, key, K), one) = SumOver(K, FibreSums(S, key, one, K))
  BY <1>1, SumByKey
<1>5. \A k \in K : f[k] \in Nat /\ f[k] = FibreSums(S, key, one, K)[k]
  <2> SUFFICES ASSUME NEW k \in K PROVE f[k] \in Nat /\ f[k] = FibreSums(S, key, one, K)[k]
    OBVIOUS
  <2>1. FibreSums(S, key, one, K)[k] = SumOver(Fibre(S, key, k), one)
    BY DEF FibreSums
  <2>2. QED
    BY <1>2, <1>3, <2>1
<1>6. SumOver(K, f) = SumOver(K, FibreSums(S, key, one, K))
  <2>1. \A k \in K : f[k] \in Int /\ f[k] = FibreSums(S, key, one, K)[k]
    BY <1>5
  <2>2. QED
    BY <2>1, SumEqual
<1>7. QED
  BY <1>2, <1>3, <1>4, <1>5, <1>6

ClientsClaiming(S) == {k.client : k \in S}
ClientField(S) == [x \in S |-> x.client]
Totals(S) == {t.total : t \in S}

\* The totals of clients are those of the claims.
LEMMA ClientTotalsAre ==
  ASSUME NEW S \in SUBSET Claim, IsFiniteSet(S)
  PROVE  /\ IsFiniteSet(ClientTotals(S))
         /\ TotalOf(ClientTotals(S)) = Total(S)
         /\ \A t \in ClientTotals(S) : t.total \in Nat
         /\ S # {} => ClientTotals(S) # {}
<1> DEFINE K == ClientsClaiming(S)
           key == ClientField(S)
           f == [c \in K |-> Total({k \in S : k.client = c})]
           rec == [c \in K |-> [client |-> c, total |-> Total({k \in S : k.client = c})]]
<1>1. \A x \in S : key[x] = x.client /\ key[x] \in K
  BY DEF ClientField, ClientsClaiming
<1>2. K = {key[x] : x \in S} /\ IsFiniteSet(K)
  <2>1. K = {key[x] : x \in S}
    BY <1>1 DEF ClientsClaiming
  <2> HIDE DEF K, key
  <2>2. QED
    BY <2>1, ImageSize
<1>3. \A c : {k \in S : k.client = c} = Fibre(S, key, c)
  BY <1>1 DEF Fibre
<1>4. \A c \in K : f[c] = Total(Fibre(S, key, c)) /\ rec[c].total = f[c] /\ rec[c].client = c
  BY <1>3
<1>5. ClientTotals(S) = Image(K, rec)
  BY DEF ClientTotals, Image, ClientsClaiming
<1>6. OfKeys(S, key, K) = S
  BY <1>1 DEF OfKeys
<1> HIDE DEF K, key, f, rec
<1>7. Total(S) = SumOver(K, f) /\ \A c \in K : f[c] \in Nat
  BY <1>2, <1>4, <1>6, TotalByKey
<1>8. \A c, d \in K : rec[c] = rec[d] => c = d
  BY <1>4
<1>9. \A c \in K : f[c] \in Int /\ rec[c].total = f[c]
  BY <1>4, <1>7
<1>10. IsFiniteSet(Image(K, rec)) /\ TotalOf(Image(K, rec)) = SumOver(K, f)
  BY <1>2, <1>8, <1>9, TotalOfRecords
<1>11. \A t \in Image(K, rec) : t.total \in Nat
  BY <1>4, <1>7 DEF Image
<1>12. S # {} => Image(K, rec) # {}
  BY <1>1 DEF Image
<1>13. QED
  BY <1>5, <1>7, <1>10, <1>11, <1>12

\* And those of allocations.
LEMMA AllocationTotalsAre ==
  ASSUME FilPlusTypeOK, NEW S \in SUBSET allocations
  PROVE  /\ IsFiniteSet(AllocationTotals(S))
         /\ TotalOf(AllocationTotals(S)) = Received(S)
         /\ \A t \in AllocationTotals(S) : t.total \in Nat
         /\ S # {} => AllocationTotals(S) # {}
<1> DEFINE K == ClientsClaiming(S)
           key == ClientField(S)
           f == [c \in K |-> Received({x \in S : x.client = c})]
           rec == [c \in K |-> [client |-> c, total |-> Received({x \in S : x.client = c})]]
<1>0. IsFiniteSet(S)
  BY AllocationsAre
<1>1. \A x \in S : key[x] = x.client /\ key[x] \in K
  BY DEF ClientField, ClientsClaiming
<1>2. K = {key[x] : x \in S} /\ IsFiniteSet(K)
  <2>1. K = {key[x] : x \in S}
    BY <1>1 DEF ClientsClaiming
  <2> HIDE DEF K, key
  <2>2. QED
    BY <1>0, <2>1, ImageSize
<1>3. \A c : {x \in S : x.client = c} = Fibre(S, key, c)
  BY <1>1 DEF Fibre
<1>4. \A c \in K : f[c] = Received(Fibre(S, key, c)) /\ rec[c].total = f[c] /\ rec[c].client = c
  BY <1>3
<1>5. AllocationTotals(S) = Image(K, rec)
  BY DEF AllocationTotals, Image, ClientsClaiming
<1>6. OfKeys(S, key, K) = S
  BY <1>1 DEF OfKeys
<1> HIDE DEF K, key, f, rec
<1>7. Received(S) = SumOver(K, f) /\ \A c \in K : f[c] \in Nat
  BY <1>2, <1>4, <1>6, ReceivedByKey
<1>8. \A c, d \in K : rec[c] = rec[d] => c = d
  BY <1>4
<1>9. \A c \in K : f[c] \in Int /\ rec[c].total = f[c]
  BY <1>4, <1>7
<1>10. IsFiniteSet(Image(K, rec)) /\ TotalOf(Image(K, rec)) = SumOver(K, f)
  BY <1>2, <1>8, <1>9, TotalOfRecords
<1>11. \A t \in Image(K, rec) : t.total \in Nat
  BY <1>4, <1>7 DEF Image
<1>12. S # {} => Image(K, rec) # {}
  BY <1>1 DEF Image
<1>13. QED
  BY <1>5, <1>7, <1>10, <1>11, <1>12

\* A row of a week's table of totals.
LEMMA WeeklyRowIs ==
  ASSUME NEW name, NEW rate, NEW totals, IsFiniteSet(totals), totals # {}, \A t \in totals : t.total \in Nat
  PROVE  LET row == WeeklyRow(name, totals, rate)
         IN  /\ row.name = name /\ row.rate = rate /\ row.total = TotalOf(totals)
             /\ row.num \in Nat /\ row.biggest \in Nat
<1> DEFINE row == WeeklyRow(name, totals, rate)
           col == [t \in totals |-> t.total]
<1>1. /\ row.name = name /\ row.rate = rate /\ row.total = TotalOf(totals)
      /\ row.num = Cardinality(totals) /\ row.biggest = Max(Totals(totals))
  BY DEF WeeklyRow, Totals
<1>2. Totals(totals) = {col[t] : t \in totals} /\ Totals(totals) \in SUBSET Nat /\ Totals(totals) # {}
  BY DEF Totals
<1>3. IsFiniteSet(Totals(totals))
  <2> HIDE DEF col
  <2>1. QED
    BY <1>2, ImageSize
<1>4. Max(Totals(totals)) \in Nat
  BY <1>2, <1>3, MaxOfFinite
<1>5. Cardinality(totals) \in Nat
  BY FS_CardinalityType
<1>6. QED
  BY <1>1, <1>4, <1>5

WeekProviders(week) == {k.provider : k \in ClaimsUpTo(week)}
WeekAllocators(week) == {x.allocator : x \in AllocationsUpTo(week)}

\* The rows of a table: one for each name, with numbers.
TableOf(rows, names, total) ==
  /\ IsFiniteSet(names) /\ IsFiniteSet(rows) /\ Cardinality(rows) = Cardinality(names)
  /\ \A r, s \in rows : r.name = s.name => r = s
  /\ \A r \in rows : /\ r.name \in names /\ r.total \in Nat /\ r.total >= 1
                     /\ r.num \in Nat /\ r.biggest \in Nat
  /\ \A x \in names : \E r \in rows : r.name = x
  /\ TotalOf(rows) = total

\* A row for each of some names, with its total, makes such a table.
LEMMA RowsMakeTable ==
  ASSUME NEW names, IsFiniteSet(names), NEW rec, NEW f, NEW total,
         \A x \in names : /\ rec[x].name = x /\ rec[x].total = f[x] /\ f[x] \in Nat /\ f[x] >= 1
                          /\ rec[x].num \in Nat /\ rec[x].biggest \in Nat,
         total = SumOver(names, f)
  PROVE  TableOf(Image(names, rec), names, total)
<1>1. \A x, y \in names : rec[x] = rec[y] => x = y
  OBVIOUS
<1>2. \A x \in names : f[x] \in Int /\ rec[x].total = f[x]
  OBVIOUS
<1>3. /\ IsFiniteSet(Image(names, rec)) /\ Cardinality(Image(names, rec)) = Cardinality(names)
      /\ TotalOf(Image(names, rec)) = SumOver(names, f)
  BY <1>1, <1>2, TotalOfRecords
<1>4. \A r \in Image(names, rec) : \E x \in names : r = rec[x]
  BY DEF Image
<1>5. \A r \in Image(names, rec) : r.name \in names /\ r = rec[r.name]
  BY <1>4
<1>6. \A x \in names : rec[x] \in Image(names, rec)
  BY DEF Image
<1>7. \A r, s \in Image(names, rec) : r.name = s.name => r = s
  BY <1>5
<1>8. \A r \in Image(names, rec) : /\ r.name \in names /\ r.total \in Nat /\ r.total >= 1
                                   /\ r.num \in Nat /\ r.biggest \in Nat
  BY <1>4
<1>9. \A x \in names : \E r \in Image(names, rec) : r.name = x
  BY <1>6
<1>10. QED
  BY <1>3, <1>7, <1>8, <1>9 DEF TableOf

\* What a week counts is finite.
LEMMA WeekIs ==
  ASSUME FilPlusTypeOK, NEW week
  PROVE  /\ ClaimsUpTo(week) \in SUBSET Claim /\ IsFiniteSet(ClaimsUpTo(week)) /\ ClaimsUpTo(week) \subseteq claims
         /\ AllocationsUpTo(week) \in SUBSET allocations /\ IsFiniteSet(AllocationsUpTo(week))
         /\ IsFiniteSet(WeekProviders(week)) /\ WeekProviders(week) \subseteq Providers
         /\ IsFiniteSet(WeekAllocators(week)) /\ WeekAllocators(week) \subseteq Allocators
<1> DEFINE providers == [k \in ClaimsUpTo(week) |-> k.provider]
           allocators == [x \in AllocationsUpTo(week) |-> x.allocator]
<1>1. /\ ClaimsUpTo(week) \in SUBSET Claim /\ ClaimsUpTo(week) \subseteq claims
      /\ AllocationsUpTo(week) \in SUBSET allocations /\ AllocationsUpTo(week) \in SUBSET Allocation
  BY DEF ClaimsUpTo, AllocationsUpTo, FilPlusTypeOK
<1>2. IsFiniteSet(ClaimsUpTo(week)) /\ IsFiniteSet(AllocationsUpTo(week))
  BY <1>1, FS_Subset DEF FilPlusTypeOK
<1>3. WeekProviders(week) = {providers[k] : k \in ClaimsUpTo(week)} /\ WeekProviders(week) \subseteq Providers
  BY <1>1 DEF WeekProviders, Claim
<1>4. WeekAllocators(week) = {allocators[x] : x \in AllocationsUpTo(week)} /\ WeekAllocators(week) \subseteq Allocators
  BY <1>1 DEF WeekAllocators, Allocation
<1> HIDE DEF providers, allocators
<1>5. IsFiniteSet(WeekProviders(week)) /\ IsFiniteSet(WeekAllocators(week))
  BY <1>2, <1>3, <1>4, ImageSize
<1>6. QED
  BY <1>1, <1>2, <1>3, <1>4, <1>5

RateIn(p) == IF Rate[p] = NoRate THEN 0 ELSE Rate[p]

\* The providers of a week, and what was claimed at them.
LEMMA ProvidersTable ==
  ASSUME FilPlusTypeOK, NEW week
  PROVE  /\ TableOf(ProvidersWeeklyAcc(week), WeekProviders(week), Total(ClaimsUpTo(week)))
         /\ \A row \in ProvidersWeeklyAcc(week) : row.rate \in 0..100
<1> DEFINE names == WeekProviders(week)
           S == ClaimsUpTo(week)
           key == [k \in S |-> k.provider]
           f == [p \in names |-> Total(ClaimsAt(p, week))]
           rec == [p \in names |-> WeeklyRow(p, ClientTotals(ClaimsAt(p, week)), RateIn(p))]
<1>1. /\ S \in SUBSET Claim /\ IsFiniteSet(S) /\ IsFiniteSet(names) /\ names \subseteq Providers
  BY WeekIs
<1>2. \A p : ClaimsAt(p, week) = Fibre(S, key, p) /\ ClaimsAt(p, week) \in SUBSET S
  BY DEF ClaimsAt, Fibre
<1>3. \A p \in names : ClaimsAt(p, week) # {}
  BY DEF WeekProviders, ClaimsAt
<1>4. \A k \in S : key[k] \in names
  BY DEF WeekProviders
<1>5. ProvidersWeeklyAcc(week) = Image(names, rec)
  <2>1. \A p \in names : rec[p] = WeeklyRow(p, ClientTotals(ClaimsAt(p, week)), IF Rate[p] = NoRate THEN 0 ELSE Rate[p])
    BY DEF RateIn
  <2>2. Image(names, rec) = {WeeklyRow(p, ClientTotals(ClaimsAt(p, week)), IF Rate[p] = NoRate THEN 0 ELSE Rate[p]) : p \in names}
    <3> HIDE DEF rec
    <3>1. QED
      BY <2>1 DEF Image
  <2>3. QED
    BY <2>2, Zenon DEF ProvidersWeeklyAcc, WeekProviders
<1>6. ASSUME NEW p \in names
      PROVE  /\ rec[p].name = p /\ rec[p].total = f[p] /\ f[p] \in Nat /\ f[p] >= 1
             /\ rec[p].num \in Nat /\ rec[p].biggest \in Nat /\ rec[p].rate \in 0..100
  <2> DEFINE T == ClaimsAt(p, week)
  <2>1. T \in SUBSET Claim /\ IsFiniteSet(T) /\ T # {}
    BY <1>1, <1>2, <1>3, FS_Subset
  <2>2. /\ IsFiniteSet(ClientTotals(T)) /\ TotalOf(ClientTotals(T)) = Total(T)
        /\ \A t \in ClientTotals(T) : t.total \in Nat
        /\ ClientTotals(T) # {}
    BY <2>1, ClientTotalsAre
  <2>3. Total(T) \in Nat /\ Total(T) >= 1
    BY <2>1, TotalOfClaims, TotalPositive
  <2>4. rec[p] = WeeklyRow(p, ClientTotals(T), RateIn(p)) /\ f[p] = Total(T)
    BY <1>6
  <2>5. RateIn(p) \in 0..100
    <3>1. p \in Providers /\ Rate[p] \in 0..100 \cup {NoRate}
      BY <1>1, <1>6, FilPlusAssumption
    <3>2. QED
      BY <3>1 DEF RateIn
  <2> HIDE DEF rec, f, T
  <2>6. QED
    BY <2>2, <2>3, <2>4, <2>5, WeeklyRowIs
<1> HIDE DEF rec
<1>7. Total(S) = SumOver(names, f)
  <2>1. OfKeys(S, key, names) = S
    BY <1>4 DEF OfKeys
  <2>2. \A p \in names : f[p] = Total(Fibre(S, key, p))
    BY <1>2
  <2> HIDE DEF f, key, names, S
  <2>3. QED
    BY <1>1, <2>1, <2>2, TotalByKey
<1> HIDE DEF f, names, S
<1>8. TableOf(Image(names, rec), names, Total(S))
  BY <1>1, <1>6, <1>7, RowsMakeTable
<1>9. \A row \in Image(names, rec) : row.rate \in 0..100
  BY <1>6 DEF Image
<1>10. QED
  BY <1>5, <1>8, <1>9 DEF names, S

\* The allocators of a week, and what they allocated.
LEMMA AllocatorsTable ==
  ASSUME FilPlusTypeOK, NEW week
  PROVE  TableOf(AllocatorsWeeklyAcc(week), WeekAllocators(week), Received(AllocationsUpTo(week)))
<1> DEFINE names == WeekAllocators(week)
           S == AllocationsUpTo(week)
           key == [x \in S |-> x.allocator]
           f == [a \in names |-> Received(AllocatedBy(a, week))]
           rec == [a \in names |-> WeeklyRow(a, AllocationTotals(AllocatedBy(a, week)), NoRate)]
<1>1. S \in SUBSET allocations /\ IsFiniteSet(S) /\ IsFiniteSet(names)
  BY WeekIs
<1>2. \A a : AllocatedBy(a, week) = Fibre(S, key, a) /\ AllocatedBy(a, week) \in SUBSET S
  BY DEF AllocatedBy, Fibre
<1>3. \A a \in names : AllocatedBy(a, week) # {}
  BY DEF WeekAllocators, AllocatedBy
<1>4. \A x \in S : key[x] \in names
  BY DEF WeekAllocators
<1>5. AllocatorsWeeklyAcc(week) = Image(names, rec)
  <2>1. Image(names, rec) = {WeeklyRow(a, AllocationTotals(AllocatedBy(a, week)), NoRate) : a \in names}
    BY DEF Image
  <2>2. QED
    BY <2>1, Zenon DEF AllocatorsWeeklyAcc, WeekAllocators
<1>6. ASSUME NEW a \in names
      PROVE  /\ rec[a].name = a /\ rec[a].total = f[a] /\ f[a] \in Nat /\ f[a] >= 1
             /\ rec[a].num \in Nat /\ rec[a].biggest \in Nat
  <2> DEFINE T == AllocatedBy(a, week)
  <2>1. T \in SUBSET allocations /\ T # {}
    BY <1>1, <1>2, <1>3
  <2>2. /\ IsFiniteSet(AllocationTotals(T)) /\ TotalOf(AllocationTotals(T)) = Received(T)
        /\ \A t \in AllocationTotals(T) : t.total \in Nat
        /\ AllocationTotals(T) # {}
    BY <2>1, AllocationTotalsAre
  <2>3. Received(T) \in Nat /\ Received(T) >= 1
    <3>1. Received(T) \in Nat /\ Received(T) = Allowance * Cardinality(T) /\ Cardinality(T) \in Nat /\ IsFiniteSet(T)
      BY <2>1, AllocationsAre
    <3>2. Cardinality(T) # 0
      BY <2>1, <3>1, FS_EmptySet
    <3>3. Allowance \in Nat /\ Allowance >= 1
      BY FilPlusAssumption
    <3> HIDE DEF T
    <3>4. Allowance * 1 <= Allowance * Cardinality(T)
      BY <3>1, <3>2, <3>3, TimesOrdered
    <3>5. QED
      BY <3>1, <3>3, <3>4
  <2>4. rec[a] = WeeklyRow(a, AllocationTotals(T), NoRate) /\ f[a] = Received(T)
    BY <1>6
  <2> HIDE DEF rec, f, T
  <2>5. QED
    BY <2>2, <2>3, <2>4, WeeklyRowIs
<1> HIDE DEF rec
<1>7. Received(S) = SumOver(names, f)
  <2>1. OfKeys(S, key, names) = S
    BY <1>4 DEF OfKeys
  <2>2. \A a \in names : f[a] = Received(Fibre(S, key, a))
    BY <1>2
  <2> HIDE DEF f, key, names, S
  <2>3. QED
    BY <1>1, <2>1, <2>2, ReceivedByKey
<1> HIDE DEF f, names, S
<1>8. TableOf(Image(names, rec), names, Received(S))
  BY <1>1, <1>6, <1>7, RowsMakeTable
<1>9. QED
  BY <1>5, <1>8 DEF names, S

-----------------------------------------------------------------------------
(* The compliance of a week *)

\* What several sets cover is no more than they have together.
LEMMA CoverSize ==
  ASSUME NEW T, IsFiniteSet(T), NEW K, IsFiniteSet(K), NEW U, NEW size,
         \A k \in K : IsFiniteSet(U[k]) /\ size[k] = Cardinality(U[k]),
         \A t \in T : \E k \in K : t \in U[k]
  PROVE  Cardinality(T) <= SumOver(K, size)
<1> DEFINE key == [t \in T |-> CHOOSE k \in K : t \in U[k]]
           one == [t \in T |-> 1]
<1>1. \A t \in T : key[t] \in K /\ t \in U[key[t]]
  OBVIOUS
<1>2. \A t \in T : one[t] = 1 /\ one[t] \in Int
  OBVIOUS
<1>3. OfKeys(T, key, K) = T
  BY <1>1 DEF OfKeys
<1> HIDE DEF key, one
<1>4. SumOver(T, one) = SumOver(K, FibreSums(T, key, one, K))
  BY <1>2, <1>3, SumByKey
<1>5. SumOver(T, one) = Cardinality(T)
  <2>1. SumOver(T, one) = 1 * Cardinality(T)
    BY <1>2, SumConstant
  <2>2. Cardinality(T) \in Nat
    BY FS_CardinalityType
  <2>3. QED
    BY <2>1, <2>2
<1>6. ASSUME NEW k \in K
      PROVE  /\ FibreSums(T, key, one, K)[k] \in Int /\ size[k] \in Int
             /\ FibreSums(T, key, one, K)[k] <= size[k]
  <2>1. Fibre(T, key, k) \subseteq T /\ Fibre(T, key, k) \subseteq U[k]
    BY <1>1 DEF Fibre
  <2>2. IsFiniteSet(Fibre(T, key, k)) /\ Cardinality(Fibre(T, key, k)) <= Cardinality(U[k])
    BY <2>1, FS_Subset
  <2>3. Cardinality(Fibre(T, key, k)) \in Nat /\ Cardinality(U[k]) \in Nat
    BY <2>2, FS_CardinalityType
  <2>4. SumOver(Fibre(T, key, k), one) = 1 * Cardinality(Fibre(T, key, k))
    BY <1>2, <2>1, <2>2, SumConstant
  <2>5. FibreSums(T, key, one, K)[k] = SumOver(Fibre(T, key, k), one)
    BY DEF FibreSums
  <2>6. QED
    BY <2>2, <2>3, <2>4, <2>5
<1>7. SumOver(K, FibreSums(T, key, one, K)) <= SumOver(K, size)
  BY <1>6, SumCompare
<1>8. QED
  BY <1>4, <1>5, <1>7

\* The totals of some rows are a sum over all their totals.
LEMMA TotalOfPart ==
  ASSUME NEW S, IsFiniteSet(S), \A x \in S : x.total \in Int, NEW R \in SUBSET S
  PROVE  TotalOf(R) = SumOver(R, TotalOfColumn(S))
<1>1. TotalOf(R) = SumOver(R, TotalOfColumn(R))
  BY TotalOfIs
<1>2. \A x \in R : TotalOfColumn(R)[x] \in Int /\ TotalOfColumn(R)[x] = TotalOfColumn(S)[x]
  BY DEF TotalOfColumn
<1>3. IsFiniteSet(R)
  BY FS_Subset
<1>4. QED
  BY <1>1, <1>2, <1>3, SumEqual

\* The verdicts share out what has them.
LEMMA ScoresShareOut ==
  ASSUME NEW C, IsFiniteSet(C), \A x \in C : x.score \in Scores /\ x.total \in Int
  PROVE  /\ SumByScore(Sps(C)) = Cardinality(C)
         /\ SumByScore(Datacap(C)) = TotalOf(C)
         /\ \A score \in Scores : Sps(C)[score] \in Nat
<1> DEFINE A == ComplianceProviders(C, "compliant")
           B == ComplianceProviders(C, "partiallyCompliant")
           D == ComplianceProviders(C, "nonCompliant")
           col == TotalOfColumn(C)
<1>1. /\ C = A \cup B \cup D /\ A \cap B = {} /\ A \cap D = {} /\ B \cap D = {}
      /\ A \in SUBSET C /\ B \in SUBSET C /\ D \in SUBSET C
  BY DEF ComplianceProviders, Scores
<1>2. IsFiniteSet(A) /\ IsFiniteSet(B) /\ IsFiniteSet(D) /\ IsFiniteSet(A \cup B)
  BY <1>1, FS_Subset
<1>3. SumByScore(Sps(C)) = Cardinality(A) + Cardinality(B) + Cardinality(D)
  BY DEF SumByScore, Sps, Scores
<1>4. SumByScore(Datacap(C)) = TotalOf(A) + TotalOf(B) + TotalOf(D)
  BY DEF SumByScore, Datacap, Scores
<1>5. \A score \in Scores : Sps(C)[score] \in Nat
  <2> SUFFICES ASSUME NEW score \in Scores PROVE Sps(C)[score] \in Nat
    OBVIOUS
  <2>1. ComplianceProviders(C, score) \subseteq C
    BY DEF ComplianceProviders
  <2>2. QED
    BY <2>1, FS_Subset, FS_CardinalityType DEF Sps
<1>6. \A x \in C : col[x] \in Int
  BY DEF TotalOfColumn
<1> HIDE DEF A, B, D, col
<1>7. Cardinality(A) + Cardinality(B) + Cardinality(D) = Cardinality(C)
  BY <1>1, ThreeParts
<1>8. TotalOf(A) = SumOver(A, col) /\ TotalOf(B) = SumOver(B, col) /\ TotalOf(D) = SumOver(D, col)
  BY <1>1, TotalOfPart DEF col
<1>9. TotalOf(C) = SumOver(C, col)
  BY TotalOfIs DEF col
<1>10. SumOver(A \cup B, col) = SumOver(A, col) + SumOver(B, col)
  BY <1>1, <1>2, <1>6, SumUnion
<1>11. SumOver(C, col) = SumOver(A \cup B, col) + SumOver(D, col)
  <2>1. (A \cup B) \cap D = {} /\ (A \cup B) \cup D = C
    BY <1>1
  <2>2. \A x \in (A \cup B) \cup D : col[x] \in Int
    BY <2>1, <1>6
  <2>3. SumOver((A \cup B) \cup D, col) = SumOver(A \cup B, col) + SumOver(D, col)
    BY <1>2, <2>1, <2>2, SumUnion
  <2>4. QED
    BY <2>1, <2>3
<1>12. QED
  BY <1>3, <1>4, <1>5, <1>7, <1>8, <1>9, <1>10, <1>11

\* Every provider of a week has one verdict, and with them what was claimed.
LEMMA ComplianceIs ==
  ASSUME FilPlusTypeOK, NEW week, NEW metrics
  PROVE  LET C == WeekProvidersCompliance(week, metrics)
         IN  /\ IsFiniteSet(C) /\ Cardinality(C) = Cardinality(WeekProviders(week))
             /\ \A x \in C : x.score \in Scores /\ x.total \in Int /\ x.provider \in WeekProviders(week)
             /\ \A x, y \in C : x.provider = y.provider => x = y
             /\ \A p \in WeekProviders(week) : \E x \in C : x.provider = p
             /\ TotalOf(C) = Total(ClaimsUpTo(week))
<1> DEFINE rows == ProvidersWeeklyAcc(week)
           average == GetWeekAverageProviderRetrievability(rows, TRUE)
           score == [row \in rows |-> CalculateProviderComplianceScore(row, average, metrics)]
           rec == [row \in rows |-> [provider |-> row.name, total |-> row.total, score |-> score[row]]]
           f == TotalOfColumn(rows)
           C == WeekProvidersCompliance(week, metrics)
<1>1. TableOf(rows, WeekProviders(week), Total(ClaimsUpTo(week)))
  BY ProvidersTable
<1>2. C = Image(rows, rec)
  <2>1. C = {[provider |-> row.name, total |-> row.total,
              score |-> CalculateProviderComplianceScore(row, average, metrics)] : row \in rows}
    BY DEF WeekProvidersCompliance, ProvidersCompliance, ProvidersScored
  <2> HIDE DEF C, average, rows
  <2>2. QED
    BY <2>1 DEF Image
<1>3. \A row \in rows : score[row] \in Scores
  BY DEF CalculateProviderComplianceScore, Scores
<1>4. \A row \in rows : /\ rec[row].provider = row.name /\ rec[row].total = row.total
                        /\ rec[row].score = score[row] /\ f[row] = row.total
  BY DEF TotalOfColumn
<1>5. TotalOf(rows) = SumOver(rows, f)
  BY TotalOfIs
<1> HIDE DEF rows, average, score, rec, f, C
<1>6. /\ IsFiniteSet(rows) /\ Cardinality(rows) = Cardinality(WeekProviders(week))
      /\ \A r, s \in rows : r.name = s.name => r = s
      /\ \A r \in rows : r.name \in WeekProviders(week) /\ r.total \in Int
      /\ \A x \in WeekProviders(week) : \E r \in rows : r.name = x
      /\ TotalOf(rows) = Total(ClaimsUpTo(week))
  BY <1>1 DEF TableOf
<1>7. \A r, s \in rows : rec[r] = rec[s] => r = s
  BY <1>4, <1>6
<1>8. \A r \in rows : f[r] \in Int /\ rec[r].total = f[r]
  BY <1>4, <1>6
<1>9. /\ IsFiniteSet(Image(rows, rec)) /\ Cardinality(Image(rows, rec)) = Cardinality(rows)
      /\ TotalOf(Image(rows, rec)) = SumOver(rows, f)
  BY <1>6, <1>7, <1>8, TotalOfRecords
<1>10. \A x \in Image(rows, rec) : x.score \in Scores /\ x.total \in Int /\ x.provider \in WeekProviders(week)
  BY <1>3, <1>4, <1>6 DEF Image
<1>11. \A x, y \in Image(rows, rec) : x.provider = y.provider => x = y
  BY <1>4, <1>6 DEF Image
<1>12. \A p \in WeekProviders(week) : \E x \in Image(rows, rec) : x.provider = p
  <2> SUFFICES ASSUME NEW p \in WeekProviders(week) PROVE \E x \in Image(rows, rec) : x.provider = p
    OBVIOUS
  <2>1. PICK r \in rows : r.name = p
    BY <1>6
  <2>2. rec[r] \in Image(rows, rec) /\ rec[r].provider = p
    BY <1>4, <2>1 DEF Image
  <2>3. QED
    BY <2>2
<1>13. QED
  BY <1>2, <1>5, <1>6, <1>9, <1>10, <1>11, <1>12 DEF C

\* Asking for one more metric.
LEMMA OneMoreMetric ==
  ASSUME NEW row, NEW average, NEW m \in ComplianceMetrics, NEW metrics \in SUBSET (ComplianceMetrics \ {m})
  PROVE  Rank(CalculateProviderComplianceScore(row, average, metrics \cup {m}))
           <= Rank(CalculateProviderComplianceScore(row, average, metrics))
<1> DEFINE few == {n \in metrics : ~MeetsMetric(row, average, n)}
           more == {n \in metrics \cup {m} : ~MeetsMetric(row, average, n)}
<1>1. few \subseteq more /\ few # ComplianceMetrics
  OBVIOUS
<1>2. /\ CalculateProviderComplianceScore(row, average, metrics)
           = (IF few = {} THEN "compliant"
              ELSE IF few = ComplianceMetrics THEN "nonCompliant" ELSE "partiallyCompliant")
      /\ CalculateProviderComplianceScore(row, average, metrics \cup {m})
           = (IF more = {} THEN "compliant"
              ELSE IF more = ComplianceMetrics THEN "nonCompliant" ELSE "partiallyCompliant")
  BY DEF CalculateProviderComplianceScore
<1> HIDE DEF few, more
<1>3. QED
  BY <1>1, <1>2 DEF Rank

\* So no score is raised by it.
LEMMA MetricsLower == MetricsOnlyLower
<1> SUFFICES ASSUME NEW w \in GetWeeksTracked, NEW m \in ComplianceMetrics,
                    NEW metrics \in SUBSET (ComplianceMetrics \ {m}),
                    NEW x \in ProvidersCompliance(ProvidersWeeklyAcc(w), metrics \cup {m})
             PROVE  \E y \in ProvidersCompliance(ProvidersWeeklyAcc(w), metrics) :
                      y.provider = x.provider /\ Rank(x.score) <= Rank(y.score)
  BY DEF MetricsOnlyLower
<1> DEFINE rows == ProvidersWeeklyAcc(w)
           average == GetWeekAverageProviderRetrievability(rows, TRUE)
           verdict(row, asked) == [provider |-> row.name, total |-> row.total,
                                   score |-> CalculateProviderComplianceScore(row, average, asked)]
<1>1. \A asked : ProvidersCompliance(rows, asked) = {verdict(row, asked) : row \in rows}
  BY DEF ProvidersCompliance, ProvidersScored
<1> DEFINE all == ProvidersCompliance(rows, metrics \cup {m})
           some == ProvidersCompliance(rows, metrics)
<1>2. all = {verdict(row, metrics \cup {m}) : row \in rows} /\ some = {verdict(row, metrics) : row \in rows}
  BY <1>1
<1> HIDE DEF rows, average, all, some
<1>3. x \in all
  BY DEF all, rows
<1>4. PICK row \in rows : x = verdict(row, metrics \cup {m})
  BY <1>2, <1>3
<1>5. verdict(row, metrics) \in some
  BY <1>2
<1>6. Rank(x.score) <= Rank(verdict(row, metrics).score) /\ verdict(row, metrics).provider = x.provider
  BY <1>4, OneMoreMetric
<1>7. QED
  BY <1>5, <1>6 DEF some, rows

-----------------------------------------------------------------------------
(* The allocators of a week, by the providers of their clients *)

\* A week is over later than those before it.
LEMMA WeeksInOrder ==
  ASSUME NEW a \in Nat, NEW b \in Nat, a <= b
  PROVE  Week(a) \in Nat /\ Week(b) \in Nat /\ Week(a) <= Week(b)
<1>1. DaysPerWeek \in Nat /\ DaysPerWeek >= 1
  BY FilPlusAssumption
<1>2. QED
  BY <1>1, WindowsInOrder DEF Week

\* The providers an allocator's clients use are among those of the week, and every one of
\* the week is used by the clients of some allocator of the week.
LEMMA UsedAre ==
  ASSUME StatisticsInv, NEW week \in Nat
  PROVE  /\ \A a : /\ ProvidersUsed(a, week) \subseteq WeekProviders(week)
                   /\ IsFiniteSet(ProvidersUsed(a, week))
         /\ \A p \in WeekProviders(week) : \E a \in WeekAllocators(week) : p \in ProvidersUsed(a, week)
<1>0. FilPlusTypeOK
  BY DEF StatisticsInv, FilPlusInv
<1>1. \A a : ProvidersUsed(a, week) \subseteq WeekProviders(week)
  BY DEF ProvidersUsed, WeekProviders
<1>2. \A a : IsFiniteSet(ProvidersUsed(a, week))
  BY <1>0, <1>1, WeekIs, FS_Subset
<1>3. ASSUME NEW p \in WeekProviders(week)
      PROVE  \E a \in WeekAllocators(week) : p \in ProvidersUsed(a, week)
  <2>1. PICK k \in ClaimsUpTo(week) : k.provider = p
    BY DEF WeekProviders
  <2>2. k \in claims /\ Week(k.day) <= week /\ Backed(k)
    BY <2>1 DEF ClaimsUpTo, StatisticsInv
  <2>3. PICK x \in allocations : x.client = k.client /\ x.day <= k.day
    BY <2>2 DEF Backed
  <2>4. x.day \in Nat /\ k.day \in Nat
    BY <1>0, <2>2 DEF FilPlusTypeOK, Allocation, Claim, Days
  <2>5. Week(x.day) \in Nat /\ Week(k.day) \in Nat /\ Week(x.day) <= Week(k.day)
    BY <2>3, <2>4, WeeksInOrder
  <2>6. x \in AllocationsUpTo(week)
    <3>1. Week(x.day) <= week
      BY <2>2, <2>5
    <3>2. QED
      BY <2>3, <3>1 DEF AllocationsUpTo
  <2>7. x.allocator \in WeekAllocators(week) /\ k.client \in ClientsUpTo(x.allocator, week)
    BY <2>3, <2>6 DEF WeekAllocators, ClientsUpTo, AllocatedBy
  <2>8. p \in ProvidersUsed(x.allocator, week)
    BY <2>1, <2>7 DEF ProvidersUsed
  <2>9. QED
    BY <2>7, <2>8
<1>4. QED
  BY <1>1, <1>2, <1>3

VerdictsOf(week, metrics, a) ==
  {x \in WeekProvidersCompliance(week, metrics) : x.provider \in ProvidersUsed(a, week)}

\* The verdicts shared out by an allocator are those of the providers used.
LEMMA VerdictsAre ==
  ASSUME StatisticsInv, NEW week \in Nat, NEW metrics, NEW a
  PROVE  LET C == VerdictsOf(week, metrics, a)
         IN  /\ Cardinality(C) = Cardinality(ProvidersUsed(a, week))
             /\ IsFiniteSet(C) /\ \A x \in C : x.score \in Scores /\ x.total \in Int
<1> DEFINE all == WeekProvidersCompliance(week, metrics)
           used == ProvidersUsed(a, week)
           C == VerdictsOf(week, metrics, a)
           name == [x \in C |-> x.provider]
<1>0. FilPlusTypeOK
  BY DEF StatisticsInv, FilPlusInv
<1>1. used \subseteq WeekProviders(week)
  BY UsedAre
<1>2. C = {x \in all : x.provider \in used}
  BY DEF VerdictsOf
<1>3. /\ IsFiniteSet(all) /\ \A x \in all : x.score \in Scores /\ x.total \in Int
      /\ \A x, y \in all : x.provider = y.provider => x = y
      /\ \A p \in WeekProviders(week) : \E x \in all : x.provider = p
  BY <1>0, ComplianceIs
<1>4. \A x \in C : name[x] = x.provider /\ name[x] \in used
  BY <1>2
<1> HIDE DEF all, used, C
<1>5. IsFiniteSet(C) /\ C \subseteq all
  BY <1>2, <1>3, FS_Subset
<1>6. name \in Bijection(C, used)
  <2>1. name \in Injection(C, used)
    BY <1>3, <1>4, <1>5 DEF Injection, IsInjective
  <2>2. \A p \in used : \E x \in C : name[x] = p
    BY <1>1, <1>2, <1>3, <1>4
  <2> HIDE DEF name
  <2>3. name \in Surjection(C, used)
    BY <2>1, <2>2 DEF Injection, Surjection
  <2>4. QED
    BY <2>1, <2>3 DEF Bijection
<1> HIDE DEF name
<1>7. Cardinality(C) = Cardinality(used)
  BY <1>5, <1>6, FS_Bijection, Zenon DEF ExistsBijection
<1>8. QED
  BY <1>3, <1>5, <1>7 DEF C, used

AllocatorRow(week, metrics, row) ==
  [id |-> row.name, totalDatacap |-> row.total, totalSps |-> Cardinality(ProvidersUsed(row.name, week)),
   sps |-> Sps(VerdictsOf(week, metrics, row.name))]

\* The rows of the allocators of a week.
LEMMA AllocatorRowsAre ==
  ASSUME NEW week, NEW metrics
  PROVE  GetWeekStandardAllocatorSpsCompliance(week, metrics)
           = {AllocatorRow(week, metrics, row) : row \in AllocatorsWeeklyAcc(week)}
  BY DEF GetWeekStandardAllocatorSpsCompliance, AllocatorRow, VerdictsOf

\* A lower threshold lowers no score.
LEMMA ThresholdsInOrder ==
  ASSUME NEW row, row.totalSps \in Nat, row.sps.compliant \in Nat, row.sps.partiallyCompliant \in Nat,
         NEW t \in Nat, NEW u \in Nat, t <= u
  PROVE  RankOf(row, u) <= RankOf(row, t)
<1>1. /\ t * row.totalSps \in Nat /\ u * row.totalSps \in Nat
      /\ t * row.totalSps <= u * row.totalSps
  <2>1. row.totalSps * t <= row.totalSps * u
    BY TimesOrdered
  <2>2. \A x, y \in Nat : x * y = y * x /\ x * y \in Nat
    BY TimesSwaps
  <2>3. QED
    BY <2>1, <2>2
<1> DEFINE enough(sps, n) == row.totalSps # 0 /\ 100 * sps >= n * row.totalSps
           some == row.sps.compliant + row.sps.partiallyCompliant
<1>2. \A n : CalculateAllocatorComplianceScore(row, n)
               = (IF enough(row.sps.compliant, n) THEN "compliant"
                  ELSE IF enough(some, n) THEN "partiallyCompliant" ELSE "nonCompliant")
  BY DEF CalculateAllocatorComplianceScore
<1>3. /\ enough(row.sps.compliant, u) => enough(row.sps.compliant, t)
      /\ enough(some, u) => enough(some, t)
  <2>1. 100 * row.sps.compliant \in Nat /\ 100 * some \in Nat
    OBVIOUS
  <2>2. QED
    BY <1>1, <2>1
<1> HIDE DEF enough, some
<1>4. QED
  BY <1>2, <1>3 DEF RankOf, Rank

\* The allocators of a week have allocated all that was, and together at least as many
\* providers as the week has.
LEMMA AllocatorsAddUp ==
  ASSUME StatisticsInv, NEW week \in Nat, NEW metrics
  PROVE  LET allocators == GetWeekStandardAllocatorSpsCompliance(week, metrics)
         IN  /\ DatacapOf(allocators) = Received(AllocationsUpTo(week))
             /\ SpsOf(allocators) >= Cardinality(WeekProviders(week))
<1> DEFINE rows == AllocatorsWeeklyAcc(week)
           used == [row \in rows |-> ProvidersUsed(row.name, week)]
           size == [row \in rows |-> Cardinality(used[row])]
           f == TotalOfColumn(rows)
           rec == [row \in rows |-> AllocatorRow(week, metrics, row)]
           I == Image(rows, rec)
           spsOf == SpsOfColumn(I)
           datacapOf == DatacapOfColumn(I)
<1>0. FilPlusTypeOK
  BY DEF StatisticsInv, FilPlusInv
<1>1. TableOf(rows, WeekAllocators(week), Received(AllocationsUpTo(week)))
  BY <1>0, AllocatorsTable
<1>2. GetWeekStandardAllocatorSpsCompliance(week, metrics) = I
  BY AllocatorRowsAre DEF Image
<1>3. SpsOf(I) = SumOver(I, spsOf) /\ DatacapOf(I) = SumOver(I, datacapOf) /\ TotalOf(rows) = SumOver(rows, f)
  BY SpsOfIs, DatacapOfIs, TotalOfIs
<1>4. \A row \in rows : /\ rec[row].id = row.name /\ rec[row].totalSps = size[row]
                        /\ rec[row].totalDatacap = f[row] /\ f[row] = row.total
  BY DEF AllocatorRow, TotalOfColumn
<1>5. \A row \in rows : spsOf[rec[row]] = rec[row].totalSps /\ datacapOf[rec[row]] = rec[row].totalDatacap
  BY DEF SpsOfColumn, DatacapOfColumn, Image
<1>6. \A row \in rows : used[row] = ProvidersUsed(row.name, week) /\ size[row] = Cardinality(used[row])
  OBVIOUS
<1> HIDE DEF rows, used, size, f, rec, I, spsOf, datacapOf
<1>7. /\ IsFiniteSet(rows) /\ \A r, s \in rows : r.name = s.name => r = s
      /\ \A r \in rows : r.total \in Int
      /\ \A x \in WeekAllocators(week) : \E r \in rows : r.name = x
      /\ TotalOf(rows) = Received(AllocationsUpTo(week))
  BY <1>1 DEF TableOf
<1>8. \A r, s \in rows : rec[r] = rec[s] => r = s
  BY <1>4, <1>7
<1>9. \A r \in rows : f[r] \in Int /\ datacapOf[rec[r]] = f[r]
  BY <1>4, <1>5, <1>7
<1>10. \A r \in rows : IsFiniteSet(used[r]) /\ size[r] \in Int /\ spsOf[rec[r]] = size[r]
  <2>1. \A r \in rows : IsFiniteSet(used[r])
    BY <1>6, UsedAre
  <2>2. \A r \in rows : Cardinality(used[r]) \in Nat
    BY <2>1, FS_CardinalityType
  <2>3. QED
    BY <1>4, <1>5, <1>6, <2>1, <2>2
<1>11. SumOver(I, datacapOf) = SumOver(rows, f)
  BY <1>7, <1>8, <1>9, SumImage DEF I
<1>12. SumOver(I, spsOf) = SumOver(rows, size)
  BY <1>7, <1>8, <1>10, SumImage DEF I
<1>13. Cardinality(WeekProviders(week)) <= SumOver(rows, size)
  <2>1. \A p \in WeekProviders(week) : \E r \in rows : p \in used[r]
    <3> SUFFICES ASSUME NEW p \in WeekProviders(week) PROVE \E r \in rows : p \in used[r]
      OBVIOUS
    <3>1. PICK a \in WeekAllocators(week) : p \in ProvidersUsed(a, week)
      BY UsedAre
    <3>2. PICK r \in rows : r.name = a
      BY <1>7
    <3>3. QED
      BY <1>6, <3>1, <3>2
  <2>2. IsFiniteSet(WeekProviders(week))
    BY <1>0, WeekIs
  <2>3. \A r \in rows : IsFiniteSet(used[r]) /\ size[r] = Cardinality(used[r])
    BY <1>6, <1>10
  <2>4. QED
    BY <1>7, <2>1, <2>2, <2>3, CoverSize
<1>14. SumOver(rows, size) \in Int /\ Cardinality(WeekProviders(week)) \in Nat
  BY <1>0, <1>7, <1>10, SumType, WeekIs, FS_CardinalityType
<1>15. QED
  BY <1>2, <1>3, <1>7, <1>11, <1>12, <1>13, <1>14

\* The compliance of a week adds up.
LEMMA ComplianceAlwaysAddsUp ==
  ASSUME StatisticsInv, NEW metrics
  PROVE  ComplianceAddsUp(metrics)
<1> SUFFICES ASSUME NEW x \in GetProviderComplianceWeekly(metrics)
             PROVE  LET allocators == GetWeekStandardAllocatorSpsCompliance(x.week, metrics)
                    IN  /\ SumByScore(x.sps) = x.totalSps
                        /\ SumByScore(x.datacap) = Total(ClaimsUpTo(x.week))
                        /\ DatacapOf(allocators) = Received(AllocationsUpTo(x.week))
                        /\ SpsOf(allocators) >= x.totalSps
                        /\ \A row \in allocators :
                             /\ SumByScore(row.sps) = row.totalSps
                             /\ \A t, u \in Thresholds : t <= u => RankOf(row, u) <= RankOf(row, t)
  BY DEF ComplianceAddsUp
<1>0. FilPlusTypeOK /\ today \in Nat
  BY DEF StatisticsInv, FilPlusInv, FilPlusTypeOK, Days
<1>1. PICK w \in WithoutCurrentWeek(GetWeeksTracked) :
        /\ x.week = w /\ x.totalSps = Cardinality(WeekProvidersCompliance(w, metrics))
        /\ x.sps = Sps(WeekProvidersCompliance(w, metrics))
        /\ x.datacap = Datacap(WeekProvidersCompliance(w, metrics))
  BY DEF GetProviderComplianceWeekly
<1>2. w \in Nat
  BY <1>1 DEF WithoutCurrentWeek, GetWeeksTracked
<1> DEFINE C == WeekProvidersCompliance(w, metrics)
           allocators == GetWeekStandardAllocatorSpsCompliance(w, metrics)
<1>3. /\ IsFiniteSet(C) /\ Cardinality(C) = Cardinality(WeekProviders(w))
      /\ \A y \in C : y.score \in Scores /\ y.total \in Int
      /\ TotalOf(C) = Total(ClaimsUpTo(w))
  BY <1>0, ComplianceIs
<1>4. SumByScore(Sps(C)) = Cardinality(C) /\ SumByScore(Datacap(C)) = TotalOf(C)
  <2> HIDE DEF C
  <2>1. QED
    BY <1>3, ScoresShareOut
<1>5. DatacapOf(allocators) = Received(AllocationsUpTo(w)) /\ SpsOf(allocators) >= Cardinality(WeekProviders(w))
  BY <1>2, AllocatorsAddUp
<1>6. ASSUME NEW row \in allocators
      PROVE  /\ SumByScore(row.sps) = row.totalSps
             /\ \A t, u \in Thresholds : t <= u => RankOf(row, u) <= RankOf(row, t)
  <2>1. PICK a : /\ row.totalSps = Cardinality(ProvidersUsed(a, w))
                 /\ row.sps = Sps(VerdictsOf(w, metrics, a))
    BY AllocatorRowsAre DEF AllocatorRow
  <2> DEFINE V == VerdictsOf(w, metrics, a)
  <2>2. /\ Cardinality(V) = Cardinality(ProvidersUsed(a, w)) /\ IsFiniteSet(V)
        /\ \A y \in V : y.score \in Scores /\ y.total \in Int
    BY <1>2, VerdictsAre
  <2>3. SumByScore(Sps(V)) = Cardinality(V) /\ \A score \in Scores : Sps(V)[score] \in Nat
    <3> HIDE DEF V
    <3>1. QED
      BY <2>2, ScoresShareOut
  <2>4. SumByScore(row.sps) = row.totalSps
    BY <2>1, <2>2, <2>3
  <2>5. row.totalSps \in Nat /\ row.sps.compliant \in Nat /\ row.sps.partiallyCompliant \in Nat
    <3>1. Cardinality(V) \in Nat
      BY <2>2, FS_CardinalityType
    <3>2. Sps(V).compliant \in Nat /\ Sps(V).partiallyCompliant \in Nat
      BY <2>3 DEF Scores
    <3>3. QED
      BY <2>1, <2>2, <3>1, <3>2
  <2>6. \A t \in Thresholds : t \in Nat
    BY StatisticsAssumption
  <2>7. \A t, u \in Thresholds : t <= u => RankOf(row, u) <= RankOf(row, t)
    BY <2>5, <2>6, ThresholdsInOrder
  <2>8. QED
    BY <2>4, <2>7
<1>7. QED
  BY <1>1, <1>3, <1>4, <1>5, <1>6

-----------------------------------------------------------------------------
(* Histograms *)

TopsOf(rows, by) == {Top(by, row) : row \in rows}
TopIn(rows, by) == [row \in rows |-> Top(by, row)]
BucketAt(rows, by, top) ==
  [top |-> top, count |-> Cardinality(Fibre(rows, TopIn(rows, by), top)),
   datacap |-> TotalOf(Fibre(rows, TopIn(rows, by), top))]

\* What the query returns of a table, by the tops of its rows.
LEMMA BucketsImage ==
  ASSUME NEW rows, NEW by
  PROVE  /\ Buckets(rows, by) = {BucketAt(rows, by, t) : t \in TopsOf(rows, by)}
         /\ TopsOf(rows, by) = {TopIn(rows, by)[row] : row \in rows}
         /\ Tops(Buckets(rows, by)) = TopsOf(rows, by)
<1>1. \A t : {row \in rows : Top(by, row) = t} = Fibre(rows, TopIn(rows, by), t)
  BY DEF Fibre, TopIn
<1>2. Buckets(rows, by) = {BucketAt(rows, by, t) : t \in TopsOf(rows, by)}
  <2>1. Buckets(rows, by)
          = {[top |-> t, count |-> Cardinality({row \in rows : Top(by, row) = t}),
              datacap |-> TotalOf({row \in rows : Top(by, row) = t})] : t \in TopsOf(rows, by)}
    BY DEF Buckets, TopsOf
  <2>2. QED
    BY <1>1, <2>1 DEF BucketAt
<1>3. TopsOf(rows, by) = {TopIn(rows, by)[row] : row \in rows}
  BY DEF TopsOf, TopIn
<1>4. \A t : BucketAt(rows, by, t).top = t
  BY DEF BucketAt
<1>5. Tops(Buckets(rows, by)) = TopsOf(rows, by)
  BY <1>2, <1>4 DEF Tops
<1>6. QED
  BY <1>2, <1>3, <1>5

\* The buckets that are not empty hold each row once.
LEMMA BucketsAre ==
  ASSUME NEW rows, IsFiniteSet(rows), NEW by, \A row \in rows : row.total \in Int
  PROVE  LET B == Buckets(rows, by)
         IN  /\ IsFiniteSet(B) /\ \A b \in B : b.count \in Int /\ b.datacap \in Int
             /\ \A b, c \in B : b.top = c.top => b = c
             /\ CountOf(B) = Cardinality(rows) /\ DatacapIn(B) = TotalOf(rows)
<1> DEFINE K == TopsOf(rows, by)
           key == TopIn(rows, by)
           rec == [t \in K |-> BucketAt(rows, by, t)]
           one == [row \in rows |-> 1]
           col == TotalOfColumn(rows)
           counts == FibreSums(rows, key, one, K)
           datacaps == FibreSums(rows, key, col, K)
           I == Image(K, rec)
           countIn == CountOfColumn(I)
           datacapIn == DatacapInColumn(I)
<1>1. Buckets(rows, by) = I /\ K = {key[row] : row \in rows}
  BY BucketsImage DEF Image
<1>2. /\ \A row \in rows : one[row] = 1 /\ one[row] \in Int /\ col[row] = row.total /\ col[row] \in Int
      /\ \A row \in rows : key[row] \in K
  BY <1>1 DEF TotalOfColumn
<1>3. \A t \in K : /\ rec[t].top = t /\ rec[t].count = Cardinality(Fibre(rows, key, t))
                   /\ rec[t].datacap = TotalOf(Fibre(rows, key, t))
                   /\ counts[t] = SumOver(Fibre(rows, key, t), one)
                   /\ datacaps[t] = SumOver(Fibre(rows, key, t), col)
  BY DEF BucketAt, FibreSums
<1>4. \A t \in K : countIn[rec[t]] = rec[t].count /\ datacapIn[rec[t]] = rec[t].datacap
  BY DEF CountOfColumn, DatacapInColumn, Image
<1>5. /\ CountOf(I) = SumOver(I, countIn) /\ DatacapIn(I) = SumOver(I, datacapIn)
      /\ TotalOf(rows) = SumOver(rows, col)
  BY CountOfIs, DatacapInIs, TotalOfIs
<1> HIDE DEF K, key, rec, one, counts, datacaps, I, countIn, datacapIn
<1>6. \A t : Fibre(rows, key, t) \in SUBSET rows /\ IsFiniteSet(Fibre(rows, key, t))
  BY FS_Subset DEF Fibre
<1>7. \A t \in K : counts[t] \in Int /\ counts[t] = rec[t].count
  <2> SUFFICES ASSUME NEW t \in K PROVE counts[t] \in Int /\ counts[t] = rec[t].count
    OBVIOUS
  <2>1. SumOver(Fibre(rows, key, t), one) = 1 * Cardinality(Fibre(rows, key, t))
    BY <1>2, <1>6, SumConstant
  <2>2. Cardinality(Fibre(rows, key, t)) \in Nat
    BY <1>6, FS_CardinalityType
  <2>3. QED
    BY <1>3, <2>1, <2>2
<1>8. \A t \in K : datacaps[t] \in Int /\ datacaps[t] = rec[t].datacap
  <2> SUFFICES ASSUME NEW t \in K PROVE datacaps[t] \in Int /\ datacaps[t] = rec[t].datacap
    OBVIOUS
  <2>1. SumOver(Fibre(rows, key, t), col) \in Int
    BY <1>2, <1>6, SumType
  <2>2. TotalOf(Fibre(rows, key, t)) = SumOver(Fibre(rows, key, t), col)
    BY <1>6, TotalOfPart DEF col
  <2> HIDE DEF col
  <2>3. QED
    BY <1>3, <2>1, <2>2
<1> HIDE DEF col
<1>9. IsFiniteSet(K)
  BY <1>1, ImageSize
<1>10. \A s, t \in K : rec[s] = rec[t] => s = t
  BY <1>3
<1>11. SumOver(rows, one) = SumOver(K, counts) /\ SumOver(rows, col) = SumOver(K, datacaps)
  <2>1. OfKeys(rows, key, K) = rows
    BY <1>2 DEF OfKeys
  <2>2. SumOver(OfKeys(rows, key, K), one) = SumOver(K, counts)
    BY <1>2, <1>9, SumByKey DEF counts
  <2>3. SumOver(OfKeys(rows, key, K), col) = SumOver(K, datacaps)
    BY <1>2, <1>9, SumByKey DEF datacaps
  <2>4. QED
    BY <2>1, <2>2, <2>3
<1>12. /\ IsFiniteSet(I) /\ SumOver(I, countIn) = SumOver(K, counts)
       /\ SumOver(I, datacapIn) = SumOver(K, datacaps)
  <2>1. \A t \in K : countIn[rec[t]] = counts[t] /\ datacapIn[rec[t]] = datacaps[t]
    BY <1>4, <1>7, <1>8
  <2>2. IsFiniteSet(I) /\ SumOver(I, countIn) = SumOver(K, counts)
    BY <1>7, <1>9, <1>10, <2>1, SumImage DEF I
  <2>3. SumOver(I, datacapIn) = SumOver(K, datacaps)
    BY <1>8, <1>9, <1>10, <2>1, SumImage DEF I
  <2>4. QED
    BY <2>2, <2>3
<1>13. SumOver(rows, one) = Cardinality(rows)
  <2>1. SumOver(rows, one) = 1 * Cardinality(rows) /\ Cardinality(rows) \in Nat
    BY <1>2, SumConstant, FS_CardinalityType
  <2>2. QED
    BY <2>1
<1>14. \A b \in I : b.count \in Int /\ b.datacap \in Int
  BY <1>7, <1>8 DEF I, Image
<1>15. \A b, c \in I : b.top = c.top => b = c
  BY <1>3 DEF I, Image
<1>16. QED
  BY <1>1, <1>5, <1>11, <1>12, <1>13, <1>14, <1>15

\* Empty buckets add nothing.
LEMMA EmptyBucketsAdd ==
  ASSUME NEW B, IsFiniteSet(B), \A b \in B : b.count \in Int /\ b.datacap \in Int,
         NEW M, IsFiniteSet(M), \A b \in M : b.count = 0 /\ b.datacap = 0, B \cap M = {}
  PROVE  CountOf(B \cup M) = CountOf(B) /\ DatacapIn(B \cup M) = DatacapIn(B)
<1> DEFINE all == B \cup M
           count == CountOfColumn(all)
           datacap == DatacapInColumn(all)
           countB == CountOfColumn(B)
           datacapB == DatacapInColumn(B)
<1>1. /\ \A b \in all : count[b] = b.count /\ datacap[b] = b.datacap
      /\ \A b \in B : countB[b] = b.count /\ datacapB[b] = b.datacap
  BY DEF CountOfColumn, DatacapInColumn
<1>2. /\ CountOf(all) = SumOver(all, count) /\ DatacapIn(all) = SumOver(all, datacap)
      /\ CountOf(B) = SumOver(B, countB) /\ DatacapIn(B) = SumOver(B, datacapB)
  BY CountOfIs, DatacapInIs
<1> HIDE DEF count, datacap, countB, datacapB
<1>3. \A b \in B \cup M : count[b] \in Int /\ datacap[b] \in Int
  BY <1>1
<1>4. /\ SumOver(B \cup M, count) = SumOver(B, count) + SumOver(M, count)
      /\ SumOver(B \cup M, datacap) = SumOver(B, datacap) + SumOver(M, datacap)
  BY <1>3, SumUnion
<1>5. \A b \in M : count[b] \in Nat /\ datacap[b] \in Nat /\ count[b] = 0 /\ datacap[b] = 0
  BY <1>1
<1>6. SumOver(M, count) = 0 /\ SumOver(M, datacap) = 0
  BY <1>5, SumNat
<1>7. \A b \in B : /\ count[b] \in Int /\ count[b] = countB[b]
                   /\ datacap[b] \in Int /\ datacap[b] = datacapB[b]
  BY <1>1
<1>8. SumOver(B, count) = SumOver(B, countB) /\ SumOver(B, datacap) = SumOver(B, datacapB)
  BY <1>7, SumEqual
<1>9. SumOver(B, countB) \in Int /\ SumOver(B, datacapB) \in Int
  <2>1. \A b \in B : countB[b] \in Int /\ datacapB[b] \in Int
    BY <1>1
  <2>2. QED
    BY <2>1, SumType
<1>10. QED
  BY <1>2, <1>4, <1>6, <1>8, <1>9

\* Every bucket is so many wide.
Aligned(n, span) == n \in Nat /\ \E q \in Int : n = span * q

\* The buckets that a week lacks.
LEMMA MissingAre ==
  ASSUME NEW B, NEW span \in {1, 5}, NEW top, Aligned(top, span)
  PROVE  LET M == MissingBuckets(B, span, top)
         IN  /\ IsFiniteSet(M) /\ B \cap M = {}
             /\ \A b \in M : b.count = 0 /\ b.datacap = 0 /\ Aligned(b.top, span) /\ b.top \notin Tops(B)
             /\ \A b, c \in M : b.top = c.top => b = c
<1> DEFINE T == {t \in 1..top : (top - t) % span = 0} \ Tops(B)
           rec == [t \in T |-> [top |-> t, count |-> 0, datacap |-> 0]]
           M == MissingBuckets(B, span, top)
<1>1. M = {rec[t] : t \in T}
  BY DEF MissingBuckets
<1>2. T \subseteq 1..top /\ top \in Int
  BY DEF Aligned
<1>3. \A t \in T : /\ rec[t].top = t /\ rec[t].count = 0 /\ rec[t].datacap = 0
                   /\ t \notin Tops(B) /\ t \in Nat /\ (top - t) % span = 0
  BY <1>2
<1> HIDE DEF T, rec, M
<1>4. IsFiniteSet(M)
  <2>1. IsFiniteSet(T)
    <3>1. IsFiniteSet(1..top)
      BY <1>2, FS_Interval
    <3>2. QED
      BY <1>2, <3>1, FS_Subset
  <2>2. QED
    BY <1>1, <2>1, ImageSize
<1>5. \A t \in T : Aligned(t, span)
  <2> SUFFICES ASSUME NEW t \in T PROVE Aligned(t, span)
    OBVIOUS
  <2>1. PICK q \in Int : top = span * q
    BY DEF Aligned
  <2>2. CASE span = 1
    <3>1. t \in Nat /\ t \in Int /\ t = 1 * t
      BY <1>3
    <3>2. QED
      BY <2>2, <3>1 DEF Aligned
  <2>3. CASE span = 5
    <3> DEFINE n == (top - t) \div 5
    <3>1. t \in Nat /\ (top - t) % 5 = 0 /\ top = 5 * q
      BY <1>3, <2>1, <2>3
    <3>2. n \in Int /\ top - t = 5 * n
      BY <1>2, <3>1
    <3>3. t = 5 * (q - n) /\ q - n \in Int
      BY <3>1, <3>2
    <3>4. QED
      BY <2>3, <3>1, <3>3 DEF Aligned
  <2>4. QED
    BY <2>2, <2>3
<1>6. \A b \in M : b.count = 0 /\ b.datacap = 0 /\ Aligned(b.top, span) /\ b.top \notin Tops(B)
  BY <1>1, <1>3, <1>5
<1>7. \A b, c \in M : b.top = c.top => b = c
  BY <1>1, <1>3
<1>8. B \cap M = {}
  BY <1>6 DEF Tops
<1>9. QED
  BY <1>4, <1>6, <1>7, <1>8 DEF M

FlatAt(tables, by, w) == [week |-> w, results |-> Buckets(tables[w], by)]

\* A histogram of tables adds up.
LEMMA HistogramOfTables ==
  ASSUME NEW tables, IsFiniteSet(DOMAIN tables), NEW by, NEW span \in {1, 5}, NEW top \in Nat,
         top = 0 \/ Aligned(top, span), NEW shown,
         \A w \in DOMAIN tables :
           /\ IsFiniteSet(tables[w]) /\ tables[w] # {}
           /\ \A row \in tables[w] : row.total \in Int /\ Aligned(Top(by, row), span)
  PROVE  LET h == GetWeeklyHistogramResult(Flat(tables, by), span, top, shown)
         IN  /\ HistogramAddsUp(h, tables, span)
             /\ \A x \in h : x.week \in DOMAIN tables
<1> DEFINE flat == Flat(tables, by)
           tops == UNION {Tops(y.results) : y \in flat}
           used == IF top = 0 THEN Max(tops) ELSE top
           filled(B) == B \cup MissingBuckets(B, span, used)
           h == GetWeeklyHistogramResult(flat, span, top, shown)
<1>1. h = {[week |-> y.week, total |-> CountOf(y.results), results |-> filled(y.results)]
             : y \in {y \in flat : y.week \in shown}}
  BY DEF GetWeeklyHistogramResult
<1>2. flat = {FlatAt(tables, by, w) : w \in DOMAIN tables}
  BY DEF Flat, FlatAt
<1>3. \A w : FlatAt(tables, by, w).week = w /\ FlatAt(tables, by, w).results = Buckets(tables[w], by)
  BY DEF FlatAt
<1> DEFINE of(w) == TopsOf(tables[w], by)
           each == [w \in DOMAIN tables |-> of(w)]
<1>4. tops = UNION {each[w] : w \in DOMAIN tables}
  <2>1. \A w : Tops(Buckets(tables[w], by)) = of(w)
    BY BucketsImage
  <2>2. {Tops(y.results) : y \in flat} = {Tops(FlatAt(tables, by, w).results) : w \in DOMAIN tables}
    BY <1>2
  <2>3. \A w \in DOMAIN tables : Tops(FlatAt(tables, by, w).results) = each[w]
    BY <1>3, <2>1
  <2>4. {Tops(FlatAt(tables, by, w).results) : w \in DOMAIN tables} = {each[w] : w \in DOMAIN tables}
    BY <2>3
  <2>5. QED
    BY <2>2, <2>4
<1>5. \A w \in DOMAIN tables : \A t \in TopsOf(tables[w], by) : Aligned(t, span)
  BY DEF TopsOf
<1> HIDE DEF flat, tops, h
<1>6. tops \in SUBSET Nat /\ \A t \in tops : Aligned(t, span)
  <2>1. ASSUME NEW t \in tops PROVE Aligned(t, span)
    <3>1. PICK w \in DOMAIN tables : t \in each[w]
      BY <1>4
    <3>2. QED
      BY <1>5, <3>1
  <2>2. QED
    BY <2>1 DEF Aligned
<1>7. IsFiniteSet(tops)
  <2>1. \A w \in DOMAIN tables : IsFiniteSet(each[w])
    <3> SUFFICES ASSUME NEW w \in DOMAIN tables PROVE IsFiniteSet(each[w])
      OBVIOUS
    <3>1. of(w) = {TopIn(tables[w], by)[row] : row \in tables[w]}
      BY BucketsImage
    <3>2. IsFiniteSet({TopIn(tables[w], by)[row] : row \in tables[w]})
      BY ImageSize
    <3>3. QED
      BY <3>1, <3>2
  <2> HIDE DEF each
  <2>2. IsFiniteSet({each[w] : w \in DOMAIN tables})
    BY ImageSize
  <2>3. QED
    BY <1>4, <2>1, <2>2, FS_UNION
<1>8. ASSUME NEW x \in h
      PROVE  /\ x.week \in DOMAIN tables
             /\ \A b, c \in x.results : (b.top - c.top) % span = 0 /\ (b # c => b.top # c.top)
             /\ x.total = Cardinality(tables[x.week])
             /\ CountOf(x.results) = Cardinality(tables[x.week])
             /\ DatacapIn(x.results) = TotalOf(tables[x.week])
  <2>1. PICK y \in flat : x.week = y.week /\ x.total = CountOf(y.results) /\ x.results = filled(y.results)
    BY <1>1
  <2>2. PICK w \in DOMAIN tables : y = FlatAt(tables, by, w)
    BY <1>2
  <2> DEFINE rows == tables[w]
             B == Buckets(rows, by)
             M == MissingBuckets(B, span, used)
  <2>3. x.week = w /\ x.total = CountOf(B) /\ x.results = B \cup M
    BY <1>3, <2>1, <2>2
  <2>4. /\ IsFiniteSet(B) /\ \A b \in B : b.count \in Int /\ b.datacap \in Int
        /\ \A b, c \in B : b.top = c.top => b = c
        /\ CountOf(B) = Cardinality(rows) /\ DatacapIn(B) = TotalOf(rows)
    BY BucketsAre
  <2>5. tops # {}
    <3>1. PICK row \in rows : TRUE
      OBVIOUS
    <3>2. Top(by, row) \in of(w)
      BY DEF TopsOf
    <3>3. QED
      BY <1>4, <3>2
  <2>6. Aligned(used, span)
    BY <1>6, <1>7, <2>5, MaxOfFinite
  <2> HIDE DEF used
  <2>7. /\ IsFiniteSet(M) /\ B \cap M = {}
        /\ \A b \in M : b.count = 0 /\ b.datacap = 0 /\ Aligned(b.top, span) /\ b.top \notin Tops(B)
        /\ \A b, c \in M : b.top = c.top => b = c
    BY <2>6, MissingAre
  <2>8. \A b \in B : b.top \in Tops(B) /\ Aligned(b.top, span)
    <3>1. Tops(B) = TopsOf(rows, by)
      BY BucketsImage
    <3>2. \A b \in B : b.top \in Tops(B)
      BY DEF Tops
    <3>3. QED
      BY <1>5, <3>1, <3>2
  <2> HIDE DEF rows, B, M
  <2>9. \A b, c \in B \cup M : b # c => b.top # c.top
    BY <2>4, <2>7, <2>8
  <2>10. \A b \in B \cup M : Aligned(b.top, span)
    BY <2>7, <2>8
  <2>11. ASSUME NEW b \in B \cup M, NEW c \in B \cup M PROVE (b.top - c.top) % span = 0
    <3>1. PICK q \in Int : b.top = span * q
      BY <2>10 DEF Aligned
    <3>2. PICK r \in Int : c.top = span * r
      BY <2>10 DEF Aligned
    <3>3. span \in Nat /\ span >= 1
      OBVIOUS
    <3>4. (span * q - span * r) % span = 0
      BY <3>3, MultiplesApart
    <3>5. QED
      BY <3>1, <3>2, <3>4
  <2>12. CountOf(B \cup M) = CountOf(B) /\ DatacapIn(B \cup M) = DatacapIn(B)
    BY <2>4, <2>7, EmptyBucketsAdd
  <2>13. QED
    BY <2>3, <2>4, <2>9, <2>11, <2>12 DEF rows
<1> HIDE DEF filled
<1>9. QED
  BY <1>8, Zenon DEF HistogramAddsUp, h, flat

\* Buckets of percents are five wide.
LEMMA BucketIs ==
  ASSUME NEW part \in Nat, NEW whole \in Nat, whole >= 1
  PROVE  Aligned(Bucket(part, whole), 5)
<1> DEFINE a == 20 * part + whole - 1
           q == a \div whole
<1>1. a \in Nat
  OBVIOUS
<1>2. q \in Nat
  <2> HIDE DEF a
  <2>1. QED
    BY <1>1, WindowsInOrder
<1>3. Bucket(part, whole) = 5 * q
  BY DEF Bucket
<1> HIDE DEF q
<1>4. QED
  BY <1>2, <1>3 DEF Aligned

\* The tables of weeks, as histograms are made of them.
LEMMA TablesAre ==
  ASSUME StatisticsInv
  PROVE  /\ IsFiniteSet(GetWeeksTracked) /\ IsFiniteSet(WeeksAllocated)
         /\ DOMAIN ProviderTables = GetWeeksTracked /\ DOMAIN AllocatorTables = WeeksAllocated
         /\ \A w \in GetWeeksTracked :
              /\ TableOf(ProviderTables[w], WeekProviders(w), Total(ClaimsUpTo(w)))
              /\ ProviderTables[w] # {}
              /\ \A row \in ProviderTables[w] : row.rate \in 0..100
         /\ \A w \in WeeksAllocated :
              /\ TableOf(AllocatorTables[w], WeekAllocators(w), Received(AllocationsUpTo(w)))
              /\ AllocatorTables[w] # {}
<1>1. FilPlusTypeOK /\ today \in Nat
  BY DEF StatisticsInv, FilPlusInv, FilPlusTypeOK, Days
<1>2. IsFiniteSet(0..ThisWeek)
  <2>1. ThisWeek \in Nat
    BY <1>1, WeeksInOrder DEF ThisWeek
  <2>2. QED
    BY <2>1, FS_Interval
<1>3. IsFiniteSet(GetWeeksTracked) /\ IsFiniteSet(WeeksAllocated)
  <2>1. GetWeeksTracked \subseteq 0..ThisWeek /\ WeeksAllocated \subseteq 0..ThisWeek
    BY DEF GetWeeksTracked, WeeksAllocated
  <2>2. QED
    BY <1>2, <2>1, FS_Subset
<1>4. /\ DOMAIN ProviderTables = GetWeeksTracked /\ DOMAIN AllocatorTables = WeeksAllocated
      /\ \A w \in GetWeeksTracked : ProviderTables[w] = ProvidersWeeklyAcc(w)
      /\ \A w \in WeeksAllocated : AllocatorTables[w] = AllocatorsWeeklyAcc(w)
  BY DEF ProviderTables, AllocatorTables
<1>5. ASSUME NEW w \in GetWeeksTracked
      PROVE  /\ TableOf(ProviderTables[w], WeekProviders(w), Total(ClaimsUpTo(w)))
             /\ ProviderTables[w] # {}
             /\ \A row \in ProviderTables[w] : row.rate \in 0..100
  <2>1. /\ TableOf(ProvidersWeeklyAcc(w), WeekProviders(w), Total(ClaimsUpTo(w)))
        /\ \A row \in ProvidersWeeklyAcc(w) : row.rate \in 0..100
    BY <1>1, ProvidersTable
  <2>2. WeekProviders(w) # {}
    BY DEF GetWeeksTracked, WeekProviders
  <2>3. ProvidersWeeklyAcc(w) # {}
    BY <2>1, <2>2 DEF TableOf
  <2>4. QED
    BY <1>4, <2>1, <2>3
<1>6. ASSUME NEW w \in WeeksAllocated
      PROVE  /\ TableOf(AllocatorTables[w], WeekAllocators(w), Received(AllocationsUpTo(w)))
             /\ AllocatorTables[w] # {}
  <2>1. TableOf(AllocatorsWeeklyAcc(w), WeekAllocators(w), Received(AllocationsUpTo(w)))
    BY <1>1, AllocatorsTable
  <2>2. WeekAllocators(w) # {}
    BY DEF WeeksAllocated, WeekAllocators
  <2>3. AllocatorsWeeklyAcc(w) # {}
    BY <2>1, <2>2 DEF TableOf
  <2>4. QED
    BY <1>4, <2>1, <2>3
<1>7. QED
  BY <1>3, <1>4, <1>5, <1>6

\* Rows of tables fall into buckets of the right width.
LEMMA TopsAligned ==
  ASSUME NEW rows, NEW names, NEW total, TableOf(rows, names, total), NEW row \in rows
  PROVE  /\ Aligned(Top("number", row), 1) /\ Aligned(Top("biggest", row), 5)
         /\ row.rate \in 0..100 => Aligned(Top("rate", row), 5)
<1>1. row.num \in Nat /\ row.biggest \in Nat /\ row.total \in Nat /\ row.total >= 1
  BY DEF TableOf
<1>2. Top("number", row) = row.num /\ Top("biggest", row) = Bucket(row.biggest, row.total)
  BY DEF Top
<1>3. Top("rate", row) = Bucket(row.rate, 100)
  BY DEF Top
<1>4. Aligned(Top("number", row), 1)
  <2>1. row.num = 1 * row.num /\ row.num \in Int
    BY <1>1
  <2>2. QED
    BY <1>1, <1>2, <2>1 DEF Aligned
<1>5. Aligned(Top("biggest", row), 5)
  BY <1>1, <1>2, BucketIs
<1>6. ASSUME row.rate \in 0..100 PROVE Aligned(Top("rate", row), 5)
  <2>1. row.rate \in Nat
    BY <1>6
  <2>2. QED
    BY <1>3, <2>1, BucketIs
<1>7. QED
  BY <1>4, <1>5, <1>6

\* The widths, and the tops that are given.
LEMMA SpansGiven ==
  /\ 1 \in {1, 5} /\ 5 \in {1, 5} /\ 0 \in Nat /\ 100 \in Nat /\ Aligned(100, 5)
<1>1. 100 = 5 * 20 /\ 100 \in Nat /\ 20 \in Int
  OBVIOUS
<1>2. QED
  BY <1>1 DEF Aligned

\* Histograms of providers add up.
LEMMA ProviderHistograms ==
  ASSUME StatisticsInv
  PROVE  /\ HistogramAddsUp(GetProviderClientsWeekly, ProviderTables, 1)
         /\ HistogramAddsUp(GetProviderBiggestClientDistributionWeekly, ProviderTables, 5)
         /\ HistogramAddsUp(GetProviderRetrievabilityWeekly, ProviderTables, 5)
         /\ \A x \in GetProviderRetrievabilityWeekly : x.week \in GetWeeksTracked
<1> DEFINE tables == ProviderTables
           shown == WithoutCurrentWeek(DOMAIN tables)
<1>1. /\ IsFiniteSet(DOMAIN tables) /\ DOMAIN tables = GetWeeksTracked
      /\ \A w \in DOMAIN tables : /\ TableOf(tables[w], WeekProviders(w), Total(ClaimsUpTo(w)))
                                  /\ tables[w] # {} /\ \A row \in tables[w] : row.rate \in 0..100
  BY TablesAre
<1>2. /\ GetProviderClientsWeekly = GetWeeklyHistogramResult(Flat(tables, "number"), 1, 0, shown)
      /\ GetProviderBiggestClientDistributionWeekly
           = GetWeeklyHistogramResult(Flat(tables, "biggest"), 5, 100, shown)
      /\ GetProviderRetrievabilityWeekly
           = GetWeeklyHistogramResult(Flat(tables, "rate"), 5, 100, GetWeeksTracked)
  BY DEF GetProviderClientsWeekly, GetProviderBiggestClientDistributionWeekly,
         GetProviderRetrievabilityWeekly, Histogram
<1> HIDE DEF tables, shown
<1>3. \A w \in DOMAIN tables :
        /\ IsFiniteSet(tables[w]) /\ tables[w] # {}
        /\ \A row \in tables[w] : /\ row.total \in Int /\ Aligned(Top("number", row), 1)
                                  /\ Aligned(Top("biggest", row), 5) /\ Aligned(Top("rate", row), 5)
  <2> SUFFICES ASSUME NEW w \in DOMAIN tables
               PROVE  /\ IsFiniteSet(tables[w]) /\ tables[w] # {}
                      /\ \A row \in tables[w] : /\ row.total \in Int /\ Aligned(Top("number", row), 1)
                                                /\ Aligned(Top("biggest", row), 5) /\ Aligned(Top("rate", row), 5)
    OBVIOUS
  <2>1. IsFiniteSet(tables[w]) /\ \A row \in tables[w] : row.total \in Int
    BY <1>1 DEF TableOf
  <2>2. QED
    BY <1>1, <2>1, TopsAligned
<1>4. HistogramAddsUp(GetProviderClientsWeekly, tables, 1)
  BY <1>1, <1>2, <1>3, SpansGiven, HistogramOfTables
<1>5. HistogramAddsUp(GetProviderBiggestClientDistributionWeekly, tables, 5)
  BY <1>1, <1>2, <1>3, SpansGiven, HistogramOfTables
<1>6. /\ HistogramAddsUp(GetProviderRetrievabilityWeekly, tables, 5)
      /\ \A x \in GetProviderRetrievabilityWeekly : x.week \in DOMAIN tables
  BY <1>1, <1>2, <1>3, SpansGiven, HistogramOfTables
<1>7. QED
  BY <1>1, <1>4, <1>5, <1>6 DEF tables

\* So does that of the allocators by their clients.
LEMMA AllocatorHistogram ==
  ASSUME StatisticsInv
  PROVE  HistogramAddsUp(GetStandardAllocatorClientsWeekly, AllocatorTables, 1)
<1> DEFINE tables == AllocatorTables
           shown == WithoutCurrentWeek(DOMAIN tables)
<1>1. /\ IsFiniteSet(DOMAIN tables)
      /\ \A w \in DOMAIN tables : /\ TableOf(tables[w], WeekAllocators(w), Received(AllocationsUpTo(w)))
                                  /\ tables[w] # {}
  BY TablesAre
<1>2. GetStandardAllocatorClientsWeekly = GetWeeklyHistogramResult(Flat(tables, "number"), 1, 0, shown)
  BY DEF GetStandardAllocatorClientsWeekly, Histogram
<1> HIDE DEF tables, shown
<1>3. \A w \in DOMAIN tables :
        /\ IsFiniteSet(tables[w]) /\ tables[w] # {}
        /\ \A row \in tables[w] : row.total \in Int /\ Aligned(Top("number", row), 1)
  <2> SUFFICES ASSUME NEW w \in DOMAIN tables
               PROVE  /\ IsFiniteSet(tables[w]) /\ tables[w] # {}
                      /\ \A row \in tables[w] : row.total \in Int /\ Aligned(Top("number", row), 1)
    OBVIOUS
  <2>1. IsFiniteSet(tables[w]) /\ \A row \in tables[w] : row.total \in Int
    BY <1>1 DEF TableOf
  <2>2. QED
    BY <1>1, <2>1, TopsAligned
<1>4. HistogramAddsUp(GetStandardAllocatorClientsWeekly, tables, 1)
  BY <1>1, <1>2, <1>3, SpansGiven, HistogramOfTables
<1>5. QED
  BY <1>4 DEF tables

\* The allocators of a week that a registry has.
ActiveOf(week, e) == {row \in AllocatorsWeeklyAcc(week) : row.name \in RegisteredIn[e]}
EditionRow(row, e) == [edition |-> e, name |-> row.name, biggest |-> row.biggest, total |-> row.total]

\* The rows of an edition are those of its allocators.
LEMMA EditionRowsAre ==
  ASSUME FilPlusTypeOK, NEW w, NEW e
  PROVE  /\ IsFiniteSet(EditionRows(w, e)) /\ Cardinality(EditionRows(w, e)) = Cardinality(ActiveOf(w, e))
         /\ TotalOf(EditionRows(w, e)) = TotalOf(ActiveOf(w, e))
         /\ \A r \in EditionRows(w, e) :
              r.edition = e /\ r.biggest \in Nat /\ r.total \in Nat /\ r.total >= 1
<1> DEFINE K == ActiveOf(w, e)
           rec == [row \in K |-> EditionRow(row, e)]
           f == TotalOfColumn(K)
<1>1. EditionRows(w, e) = Image(K, rec)
  <2>1. EditionRows(w, e) = {EditionRow(row, e) : row \in K}
    BY DEF EditionRows, EditionRow, ActiveOf
  <2>2. Image(K, rec) = {EditionRow(row, e) : row \in K}
    BY DEF Image
  <2>3. QED
    BY <2>1, <2>2
<1>2. TableOf(AllocatorsWeeklyAcc(w), WeekAllocators(w), Received(AllocationsUpTo(w)))
  BY AllocatorsTable
<1>3. /\ IsFiniteSet(AllocatorsWeeklyAcc(w)) /\ K \subseteq AllocatorsWeeklyAcc(w)
      /\ \A r, s \in K : r.name = s.name => r = s
      /\ \A r \in K : r.biggest \in Nat /\ r.total \in Nat /\ r.total >= 1
  BY <1>2 DEF TableOf, ActiveOf
<1>4. \A r \in K : /\ rec[r].edition = e /\ rec[r].name = r.name /\ rec[r].biggest = r.biggest
                   /\ rec[r].total = r.total /\ f[r] = r.total
  BY DEF EditionRow, TotalOfColumn
<1>5. TotalOf(K) = SumOver(K, f)
  BY TotalOfIs
<1> HIDE DEF K, rec, f
<1>6. IsFiniteSet(K)
  BY <1>3, FS_Subset
<1>7. \A r, s \in K : rec[r] = rec[s] => r = s
  BY <1>3, <1>4
<1>8. \A r \in K : f[r] \in Int /\ rec[r].total = f[r]
  BY <1>3, <1>4
<1>9. /\ IsFiniteSet(Image(K, rec)) /\ Cardinality(Image(K, rec)) = Cardinality(K)
      /\ TotalOf(Image(K, rec)) = SumOver(K, f)
  BY <1>6, <1>7, <1>8, TotalOfRecords
<1>10. \A r \in Image(K, rec) : r.edition = e /\ r.biggest \in Nat /\ r.total \in Nat /\ r.total >= 1
  BY <1>3, <1>4 DEF Image
<1>11. QED
  BY <1>1, <1>5, <1>9, <1>10 DEF K

\* A week has the rows of both editions, which have none in common.
LEMMA ActiveRowsAre ==
  ASSUME FilPlusTypeOK, NEW w
  PROVE  /\ IsFiniteSet(ActiveRows(w))
         /\ Cardinality(ActiveRows(w)) = Cardinality(ActiveOf(w, 5)) + Cardinality(ActiveOf(w, 6))
         /\ TotalOf(ActiveRows(w)) = TotalOf(ActiveOf(w, 5)) + TotalOf(ActiveOf(w, 6))
         /\ \A r \in ActiveRows(w) : r.total \in Int /\ Aligned(Top("biggest", r), 5)
<1> DEFINE A == EditionRows(w, 5)
           B == EditionRows(w, 6)
           col == TotalOfColumn(A \cup B)
<1>1. ActiveRows(w) = A \cup B
  <2>1. {EditionRows(w, e) : e \in {5, 6}} = {EditionRows(w, 5), EditionRows(w, 6)}
    OBVIOUS
  <2>2. UNION {EditionRows(w, 5), EditionRows(w, 6)} = EditionRows(w, 5) \cup EditionRows(w, 6)
    OBVIOUS
  <2>3. QED
    BY <2>1, <2>2 DEF ActiveRows, Editions
<1>2. /\ IsFiniteSet(A) /\ Cardinality(A) = Cardinality(ActiveOf(w, 5)) /\ TotalOf(A) = TotalOf(ActiveOf(w, 5))
      /\ \A r \in A : r.edition = 5 /\ r.biggest \in Nat /\ r.total \in Nat /\ r.total >= 1
  BY EditionRowsAre
<1>3. /\ IsFiniteSet(B) /\ Cardinality(B) = Cardinality(ActiveOf(w, 6)) /\ TotalOf(B) = TotalOf(ActiveOf(w, 6))
      /\ \A r \in B : r.edition = 6 /\ r.biggest \in Nat /\ r.total \in Nat /\ r.total >= 1
  BY EditionRowsAre
<1> HIDE DEF A, B
<1>4. A \cap B = {}
  BY <1>2, <1>3
<1>5. /\ IsFiniteSet(A \cup B)
      /\ Cardinality(A \cup B) = Cardinality(A) + Cardinality(B)
  <2>1. IsFiniteSet(A \cup B) /\ Cardinality(A \cup B) = Cardinality(A) + Cardinality(B) - Cardinality(A \cap B)
    BY <1>2, <1>3, FS_Union
  <2>2. Cardinality(A) \in Nat /\ Cardinality(B) \in Nat /\ Cardinality(A \cap B) = 0
    BY <1>2, <1>3, <1>4, FS_CardinalityType, FS_EmptySet
  <2>3. QED
    BY <2>1, <2>2
<1>6. \A r \in A \cup B : r.total \in Int /\ col[r] = r.total
  BY <1>2, <1>3 DEF TotalOfColumn
<1>7. /\ TotalOf(A) = SumOver(A, col) /\ TotalOf(B) = SumOver(B, col)
      /\ TotalOf(A \cup B) = SumOver(A \cup B, col)
  BY <1>5, <1>6, TotalOfPart, TotalOfIs
<1> HIDE DEF col
<1>8. TotalOf(A \cup B) = TotalOf(A) + TotalOf(B)
  BY <1>2, <1>3, <1>4, <1>6, <1>7, SumUnion
<1>9. ASSUME NEW r \in A \cup B PROVE Aligned(Top("biggest", r), 5)
  <2>1. r.biggest \in Nat /\ r.total \in Nat /\ r.total >= 1
    BY <1>2, <1>3
  <2>2. Top("biggest", r) = Bucket(r.biggest, r.total)
    BY DEF Top
  <2>3. QED
    BY <2>1, <2>2, BucketIs
<1>10. QED
  BY <1>1, <1>2, <1>3, <1>5, <1>6, <1>8, <1>9

\* The histogram of the registered holds each of them once for each registry.
LEMMA RegisteredHistogram ==
  ASSUME StatisticsInv
  PROVE  /\ HistogramAddsUp(GetStandardAllocatorBiggestClientDistributionWeekly, ActiveTables, 5)
         /\ RegistriesAddUp
<1> DEFINE tables == ActiveTables
           shown == WithoutCurrentWeek(DOMAIN tables)
           histogram == GetStandardAllocatorBiggestClientDistributionWeekly
<1>1. FilPlusTypeOK /\ IsFiniteSet(WeeksAllocated)
  BY TablesAre DEF StatisticsInv, FilPlusInv
<1>2. /\ DOMAIN tables \subseteq WeeksAllocated
      /\ \A w \in DOMAIN tables : tables[w] = ActiveRows(w) /\ tables[w] # {}
  BY DEF ActiveTables
<1>3. histogram = GetWeeklyHistogramResult(Flat(tables, "biggest"), 5, 100, shown)
  BY DEF GetStandardAllocatorBiggestClientDistributionWeekly, Histogram
<1> HIDE DEF tables, shown, histogram
<1>4. IsFiniteSet(DOMAIN tables)
  BY <1>1, <1>2, FS_Subset
<1>5. \A w \in DOMAIN tables :
        /\ IsFiniteSet(tables[w]) /\ tables[w] # {}
        /\ \A row \in tables[w] : row.total \in Int /\ Aligned(Top("biggest", row), 5)
  BY <1>1, <1>2, ActiveRowsAre
<1>6. HistogramAddsUp(histogram, tables, 5) /\ \A x \in histogram : x.week \in DOMAIN tables
  BY <1>3, <1>4, <1>5, SpansGiven, HistogramOfTables
<1>7. ASSUME NEW x \in histogram
      PROVE  /\ x.total = Cardinality(ActiveOf(x.week, 5)) + Cardinality(ActiveOf(x.week, 6))
             /\ DatacapIn(x.results) = TotalOf(ActiveOf(x.week, 5)) + TotalOf(ActiveOf(x.week, 6))
  <2>1. tables[x.week] = ActiveRows(x.week)
    BY <1>2, <1>6
  <2>2. x.total = Cardinality(tables[x.week]) /\ DatacapIn(x.results) = TotalOf(tables[x.week])
    BY <1>6 DEF HistogramAddsUp
  <2>3. QED
    BY <1>1, <2>1, <2>2, ActiveRowsAre
<1>8. RegistriesAddUp
  BY <1>7, Zenon DEF RegistriesAddUp, ActiveOf, histogram
<1>9. QED
  BY <1>6, <1>8 DEF tables, histogram

NamesOf(rows) == {row.name : row \in rows}

\* No week has more providers than there are in all.
LEMMA ProvidersCounted ==
  ASSUME StatisticsInv, NEW w \in GetWeeksTracked
  PROVE  Cardinality(ProviderTables[w]) <= GetProviderCount
<1> DEFINE named == [v \in GetWeeksTracked |-> NamesOf(ProvidersWeeklyAcc(v))]
           all == UNION {named[v] : v \in GetWeeksTracked}
<1>1. GetProviderCount = Cardinality(all)
  <2>1. {NamesOf(ProvidersWeeklyAcc(v)) : v \in GetWeeksTracked} = {named[v] : v \in GetWeeksTracked}
    OBVIOUS
  <2>2. GetProviderCount = Cardinality(UNION {NamesOf(ProvidersWeeklyAcc(v)) : v \in GetWeeksTracked})
    BY DEF GetProviderCount, NamesOf
  <2>3. QED
    BY <2>1, <2>2
<1>2. \A v \in GetWeeksTracked :
        /\ named[v] = WeekProviders(v) /\ IsFiniteSet(WeekProviders(v))
        /\ Cardinality(ProviderTables[v]) = Cardinality(WeekProviders(v))
  <2> SUFFICES ASSUME NEW v \in GetWeeksTracked
               PROVE  /\ named[v] = WeekProviders(v) /\ IsFiniteSet(WeekProviders(v))
                      /\ Cardinality(ProviderTables[v]) = Cardinality(WeekProviders(v))
    OBVIOUS
  <2> DEFINE rows == ProvidersWeeklyAcc(v)
  <2>1. TableOf(ProviderTables[v], WeekProviders(v), Total(ClaimsUpTo(v))) /\ ProviderTables[v] = rows
    BY TablesAre DEF ProviderTables
  <2>2. named[v] = NamesOf(rows)
    OBVIOUS
  <2> HIDE DEF rows, named
  <2>3. /\ IsFiniteSet(WeekProviders(v)) /\ Cardinality(rows) = Cardinality(WeekProviders(v))
        /\ \A r \in rows : r.name \in WeekProviders(v)
        /\ \A p \in WeekProviders(v) : \E r \in rows : r.name = p
    BY <2>1 DEF TableOf
  <2>4. NamesOf(rows) = WeekProviders(v)
    BY <2>3 DEF NamesOf
  <2>5. QED
    BY <2>1, <2>2, <2>3, <2>4
<1> HIDE DEF named
<1>3. IsFiniteSet(all)
  <2>1. IsFiniteSet(GetWeeksTracked)
    BY TablesAre
  <2>2. IsFiniteSet({named[v] : v \in GetWeeksTracked})
    BY <2>1, ImageSize
  <2>3. \A T \in {named[v] : v \in GetWeeksTracked} : IsFiniteSet(T)
    BY <1>2
  <2>4. QED
    BY <2>2, <2>3, FS_UNION
<1>4. WeekProviders(w) \subseteq all
  BY <1>2
<1>5. QED
  BY <1>1, <1>2, <1>3, <1>4, FS_Subset

\* Whatever was allocated and claimed, the weekly views add up to it.
THEOREM WeeklyViewsAlwaysAddUp == FilPlusSpec => []WeeklyViewsAddUp
<1>1. ASSUME StatisticsInv PROVE WeeklyViewsAddUp
  <2> USE <1>1
  <2>1. \A metrics \in SUBSET ComplianceMetrics : ComplianceAddsUp(metrics)
    BY ComplianceAlwaysAddsUp
  <2>2. \A x \in GetProviderRetrievabilityWeekly : x.total <= GetProviderCount
    <3> SUFFICES ASSUME NEW x \in GetProviderRetrievabilityWeekly PROVE x.total <= GetProviderCount
      OBVIOUS
    <3>1. x.week \in GetWeeksTracked /\ x.total = Cardinality(ProviderTables[x.week])
      BY ProviderHistograms DEF HistogramAddsUp
    <3>2. QED
      BY <3>1, ProvidersCounted
  <2>3. QED
    BY <2>1, <2>2, MetricsLower, ProviderHistograms, AllocatorHistogram, RegisteredHistogram DEF WeeklyViewsAddUp
<1>2. QED
  BY <1>1, StatisticsInvariance, PTL

-----------------------------------------------------------------------------
(* The dashboard *)
\* The sum of two terms is that of their sums.
LEMMA SumPlus ==
  ASSUME NEW S, IsFiniteSet(S), NEW f, NEW g, NEW h,
         \A x \in S : f[x] \in Int /\ g[x] \in Int /\ h[x] = f[x] + g[x]
  PROVE  SumOver(S, h) = SumOver(S, f) + SumOver(S, g)
<1> DEFINE F == {s \in SUBSET S : SumOver(s, h) # SumOver(s, f) + SumOver(s, g)}
<1>1. \A s \in F : IsFiniteSet(s)
  BY FS_Subset
<1>2. CASE F # {}
  <2> HIDE DEF F
  <2>1. PICK s \in F : \A x \in s : s \ {x} \notin F
    BY <1>1, <1>2, SmallestSet
  <2>2. IsFiniteSet(s)
    BY <1>1
  <2> USE DEF F
  <2>3. s # {}
    BY SumEmpty
  <2>4. PICK c : c \in s
    BY <2>3
  <2>5. SumOver(s \ {c}, h) = SumOver(s \ {c}, f) + SumOver(s \ {c}, g)
    BY <2>1, <2>4
  <2>6. \A x \in s : f[x] \in Int /\ g[x] \in Int /\ h[x] \in Int /\ h[x] = f[x] + g[x]
    OBVIOUS
  <2>7. /\ SumOver(s, f) = f[c] + SumOver(s \ {c}, f)
        /\ SumOver(s, g) = g[c] + SumOver(s \ {c}, g)
        /\ SumOver(s, h) = h[c] + SumOver(s \ {c}, h)
    BY <2>2, <2>4, <2>6, SumRemove
  <2>8. IsFiniteSet(s \ {c})
    BY <2>2, FS_Subset
  <2>9. SumOver(s \ {c}, f) \in Int /\ SumOver(s \ {c}, g) \in Int
    BY <2>6, <2>8, SumType
  <2> QED
    BY <2>4, <2>5, <2>6, <2>7, <2>9
<1> QED
  BY <1>2

\* The numbers of today are of all that there is.
LEMMA ToDate ==
  ASSUME StatisticsInv
  PROVE  /\ AllocationsSince(0, today) = allocations /\ ClaimsSince(0, today) = claims
         /\ \A c : /\ Remaining(c, today) = AvailableDatacap(c)
                   /\ Received(ReceivedBy(c)) \in Nat /\ Total(ClaimsOf(c)) \in Nat
         /\ \A c \in Clients : Remaining(c, today) \in Nat
         /\ \A c \in ReportedClients : Received(ReceivedBy(c)) # 0
<1>1. \A x \in allocations : x.day \in Nat
  BY AllocationsAre DEF StatisticsInv, FilPlusInv
<1>2. \A k \in claims : k.day \in Nat
  BY DEF StatisticsInv, FilPlusInv, FilPlusTypeOK, Claim, Days
<1>3. AllocationsSince(0, today) = allocations /\ ClaimsSince(0, today) = claims
  BY <1>1, <1>2 DEF AllocationsSince, ClaimsSince, StatisticsInv
<1>4. \A c : Remaining(c, today) = AvailableDatacap(c)
  BY <1>3 DEF Remaining, AvailableDatacap, ReceivedBy, ClaimsOf
<1>5. \A c : Received(ReceivedBy(c)) \in Nat /\ Total(ClaimsOf(c)) \in Nat /\ AvailableDatacap(c) \in Int
  BY ClientFacts DEF StatisticsInv, FilPlusInv
<1>6. \A c \in Clients : Remaining(c, today) \in Nat
  BY <1>4, <1>5 DEF StatisticsInv, FilPlusInv
<1>7. \A c \in ReportedClients : Received(ReceivedBy(c)) # 0
  <2> SUFFICES ASSUME NEW c \in ReportedClients PROVE Received(ReceivedBy(c)) # 0
    OBVIOUS
  <2>1. IsFiniteSet(ReceivedBy(c)) /\ ReceivedBy(c) # {}
    BY ClientFacts DEF ReportedClients, StatisticsInv, FilPlusInv
  <2>2. Cardinality(ReceivedBy(c)) \in Nat /\ Cardinality(ReceivedBy(c)) # 0
    BY <2>1, FS_CardinalityType, FS_EmptySet
  <2>3. QED
    BY <2>2, FilPlusAssumption DEF Received
<1>8. QED
  BY <1>3, <1>4, <1>5, <1>6, <1>7

Left == [c \in Clients |-> Remaining(c, today)]
Spent == [c \in Clients |-> Total(ClaimsOf(c))]
Got == [c \in Clients |-> Received(ReceivedBy(c))]

\* What remains and what was spent is what was allocated.
LEMMA DatacapSums ==
  ASSUME StatisticsInv
  PROVE  /\ SumOver(Clients, Left) + Total(claims) = Received(allocations)
         /\ SumOver(Clients, Left) = SumOver(ReportedClients, Left)
         /\ IsFiniteSet(Clients) /\ IsFiniteSet(ReportedClients)
         /\ \A c \in Clients : Left[c] \in Int
<1>1. IsFiniteSet(Clients) /\ IsFiniteSet(ReportedClients)
  BY DashboardAssumption, FS_Subset DEF ReportedClients
<1>2. \A c \in Clients : /\ Left[c] \in Int /\ Spent[c] \in Int /\ Got[c] = Left[c] + Spent[c]
                         /\ Spent[c] \in Nat /\ Got[c] \in Nat /\ Left[c] \in Nat
  BY ToDate DEF Left, Spent, Got, AvailableDatacap
<1>3. SumOver(Clients, Got) = SumOver(Clients, Left) + SumOver(Clients, Spent)
  BY <1>1, <1>2, SumPlus
<1>4. SumOver(Clients, Got) = Received(allocations)
  <2>1. \A c \in Clients : Got[c] = Received(Fibre(allocations, ClientField(allocations), c))
    BY DEF Got, ReceivedBy, Fibre, ClientField
  <2>2. OfKeys(allocations, ClientField(allocations), Clients) = allocations
    BY DEF OfKeys, ClientField, StatisticsInv, FilPlusInv, FilPlusTypeOK, Allocation
  <2>3. Received(OfKeys(allocations, ClientField(allocations), Clients)) = SumOver(Clients, Got)
    BY <1>1, <2>1, ReceivedByKey DEF StatisticsInv, FilPlusInv
  <2>4. QED
    BY <2>2, <2>3
<1>5. SumOver(Clients, Spent) = Total(claims)
  <2>1. \A c \in Clients : Spent[c] = Total(Fibre(claims, ClientField(claims), c))
    BY DEF Spent, ClaimsOf, Fibre, ClientField
  <2>2. OfKeys(claims, ClientField(claims), Clients) = claims
    BY DEF OfKeys, ClientField, StatisticsInv, FilPlusInv, FilPlusTypeOK, Claim
  <2>3. Total(OfKeys(claims, ClientField(claims), Clients)) = SumOver(Clients, Spent)
    BY <1>1, <2>1, TotalByKey DEF StatisticsInv, FilPlusInv, FilPlusTypeOK
  <2>4. QED
    BY <2>2, <2>3
<1>6. SumOver(Clients, Left) = SumOver(ReportedClients, Left)
  <2> DEFINE rest == Clients \ ReportedClients
  <2>1. \A c \in rest : Left[c] = 0
    <3> SUFFICES ASSUME NEW c \in rest PROVE Left[c] = 0
      OBVIOUS
    <3>1. Cardinality(ReceivedBy(c)) = 0
      BY FS_EmptySet DEF ReportedClients
    <3>2. Got[c] = 0
      BY <3>1, FilPlusAssumption DEF Received, Got
    <3>3. QED
      BY <1>2, <3>2
  <2>2. IsFiniteSet(rest) /\ ReportedClients \cap rest = {} /\ ReportedClients \cup rest = Clients
    BY <1>1, FS_Subset DEF ReportedClients
  <2> HIDE DEF rest
  <2>3. \A c \in ReportedClients \cup rest : Left[c] \in Int
    BY <1>2, <2>2
  <2>4. SumOver(ReportedClients \cup rest, Left) = SumOver(ReportedClients, Left) + SumOver(rest, Left)
    BY <1>1, <2>2, <2>3, SumUnion
  <2>5. SumOver(rest, Left) = 0
    <3>1. SumOver(rest, Left) = 0 * Cardinality(rest)
      BY <2>1, <2>2, SumConstant
    <3>2. QED
      BY <2>2, <3>1, FS_CardinalityType
  <2>6. SumOver(ReportedClients, Left) \in Int
    BY <1>1, <2>3, SumType
  <2>7. SumOver(ReportedClients \cup rest, Left) = SumOver(Clients, Left)
    BY <2>2, Zenon
  <2>8. QED
    BY <2>4, <2>5, <2>6, <2>7
<1>7. SumOver(Clients, Left) \in Int /\ SumOver(Clients, Spent) \in Int
  BY <1>1, <1>2, SumType
<1>8. QED
  BY <1>1, <1>2, <1>3, <1>4, <1>5, <1>6, <1>7

ClientRow == [c \in ReportedClients |->
  [client |-> c, datacapReceived |-> Received(ReceivedBy(c)), datacapRemaining |-> Remaining(c, today),
   datacapUsed2Weeks |-> UsedSince(c, today - TwoWeeks)]]

\* The list of clients has a row for each.
LEMMA ClientRowsAre ==
  /\ GetClients = {ClientRow[c] : c \in ReportedClients}
  /\ \A c, d \in ReportedClients : ClientRow[c] = ClientRow[d] => c = d
  /\ \A c \in ReportedClients : /\ ClientRow[c].client = c
                                /\ ClientRow[c].datacapReceived = Received(ReceivedBy(c))
                                /\ ClientRow[c].datacapRemaining = Remaining(c, today)
                                /\ ClientRow[c].datacapUsed2Weeks = UsedSince(c, today - TwoWeeks)
<1>1. \A c \in ReportedClients : /\ ClientRow[c].client = c
                                 /\ ClientRow[c].datacapReceived = Received(ReceivedBy(c))
                                 /\ ClientRow[c].datacapRemaining = Remaining(c, today)
                                 /\ ClientRow[c].datacapUsed2Weeks = UsedSince(c, today - TwoWeeks)
  BY DEF ClientRow
<1>2. \A c, d \in ReportedClients : ClientRow[c] = ClientRow[d] => c = d
  BY <1>1, Zenon
<1>3. GetClients = {ClientRow[c] : c \in ReportedClients}
  BY DEF GetClients, ClientRow
<1>4. QED
  BY <1>1, <1>2, <1>3

Dealing == {k.client : k \in claims}
Clientele == {x.client : x \in allocations}
Exhausted == {c \in ReportedClients : Remaining(c, today) = 0}

\* Who has deals was allocated datacap, and has none left if not some.
LEMMA DealingAre ==
  ASSUME StatisticsInv
  PROVE  /\ IsFiniteSet(Dealing) /\ Cardinality(Dealing) <= Cardinality(Clientele)
         /\ Cardinality(Dealing) - Cardinality({c \in Dealing : Remaining(c, today) > 0})
              = Cardinality(Exhausted)
<1>1. \A k \in claims : k.client \in Clients /\ \E x \in allocations : x.client = k.client
  BY DEF StatisticsInv, Backed, FilPlusInv, FilPlusTypeOK, Claim
<1>2. Clientele \subseteq Clients /\ Dealing \subseteq Clientele
  BY <1>1 DEF Clientele, Dealing, StatisticsInv, FilPlusInv, FilPlusTypeOK, Allocation
<1>3. /\ IsFiniteSet(Clientele) /\ IsFiniteSet(Dealing)
      /\ Cardinality(Dealing) <= Cardinality(Clientele)
  BY <1>2, DashboardAssumption, FS_Subset
<1> DEFINE H == {c \in Dealing : Remaining(c, today) > 0}
<1>4. Dealing \ H = Exhausted
  <2>1. \A c \in Dealing : c \in ReportedClients
    BY <1>2 DEF Clientele, ReportedClients, ReceivedBy
  <2>2. ASSUME NEW c \in ReportedClients, Remaining(c, today) = 0 PROVE c \in Dealing
    <3>1. Total(ClaimsOf(c)) = Received(ReceivedBy(c))
      BY <2>2, ToDate DEF AvailableDatacap
    <3>2. Received(ReceivedBy(c)) # 0
      BY ToDate
    <3>3. ClaimsOf(c) # {}
      <4>1. Total({}) = 0
        BY SumEmpty, TotalIs, FS_EmptySet
      <4>2. QED
        BY <3>1, <3>2, <4>1
    <3>4. QED
      BY <3>3 DEF ClaimsOf, Dealing
  <2>3. \A c \in ReportedClients : Remaining(c, today) \in Nat
    BY ToDate DEF ReportedClients
  <2>4. QED
    BY <2>1, <2>2, <2>3 DEF Exhausted
<1>5. /\ Cardinality(Dealing \ H) = Cardinality(Dealing) - Cardinality(Dealing \cap H)
  BY <1>3, FS_Difference
<1>6. Dealing \cap H = H /\ IsFiniteSet(H)
  BY <1>3, FS_Subset
<1>7. Cardinality(Dealing) \in Nat /\ Cardinality(H) \in Nat
  BY <1>3, <1>6, FS_CardinalityType
<1>8. QED
  BY <1>3, <1>4, <1>5, <1>6, <1>7

\* The clients' numbers agree with the lists.
LEMMA DatacapDoes ==
  ASSUME StatisticsInv
  PROVE  DatacapAgrees
<1> DEFINE generic == GetClientsGenericStats(today)
<1>1. /\ generic.clientsWithActiveDeals = Cardinality(Dealing)
      /\ generic.clientsWhoHaveDcAndDeals = Cardinality({c \in Dealing : Remaining(c, today) > 0})
      /\ generic.totalRemainingClientsDatacap = SumOver(Clients, Left)
  BY ToDate, SumOfIs DEF GetClientsGenericStats, ClientsOfAll, Dealing, Left
<1> HIDE DEF generic
<1>2. GetDatacapSpentByClientsStat(today) = Total(claims) /\ GetClientsCountStat(today) = Cardinality(Clientele)
  BY ToDate DEF GetDatacapSpentByClientsStat, GetClientsCountStat, ClientsOfAll, Clientele
<1>3. generic.totalRemainingClientsDatacap + GetDatacapSpentByClientsStat(today) = Received(allocations)
  BY <1>1, <1>2, DatacapSums
<1>4. generic.totalRemainingClientsDatacap = SumOf(GetClients, [row \in GetClients |-> row.datacapRemaining])
  <2> DEFINE left == [row \in GetClients |-> row.datacapRemaining]
  <2>1. Image(ReportedClients, ClientRow) = GetClients
    BY ClientRowsAre DEF Image
  <2>2. \A c \in ReportedClients : Left[c] \in Int /\ left[ClientRow[c]] = Left[c]
    BY ClientRowsAre, DatacapSums DEF Left, ReportedClients
  <2> HIDE DEF left
  <2>3. SumOver(Image(ReportedClients, ClientRow), left) = SumOver(ReportedClients, Left)
    BY <2>2, ClientRowsAre, DatacapSums, SumImage
  <2>4. SumOf(GetClients, left) = SumOver(GetClients, left)
    BY SumOfIs
  <2>5. QED
    BY <1>1, <2>1, <2>3, <2>4, DatacapSums DEF left
<1>5. generic.clientsWithActiveDeals <= GetClientsCountStat(today)
  BY <1>1, <1>2, DealingAre
<1>6. generic.clientsWithActiveDeals - generic.clientsWhoHaveDcAndDeals
        = Cardinality({row \in GetClients : row.datacapReceived # 0 /\ row.datacapRemaining = 0})
  <2>1. \A c \in ReportedClients : Received(ReceivedBy(c)) # 0
    BY ToDate
  <2>2. {row \in GetClients : row.datacapReceived # 0 /\ row.datacapRemaining = 0} = Image(Exhausted, ClientRow)
    BY <2>1, ClientRowsAre DEF Image, Exhausted
  <2>3. Cardinality(Image(Exhausted, ClientRow)) = Cardinality(Exhausted)
    <3>1. Exhausted \in SUBSET ReportedClients /\ IsFiniteSet(Exhausted)
      BY DatacapSums, FS_Subset DEF Exhausted
    <3>2. \A c \in Exhausted : Left[c] \in Int
      BY <3>1, DatacapSums DEF ReportedClients
    <3> DEFINE back == [row \in Image(Exhausted, ClientRow) |-> Left[row.client]]
    <3>3. \A c \in Exhausted : back[ClientRow[c]] = Left[c]
      BY <3>1, ClientRowsAre DEF Image
    <3> HIDE DEF back
    <3>4. \A c, d \in Exhausted : ClientRow[c] = ClientRow[d] => c = d
      BY <3>1, ClientRowsAre
    <3>5. QED
      BY <3>1, <3>2, <3>3, <3>4, SumImage
  <2>4. QED
    BY <1>1, <2>2, <2>3, DealingAre
<1>7. ASSUME NEW a \in Allocators, NEW x \in GetVerifiedClientsByAllocator(a)
      PROVE  \E row \in GetClients :
               /\ row.client = x.client /\ row.datacapUsed2Weeks = x.usedDatacapChange
               /\ row.datacapReceived = x.usedDatacap + x.remainingDatacap
  <2>1. PICK c \in ClientsOf(a) :
          x = [client |-> c, usedDatacap |-> Total(ClaimsOf(c)), remainingDatacap |-> AvailableDatacap(c),
               usedDatacapChange |-> UsedSince(c, today - TwoWeeks)]
    BY <1>7 DEF GetVerifiedClientsByAllocator
  <2>2. c \in ReportedClients
    BY ClientsAre DEF StatisticsInv, FilPlusInv
  <2>3. Received(ReceivedBy(c)) = Total(ClaimsOf(c)) + AvailableDatacap(c)
    BY ToDate DEF AvailableDatacap
  <2>4. /\ x.client = c /\ x.usedDatacapChange = UsedSince(c, today - TwoWeeks)
        /\ x.usedDatacap = Total(ClaimsOf(c)) /\ x.remainingDatacap = AvailableDatacap(c)
    BY <2>1
  <2>5. ClientRow[c] \in GetClients
    BY <2>2, ClientRowsAre
  <2>6. QED
    BY <2>2, <2>3, <2>4, <2>5, ClientRowsAre
<1>8. QED
  BY <1>3, <1>4, <1>5, <1>6, <1>7 DEF DatacapAgrees, generic

\* A quotient is no greater when it is divided by more.
LEMMA SharedByMore ==
  ASSUME NEW a \in Nat, NEW m \in Nat, NEW n \in Nat, n >= 1, n <= m
  PROVE  BigIntDiv(a, m) \in Nat /\ BigIntDiv(a, n) \in Nat /\ BigIntDiv(a, m) <= BigIntDiv(a, n)
<1> DEFINE b == 100 * a
           q == b \div m
           p == b \div n
<1>0. b \in Nat
  OBVIOUS
<1> HIDE DEF b
<1>1. /\ q \in Nat /\ m * q <= b /\ p \in Nat /\ b < n * p + n
  BY <1>0, CutOff
<1> HIDE DEF q, p
<1>2. q * n <= q * m
  BY <1>1, TimesOrdered
<1>3. n * q \in Int /\ m * q \in Int /\ n * p \in Int /\ n * q = q * n /\ m * q = q * m
  BY <1>1
<1>4. n * (p + 1) = n * p + n
  <2>1. n * (p + 1) = n * p + n * 1
    BY <1>1, TimesSum
  <2>2. QED
    BY <2>1
<1>5. ASSUME p + 1 <= q PROVE FALSE
  <2>1. n * (p + 1) <= n * q
    BY <1>1, <1>5, TimesOrdered
  <2>2. n * p + n <= m * q
    BY <1>2, <1>3, <1>4, <2>1
  <2>3. b < n * p + n /\ n * p + n <= b /\ n * p + n \in Int
    BY <1>0, <1>1, <1>3, <2>2
  <2>4. QED
    BY <1>0, <2>3
<1>6. q <= p
  BY <1>1, <1>5
<1>7. QED
  BY <1>1, <1>6 DEF BigIntDiv, q, p, b

\* Each of h terms at least r makes the average of m, in hundredths, more than their share of
\* r, but for what is cut off.
LEMMA AverageOfShare ==
  ASSUME NEW h \in Nat, NEW r \in Nat, NEW t \in Nat, r * h <= t, NEW m \in Nat, m >= 1
  PROVE  (BigIntDiv(t, m) + 1) * 100 > BigIntDiv(100 * h, m) * r
<1> DEFINE b == 100 * t
           c == 100 * (100 * h)
           q == b \div m
           p == c \div m
<1>1. q \in Nat /\ b < m * q + m /\ p \in Nat /\ m * p <= c
  BY CutOff
<1> HIDE DEF q, p
<1>2. m * (q + 1) = m * q + m
  <2>1. m * (q + 1) = m * q + m * 1
    BY <1>1, TimesSum
  <2>2. QED
    BY <2>1
<1>3. 100 * (m * (q + 1)) = m * (100 * (q + 1)) /\ r * (m * p) = m * (r * p)
  BY <1>1, TimesSwaps
<1>4. r * (m * p) <= r * c
  <2>1. c \in Int /\ m * p \in Int
    BY <1>1
  <2>2. QED
    BY <1>1, <2>1, TimesOrdered
<1>5. r * c = 10000 * (r * h)
  <2>1. r * (10000 * h) = 10000 * (r * h)
    BY TimesSwaps
  <2>2. c = 10000 * h
    OBVIOUS
  <2>3. QED
    BY <2>1, <2>2
<1>6. r * h \in Int /\ r * p \in Int /\ m * q \in Int /\ m * (100 * (q + 1)) \in Int /\ m * (r * p) \in Int
  BY <1>1
<1>7. m * (r * p) < m * (100 * (q + 1))
  BY <1>1, <1>2, <1>3, <1>4, <1>5, <1>6
<1>8. ASSUME 100 * (q + 1) <= r * p PROVE FALSE
  <2>1. 100 * (q + 1) \in Int
    BY <1>1
  <2>2. m * (100 * (q + 1)) <= m * (r * p)
    BY <1>6, <1>8, <2>1, TimesOrdered
  <2>3. QED
    BY <1>6, <1>7, <2>2
<1>9. r * p < 100 * (q + 1) /\ r * p = p * r
  BY <1>1, <1>6, <1>8
<1>10. BigIntDiv(t, m) = q /\ BigIntDiv(100 * h, m) = p
  BY DEF BigIntDiv, q, p
<1>11. QED
  BY <1>1, <1>6, <1>9, <1>10

\* The providers measured have one status each, and rates that agree with each other.
LEMMA ProvidersDo ==
  ASSUME StatisticsInv
  PROVE  ProvidersAgree
<1> DEFINE M == MeasuredOn(today)
           before == ClaimsSince(0, today - 1)
           known == {p \in M : Rate[p] # NoRate}
           high == {p \in M : Rate[p] > HighRetrievability}
           with(status) == {p \in M : ReportingStatus(before, p) = status}
           m == Cardinality(M)
           h == Cardinality(high)
           t == SumOver(known, Rate)
<1>1. /\ IsFiniteSet(M) /\ M \subseteq Providers
  <2>1. before \in SUBSET claims /\ claims \subseteq Claim /\ IsFiniteSet(claims)
    BY DEF ClaimsSince, StatisticsInv, FilPlusInv, FilPlusTypeOK
  <2>2. IsFiniteSet(before)
    BY <2>1, FS_Subset
  <2> DEFINE provider == [k \in before |-> k.provider]
  <2>3. M = {provider[k] : k \in before}
    BY DEF MeasuredOn, ProvidersIn
  <2>4. IsFiniteSet({provider[k] : k \in before})
    BY <2>2, ImageSize
  <2>5. M \subseteq Providers
    BY <2>1 DEF MeasuredOn, ProvidersIn, Claim
  <2>6. QED
    BY <2>3, <2>4, <2>5
<1>2. GetStorageProvidersCountStat(today - 1) = m
  BY DEF GetStorageProvidersCountStat, MeasuredOn
<1>3. \A p : ReportingStatus(before, p) \in {"OK", "MISREPORTING", "NOT_REPORTING"}
  BY DEF ReportingStatus
<1> HIDE DEF M, before
<1>4. Cardinality(with("OK")) + Cardinality(with("MISREPORTING")) + Cardinality(with("NOT_REPORTING")) = m
  <2> DEFINE A == with("OK")
             B == with("MISREPORTING")
             C == with("NOT_REPORTING")
  <2>1. M = A \cup B \cup C /\ A \cap B = {} /\ A \cap C = {} /\ B \cap C = {}
    BY <1>3
  <2> HIDE DEF A, B, C
  <2>2. Cardinality(A) + Cardinality(B) + Cardinality(C) = Cardinality(M)
    BY <1>1, <2>1, ThreeParts
  <2>3. QED
    BY <2>2 DEF A, B, C
<1>5. \A p \in M : Rate[p] \in 0..100 \cup {NoRate}
  BY <1>1, FilPlusAssumption
<1>6. IsFiniteSet(known) /\ IsFiniteSet(high) /\ high \subseteq known /\ known \subseteq M
  <2>1. high \subseteq known
    BY <1>5, DashboardAssumption DEF NoRate
  <2>2. QED
    BY <1>1, <2>1, FS_Subset
<1>7. \A p \in known : Rate[p] \in Nat /\ Rate[p] \in Int
  BY <1>5
<1>8. /\ m \in Nat /\ h \in Nat /\ Cardinality(known) \in Nat /\ Cardinality(known) <= m
      /\ M = {} => m = 0
      /\ M # {} => m >= 1
      /\ known # {} => Cardinality(known) >= 1
  BY <1>1, <1>6, FS_CardinalityType, FS_Subset, FS_EmptySet
<1>9. t \in Int /\ 0 <= SumOver(high, Rate) /\ SumOver(high, Rate) <= t /\ SumOver(high, Rate) \in Int
  <2>1. \A p \in high : Rate[p] \in Int
    BY <1>6, <1>7
  <2> HIDE DEF known, high
  <2>2. 0 <= SumOver(high, Rate) /\ SumOver(high, Rate) <= SumOver(known, Rate)
    BY <1>6, <1>7, SumPart
  <2>3. SumOver(known, Rate) \in Int /\ SumOver(high, Rate) \in Int
    BY <1>6, <1>7, <2>1, SumType
  <2>4. QED
    BY <2>2, <2>3
<1>10. t \in Nat /\ HighRetrievability \in Nat
  BY <1>9, DashboardAssumption
<1>11. HighRetrievability * h <= t
  <2> DEFINE least == [p \in high |-> HighRetrievability]
  <2>1. \A p \in high : least[p] \in Int /\ least[p] = HighRetrievability /\ Rate[p] \in Int /\ least[p] <= Rate[p]
    BY <1>6, <1>7, <1>10
  <2> HIDE DEF least, high
  <2>2. SumOver(high, least) = HighRetrievability * Cardinality(high)
    BY <1>6, <1>10, <2>1, SumConstant
  <2>3. SumOver(high, least) <= SumOver(high, Rate)
    BY <1>6, <2>1, SumCompare
  <2>4. HighRetrievability * h \in Int
    BY <1>8, <1>10
  <2>5. QED
    BY <1>9, <2>2, <2>3, <2>4
<1> DEFINE rates == GetAverageUrlFinderRetrievabilityStats(today)
           share == GetStorageProvidersPercentageByUrlFinderRetrievability(today, HighRetrievability)
           ipni == GetAggregatedProvidersReportingStatus(today)
<1>12. /\ rates.avgAllSp = IF M = {} THEN 0 ELSE BigIntDiv(t, m)
       /\ rates.avgAvailableSp = IF known = {} THEN 0 ELSE BigIntDiv(t, Cardinality(known))
       /\ share = IF m = 0 THEN 0 ELSE BigIntDiv(100 * h, m)
  <2>1. SumOf(known, Rate) = t
    BY SumOfIs
  <2>2. QED
    BY <2>1 DEF GetAverageUrlFinderRetrievabilityStats, AverageOf, M,
                GetStorageProvidersPercentageByUrlFinderRetrievability, PercentOf
<1>13. /\ ipni.ok = Cardinality(with("OK")) /\ ipni.misreporting = Cardinality(with("MISREPORTING"))
       /\ ipni.notReporting = Cardinality(with("NOT_REPORTING"))
  BY DEF GetAggregatedProvidersReportingStatus, M, before
<1>14. known = {} => t = 0
  BY SumEmpty
<1> HIDE DEF rates, share, ipni, known, high, t, m, h
<1>15. rates.avgAllSp <= rates.avgAvailableSp
  <2>1. CASE known = {}
    <3>1. M # {} => BigIntDiv(0, m) = 0
      BY <1>8, SMT DEF BigIntDiv
    <3>2. QED
      BY <1>12, <1>14, <2>1, <3>1
  <2>2. CASE known # {}
    <3>1. M # {}
      BY <1>6, <2>2
    <3>2. BigIntDiv(t, m) <= BigIntDiv(t, Cardinality(known))
      BY <1>8, <1>10, <2>2, SharedByMore
    <3>3. QED
      BY <1>12, <2>2, <3>1, <3>2
  <2>3. QED
    BY <2>1, <2>2
<1>16. (rates.avgAllSp + 1) * 100 > share * HighRetrievability
  <2>1. CASE M = {}
    BY <1>8, <1>10, <1>12, <2>1
  <2>2. CASE M # {}
    <3>1. (BigIntDiv(t, m) + 1) * 100 > BigIntDiv(100 * h, m) * HighRetrievability
      BY <1>8, <1>10, <1>11, <2>2, AverageOfShare
    <3>2. m # 0
      BY <1>8, <2>2
    <3>3. QED
      BY <1>12, <2>2, <3>1, <3>2
  <2>3. QED
    BY <2>1, <2>2
<1>17. QED
  BY <1>2, <1>4, <1>13, <1>15, <1>16 DEF ProvidersAgree, rates, share, ipni

\* The verdicts on providers are the same for any average when it is not asked for.
LEMMA VerdictsAgree ==
  ASSUME NEW week, NEW metrics \in SUBSET {"numberOfClients", "totalDealSize"}
  PROVE  GetWeekStorageProvidersWithSpsCompliance(week, metrics) = WeekProvidersCompliance(week, metrics)
<1> DEFINE rows == ProvidersWeeklyAcc(week)
           verdict(row, average) == [provider |-> row.name, total |-> row.total,
                                     score |-> CalculateProviderComplianceScore(row, average, metrics)]
           average(openData) == GetWeekAverageProviderRetrievability(rows, openData)
<1>1. \A row, p, q : verdict(row, p) = verdict(row, q)
  <2> SUFFICES ASSUME NEW row, NEW p, NEW q PROVE verdict(row, p) = verdict(row, q)
    OBVIOUS
  <2>1. \A m \in metrics : MeetsMetric(row, p, m) <=> MeetsMetric(row, q, m)
    BY DEF MeetsMetric
  <2>2. {m \in metrics : ~MeetsMetric(row, p, m)} = {m \in metrics : ~MeetsMetric(row, q, m)}
    BY <2>1
  <2>3. CalculateProviderComplianceScore(row, p, metrics) = CalculateProviderComplianceScore(row, q, metrics)
    BY <2>2, Zenon DEF CalculateProviderComplianceScore
  <2>4. QED
    BY <2>3
<1>2. GetWeekStorageProvidersWithSpsCompliance(week, metrics) = {verdict(row, average(FALSE)) : row \in rows}
  BY DEF GetWeekStorageProvidersWithSpsCompliance, ProvidersScored
<1>3. WeekProvidersCompliance(week, metrics) = {verdict(row, average(TRUE)) : row \in rows}
  BY DEF WeekProvidersCompliance, ProvidersCompliance, ProvidersScored
<1> HIDE DEF verdict, average, rows
<1>4. {verdict(row, average(FALSE)) : row \in rows} = {verdict(row, average(TRUE)) : row \in rows}
  BY <1>1
<1>5. QED
  BY <1>2, <1>3, <1>4

\* The list of a week has each allocator once, and as compliant if all its providers are.
LEMMA AllocatorListIs ==
  ASSUME StatisticsInv, NEW week \in Nat, NEW metrics, NEW threshold \in Thresholds
  PROVE  LET all == GetWeekStandardAllocatorSpsCompliance(week, metrics)
             list == GetWeekAllocatorsWithSpsCompliance(week, metrics, threshold)
         IN  /\ Cardinality(list) = Cardinality(all)
             /\ \A row \in all : row.sps.compliant = row.totalSps /\ row.totalSps # 0 =>
                  [allocator |-> row.id, score |-> "compliant"] \in list
<1> DEFINE all == GetWeekStandardAllocatorSpsCompliance(week, metrics)
           list == GetWeekAllocatorsWithSpsCompliance(week, metrics, threshold)
           shown == [row \in all |->
                      [allocator |-> row.id, score |-> CalculateAllocatorComplianceScore(row, threshold)]]
           table == AllocatorsWeeklyAcc(week)
           made == [r \in table |-> AllocatorRow(week, metrics, r)]
<1>1. list = {shown[row] : row \in all}
  BY DEF GetWeekAllocatorsWithSpsCompliance
<1>2. all = {made[r] : r \in table}
  BY AllocatorRowsAre
<1>3. IsFiniteSet(table) /\ \A r, s \in table : r.name = s.name => r = s
  <2>1. TableOf(table, WeekAllocators(week), Received(AllocationsUpTo(week)))
    BY AllocatorsTable DEF StatisticsInv, FilPlusInv
  <2>2. QED
    BY <2>1, Zenon DEF TableOf
<1>4. \A r \in table : /\ made[r].id = r.name
                       /\ made[r].totalSps = Cardinality(ProvidersUsed(r.name, week))
  BY DEF AllocatorRow
<1>5. \A r : Cardinality(ProvidersUsed(r.name, week)) \in Nat
  BY UsedAre, FS_CardinalityType
<1>6. \A row \in all : shown[row].allocator = row.id
  OBVIOUS
<1>7. ASSUME NEW row \in all, row.sps.compliant = row.totalSps, row.totalSps # 0
      PROVE  [allocator |-> row.id, score |-> "compliant"] \in list
  <2>1. row.totalSps \in Nat
    BY <1>2, <1>4, <1>5
  <2>2. threshold \in 1..100
    BY StatisticsAssumption
  <2>3. 100 * row.totalSps >= threshold * row.totalSps
    <3>1. row.totalSps * threshold <= row.totalSps * 100
      BY <2>1, <2>2, TimesOrdered
    <3>2. QED
      BY <2>1, <2>2, <3>1
  <2>4. CalculateAllocatorComplianceScore(row, threshold) = "compliant"
    BY <1>7, <2>3 DEF CalculateAllocatorComplianceScore
  <2>5. shown[row] \in list
    BY <1>1
  <2>6. QED
    BY <2>4, <2>5
<1> HIDE DEF all, list, shown, table, made
<1>8. IsFiniteSet(all)
  BY <1>2, <1>3, ImageSize
<1>9. \A r, s \in all : r.id = s.id => r = s
  BY <1>2, <1>3, <1>4
<1>10. Cardinality(list) = Cardinality(all)
  <2> DEFINE h == [row \in all |-> shown[row]]
  <2>1. h \in Bijection(all, list)
    BY <1>1, <1>6, <1>9 DEF Bijection, Injection, Surjection, IsInjective
  <2>2. QED
    BY <1>8, <2>1, FS_Bijection, Zenon DEF ExistsBijection
<1>11. QED
  BY <1>7, <1>10 DEF all, list

\* A week's allocations are those of the allocators in it.
LEMMA WeekOfHistory ==
  ASSUME StatisticsInv, NEW x \in CumulativeAllocationsHistory(DaysPerWeek)
  PROVE  x.total = TotalOf({row \in GetAllocationsByAllocatorHistory : row.week = x.window})
<1>0. FilPlusTypeOK
  BY DEF StatisticsInv, FilPlusInv
<1>1. allocations # {}
  BY DEF CumulativeAllocationsHistory
<1>2. PICK w \in Spans(DaysPerWeek) : x = HistoryEntry(DaysPerWeek, w)
  BY <1>1, HistoryIs
<1> DEFINE S == {y \in Counted : Week(y.day) = w}
           key == [y \in S |-> y.allocator]
           K == {key[y] : y \in S}
           amount(v, a) == Received({y \in allocations : <<Week(y.day), y.allocator>> = <<v, a>>})
           f == [a \in K |-> amount(w, a)]
           rec == [a \in K |-> [week |-> w, allocator |-> a, total |-> amount(w, a)]]
           pairs == {<<Week(y.day), y.allocator>> : y \in Counted}
           row(p) == [week |-> p[1], allocator |-> p[2],
                      total |-> Received({y \in allocations : <<Week(y.day), y.allocator>> = p})]
<1>3. S \in SUBSET allocations /\ IsFiniteSet(S)
  BY <1>0, AllocationsAre DEF Counted
<1>4. IsFiniteSet(K)
  BY <1>3, ImageSize
<1>5. x.window = w /\ x.total = Received(S)
  <2>1. OfKeys(Counted, WindowIn(DaysPerWeek), {w}) = S
    BY DEF OfKeys, WindowIn, Counted, Week
  <2>2. x.total = AllocatedIn(DaysPerWeek, {w}) /\ x.window = w
    BY <1>2 DEF HistoryEntry
  <2>3. QED
    BY <2>1, <2>2, AllocatedInIs
<1>6. OfKeys(S, key, K) = S
  BY DEF OfKeys
<1>7. \A a \in K : f[a] = Received(Fibre(S, key, a))
  <2> SUFFICES ASSUME NEW a \in K PROVE f[a] = Received(Fibre(S, key, a))
    OBVIOUS
  <2>1. a \notin LeftOut
    BY DEF Counted
  <2>2. {y \in allocations : <<Week(y.day), y.allocator>> = <<w, a>>} = Fibre(S, key, a)
    BY <2>1 DEF Fibre, Counted
  <2>3. QED
    BY <2>2
<1>8. \A a \in K : rec[a].total = f[a] /\ rec[a].allocator = a
  OBVIOUS
<1>9. {r \in GetAllocationsByAllocatorHistory : r.week = w} = Image(K, rec)
  <2>1. GetAllocationsByAllocatorHistory = {row(p) : p \in pairs}
    BY DEF GetAllocationsByAllocatorHistory, Counted
  <2>2. \A p \in pairs : row(p).week = p[1] /\ p = <<p[1], p[2]>>
    OBVIOUS
  <2>3. \A a : <<w, a>> \in pairs <=> a \in K
    OBVIOUS
  <2>4. \A a \in K : row(<<w, a>>) = rec[a]
    OBVIOUS
  <2> HIDE DEF row, rec, K, pairs
  <2>5. ASSUME NEW r \in GetAllocationsByAllocatorHistory, r.week = w PROVE r \in Image(K, rec)
    <3>1. PICK p \in pairs : r = row(p)
      BY <2>1
    <3>2. p = <<w, p[2]>>
      BY <2>2, <2>5, <3>1
    <3>3. p[2] \in K /\ r = rec[p[2]]
      BY <2>3, <2>4, <3>1, <3>2
    <3>4. QED
      BY <3>3 DEF Image
  <2>6. ASSUME NEW a \in K PROVE rec[a] \in GetAllocationsByAllocatorHistory /\ rec[a].week = w
    BY <2>1, <2>2, <2>3, <2>4
  <2>7. QED
    BY <2>5, <2>6 DEF Image
<1> HIDE DEF S, key, K, f, rec
<1>10. Received(OfKeys(S, key, K)) = SumOver(K, f) /\ \A a \in K : f[a] \in Nat
  BY <1>0, <1>3, <1>4, <1>7, ReceivedByKey
<1>11. \A a, b \in K : rec[a] = rec[b] => a = b
  BY <1>8
<1>12. TotalOf(Image(K, rec)) = SumOver(K, f)
  <2>1. \A a \in K : f[a] \in Int /\ rec[a].total = f[a]
    BY <1>8, <1>10
  <2>2. QED
    BY <1>4, <1>11, <2>1, TotalOfRecords
<1>13. QED
  BY <1>5, <1>6, <1>9, <1>10, <1>12

\* The lists of a week and its statistics agree.
LEMMA ListsDo ==
  ASSUME StatisticsInv
  PROVE  ListsAgree
<1>1. ASSUME NEW metrics \in SUBSET {"numberOfClients", "totalDealSize"},
             NEW x \in GetProviderComplianceWeekly(metrics)
      PROVE  Sps(GetWeekStorageProvidersWithSpsCompliance(x.week, metrics)) = x.sps
  <2>1. PICK week : x = [week |-> week, totalSps |-> Cardinality(WeekProvidersCompliance(week, metrics)),
                         sps |-> Sps(WeekProvidersCompliance(week, metrics)),
                         datacap |-> Datacap(WeekProvidersCompliance(week, metrics))]
    BY <1>1 DEF GetProviderComplianceWeekly
  <2>2. x.week = week /\ x.sps = Sps(WeekProvidersCompliance(week, metrics))
    BY <2>1
  <2>3. QED
    BY <2>2, VerdictsAgree
<1>2. ASSUME NEW x \in GetStandardAllocatorSpsComplianceWeekly({"numberOfClients"}), NEW threshold \in Thresholds
      PROVE  LET list == GetWeekAllocatorsWithSpsCompliance(x.week, {"numberOfClients"}, threshold)
             IN  /\ Cardinality(list) = Cardinality(x.allocators)
                 /\ \A row \in x.allocators : row.sps.compliant = row.totalSps /\ row.totalSps # 0 =>
                      [allocator |-> row.id, score |-> "compliant"] \in list
  <2>1. PICK week \in GetWeeksTracked :
          x = [week |-> week, allocators |-> GetWeekStandardAllocatorSpsCompliance(week, {"numberOfClients"})]
    BY <1>2 DEF GetStandardAllocatorSpsComplianceWeekly, WithoutCurrentWeek
  <2>2. week \in Nat
    BY DEF GetWeeksTracked
  <2>3. x.week = week /\ x.allocators = GetWeekStandardAllocatorSpsCompliance(week, {"numberOfClients"})
    BY <2>1
  <2>4. QED
    BY <2>2, <2>3, AllocatorListIs
<1>3. QED
  BY <1>1, <1>2, WeekOfHistory DEF ListsAgree

\* The shares of two disjoint parts are no more than all.
LEMMA DisjointShares ==
  ASSUME NEW x \in Nat, NEW y \in Nat, NEW n \in Nat, x + y <= n
  PROVE  PercentOf(x, n) + PercentOf(y, n) <= 10000
<1>1. CASE n = 0
  BY <1>1 DEF PercentOf
<1>2. CASE n # 0
  <2> DEFINE b == 100 * (100 * x)
             c == 100 * (100 * y)
             p == b \div n
             q == c \div n
  <2>1. p \in Nat /\ n * p <= b /\ q \in Nat /\ n * q <= c
    BY <1>2, CutOff
  <2>2. PercentOf(x, n) = p /\ PercentOf(y, n) = q
    BY <1>2 DEF PercentOf, BigIntDiv
  <2> HIDE DEF p, q
  <2>3. n * (p + q) = n * p + n * q
    BY <2>1, TimesSum
  <2>4. n * p \in Int /\ n * q \in Int
    BY <2>1
  <2>5. n * (p + q) <= n * 10000
    BY <2>1, <2>3, <2>4
  <2>6. p + q <= 10000
    BY <1>2, <2>1, <2>5, TimesCancels
  <2>7. QED
    BY <2>2, <2>6
<1>3. QED
  BY <1>1, <1>2

\* A share of less than all is not all.
LEMMA SmallerShare ==
  ASSUME NEW x \in Nat, NEW n \in Nat, x < n
  PROVE  PercentOf(x, n) <= 9999
<1> DEFINE b == 100 * (100 * x)
           p == b \div n
<1>1. p \in Nat /\ n * p <= b
  BY CutOff
<1>2. PercentOf(x, n) = p
  BY DEF PercentOf, BigIntDiv
<1> HIDE DEF p
<1>3. ASSUME 10000 <= p PROVE FALSE
  <2>1. n * 10000 <= n * p
    BY <1>1, <1>3, TimesOrdered
  <2>2. n * p \in Int
    BY <1>1
  <2>3. QED
    BY <1>1, <2>1, <2>2
<1>4. QED
  BY <1>1, <1>2, <1>3

\* A metric has ranges, with scores of at most three.
LEMMA RangesOfMetrics ==
  ASSUME NEW a, NEW m \in Metrics(a)
  PROVE  m.ranges # {} /\ \A y \in m.ranges : y.score \in 0..3
<1>1. \A x, y, n : Band(x, y, n).score = n
  BY DEF Band
<1>2. CASE m = IpniReporting(a)
  BY <1>1, <1>2 DEF IpniReporting, Metric
<1>3. CASE m = UrlFinderRetrievability(a)
  BY <1>1, <1>3 DEF UrlFinderRetrievability, Metric
<1>4. CASE m = CidSharingScore(a)
  BY <1>1, <1>4 DEF CidSharingScore, Metric
<1>5. CASE m = DuplicatedData(a)
  BY <1>1, <1>5 DEF DuplicatedData, Metric
<1>6. CASE m = UniqueDataSetSizeScore(a)
  BY <1>1, <1>6 DEF UniqueDataSetSizeScore, Metric
<1>7. CASE m = EqualityOfDatacapDistribution(a)
  BY <1>1, <1>7 DEF EqualityOfDatacapDistribution, Metric
<1>8. CASE m = ClientDiversity(a)
  BY <1>1, <1>8 DEF ClientDiversity, Metric
<1>9. CASE m = ClientPreviousApplications(a)
  BY <1>1, <1>9 DEF ClientPreviousApplications, Metric
<1>10. QED
  BY <1>2, <1>3, <1>4, <1>5, <1>6, <1>7, <1>8, <1>9 DEF Metrics

BestOf(s) == Max({y.score : y \in s.ranges})

\* The scores stored, and the best of their ranges, are finitely many numbers.
LEMMA StoringIs ==
  ASSUME FilPlusTypeOK, NEW a \in Allocators
  PROVE  /\ IsFiniteSet(StoreScoring(a))
         /\ \A s \in StoreScoring(a) : s.score \in Nat /\ BestOf(s) \in Nat
<1>1. IsFiniteSet(StoreScoring(a))
  <2> DEFINE some == IF DataType[a] = "null" THEN {} ELSE {n \in Metrics(a) : WeightOf(n, DataType[a]) # 0}
             stored == [m \in Metrics(a) |-> StoreScore(m, WeightOf(m, DataType[a]))]
  <2>1. ASSUME NEW w, NEW x, NEW y, NEW z PROVE IsFiniteSet({w, x, y, z})
    <3>1. IsFiniteSet({w})
      BY FS_Singleton
    <3>2. IsFiniteSet({w} \cup {x})
      BY <3>1, FS_AddElement
    <3>3. IsFiniteSet(({w} \cup {x}) \cup {y})
      BY <3>2, FS_AddElement
    <3>4. IsFiniteSet((({w} \cup {x}) \cup {y}) \cup {z})
      BY <3>3, FS_AddElement
    <3>5. {w, x, y, z} = (({w} \cup {x}) \cup {y}) \cup {z}
      OBVIOUS
    <3>6. QED
      BY <3>4, <3>5
  <2>2. IsFiniteSet(Metrics(a))
    <3> DEFINE A == {IpniReporting(a), UrlFinderRetrievability(a), CidSharingScore(a), DuplicatedData(a)}
               B == {UniqueDataSetSizeScore(a), EqualityOfDatacapDistribution(a), ClientDiversity(a),
                     ClientPreviousApplications(a)}
    <3>1. Metrics(a) = A \cup B
      BY DEF Metrics
    <3>2. IsFiniteSet(A) /\ IsFiniteSet(B)
      BY <2>1
    <3> HIDE DEF A, B
    <3>3. QED
      BY <3>1, <3>2, FS_Union
  <2>3. some \subseteq Metrics(a)
    OBVIOUS
  <2>4. StoreScoring(a) = {stored[m] : m \in some}
    BY DEF StoreScoring
  <2>5. IsFiniteSet(some)
    BY <2>2, <2>3, FS_Subset
  <2> HIDE DEF stored, some
  <2>6. IsFiniteSet({stored[m] : m \in some})
    BY <2>5, ImageSize
  <2>7. QED
    BY <2>4, <2>6
<1>2. ASSUME NEW s \in StoreScoring(a) PROVE s.score \in Nat /\ BestOf(s) \in Nat
  <2>1. PICK m \in Metrics(a), w \in Nat : Fits(m) /\ s = StoreScore(m, w)
    BY StoredScore
  <2>2. s.score = m.score * w /\ s.ranges = {[y EXCEPT !.score = @ * w] : y \in m.ranges}
    BY <2>1 DEF StoreScore
  <2>3. m.ranges \subseteq Bands /\ m.score \in Nat
    BY <2>1 DEF Fits
  <2> DEFINE T == {y.score : y \in s.ranges}
  <2>4. \A y \in m.ranges : [y EXCEPT !.score = @ * w].score = y.score * w
    <3>1. \A y \in Bands : [y EXCEPT !.score = @ * w].score = y.score * w
      BY DEF Bands
    <3>2. QED
      BY <2>3, <3>1
  <2>5. m.ranges # {} /\ \A y \in m.ranges : y.score \in 0..3
    BY RangesOfMetrics
  <2>6. T = {y.score * w : y \in m.ranges}
    <3> DEFINE f(y) == [y EXCEPT !.score = @ * w]
    <3>1. s.ranges = {f(y) : y \in m.ranges} /\ \A y \in m.ranges : f(y).score = y.score * w
      BY <2>2, <2>4
    <3> HIDE DEF f
    <3>2. T = {f(y).score : y \in m.ranges}
      BY <3>1, Zenon
    <3>3. QED
      BY <3>1, <3>2, Zenon
  <2>7. \A n \in 0..3 : n * w \in Nat /\ n * w <= 3 * w
    <3> SUFFICES ASSUME NEW n \in 0..3 PROVE n * w \in Nat /\ n * w <= 3 * w
      OBVIOUS
    <3>1. w * n <= w * 3
      BY TimesOrdered
    <3>2. QED
      BY <3>1
  <2>8. T \in SUBSET Nat /\ T # {} /\ \A n \in T : n <= 3 * w
    BY <2>5, <2>6, <2>7
  <2> HIDE DEF T
  <2>9. Max(T) \in T
    <3>1. 3 * w \in Nat
      OBVIOUS
    <3>2. QED
      BY <2>8, <3>1, MaxIs
  <2>10. s.score \in Nat
    BY <2>2, <2>3
  <2>11. QED
    BY <2>8, <2>9, <2>10 DEF BestOf, T
<1>3. QED
  BY <1>1, <1>2
\* The shares of allocators with a high and with a low score do not overlap.
LEMMA SharesOfScores ==
  ASSUME FilPlusTypeOK
  PROVE  LET scores == ScoresOf([a \in Allocators |-> StoreScoring(a)])
         IN  GetCompliantAllocatorsStat(scores) + GetNonCompliantAllocatorsStat(scores) <= 10000
<1> DEFINE storing == [a \in Allocators |-> StoreScoring(a)]
           scores == ScoresOf(storing)
           points(a) == [s \in storing[a] |-> s.score]
           best(a) == [s \in storing[a] |-> Max({y.score : y \in s.ranges})]
           rec == [a \in Allocators |->
                    [allocator |-> a, score |-> SumOf(storing[a], points(a)), best |-> SumOf(storing[a], best(a))]]
           within(min, max) == GetAllocatorsIdsByScorePercentageThreshold(scores, min, max)
           H == within(CompliantScore, 100)
           L == within(0, NonCompliantScore)
           all == within(0, 100)
<1>1. scores = {rec[a] : a \in Allocators}
  BY DEF ScoresOf
<1>2. \A a \in Allocators : rec[a].score \in Nat /\ rec[a].best \in Nat
  <2> SUFFICES ASSUME NEW a \in Allocators PROVE rec[a].score \in Nat /\ rec[a].best \in Nat
    OBVIOUS
  <2> DEFINE S == storing[a]
             p == points(a)
             b == best(a)
  <2>1. IsFiniteSet(S) /\ \A s \in S : p[s] \in Nat /\ b[s] \in Nat
    BY StoringIs DEF BestOf
  <2>2. rec[a].score = SumOf(S, p) /\ rec[a].best = SumOf(S, b)
    OBVIOUS
  <2> HIDE DEF S, p, b, rec
  <2>3. \A f : (\A s \in S : f[s] \in Nat) => SumOf(S, f) \in Nat
    <3> SUFFICES ASSUME NEW f, \A s \in S : f[s] \in Nat PROVE SumOver(S, f) \in Nat
      BY SumOfIs
    <3>1. \A s \in S : f[s] \in Int
      OBVIOUS
    <3>2. SumOver(S, f) \in Int
      BY <2>1, <3>1, SumType
    <3>3. 0 <= SumOver(S, f)
      BY <2>1, SumPart
    <3>4. QED
      BY <3>2, <3>3
  <2>4. QED
    BY <2>1, <2>2, <2>3
<1>3. IsFiniteSet(scores) /\ \A x \in scores : x.score \in Nat /\ x.best \in Nat
  <2> HIDE DEF rec, scores
  <2>1. IsFiniteSet({rec[a] : a \in Allocators})
    BY ScoringAssumption, ImageSize
  <2>2. QED
    BY <1>1, <1>2, <2>1
<1> HIDE DEF scores
<1>4. \A x \in scores : \A min, max : x \in within(min, max) <=>
        x.best # 0 /\ min * x.best <= 100 * x.score /\ 100 * x.score <= max * x.best
  BY DEF GetAllocatorsIdsByScorePercentageThreshold
<1>5. \A min, max : within(min, max) \subseteq scores
  BY DEF GetAllocatorsIdsByScorePercentageThreshold
<1>6. CompliantScore \in Nat /\ NonCompliantScore \in Nat /\ NonCompliantScore < CompliantScore /\ CompliantScore <= 100
  BY DashboardAssumption
<1>7. \A x \in scores, v, w \in Nat : v <= w => v * x.best <= w * x.best /\ v * x.best \in Nat /\ w * x.best \in Nat
  <2> SUFFICES ASSUME NEW x \in scores, NEW v \in Nat, NEW w \in Nat, v <= w
               PROVE  v * x.best <= w * x.best /\ v * x.best \in Nat /\ w * x.best \in Nat
    OBVIOUS
  <2>1. x.best * v <= x.best * w
    BY <1>3, TimesOrdered
  <2>2. QED
    BY <1>3, <2>1
<1> HIDE DEF within
<1>8. H \cap L = {}
  <2> SUFFICES ASSUME NEW x \in scores, x \in H, x \in L PROVE FALSE
    BY <1>5
  <2>1. CompliantScore * x.best <= NonCompliantScore * x.best /\ x.best >= 1
    <3>1. /\ x.best # 0 /\ CompliantScore * x.best <= 100 * x.score
          /\ 100 * x.score <= NonCompliantScore * x.best
      BY <1>4
    <3>2. CompliantScore * x.best \in Nat /\ NonCompliantScore * x.best \in Nat
      BY <1>6, <1>7
    <3>3. QED
      BY <1>3, <3>1, <3>2
  <2>2. x.best * CompliantScore <= x.best * NonCompliantScore
    BY <1>3, <1>6, <2>1
  <2>3. CompliantScore <= NonCompliantScore
    BY <1>3, <1>6, <2>1, <2>2, TimesCancels
  <2>4. QED
    BY <1>6, <2>3
<1>9. H \subseteq all /\ L \subseteq all
  <2>1. ASSUME NEW x \in scores, NEW min \in Nat, NEW max \in Nat, max <= 100, x \in within(min, max) PROVE x \in all
    <3>1. x.best # 0 /\ 100 * x.score <= max * x.best
      BY <1>4, <2>1
    <3>2. max * x.best <= 100 * x.best /\ max * x.best \in Nat /\ 100 * x.best \in Nat
      BY <1>7, <2>1
    <3>3. 0 * x.best <= 100 * x.score /\ 100 * x.score <= 100 * x.best
      BY <1>3, <3>1, <3>2
    <3>4. QED
      BY <1>4, <3>1, <3>3
  <2>2. QED
    BY <1>5, <1>6, <2>1
<1>10. IsFiniteSet(all) /\ IsFiniteSet(H) /\ IsFiniteSet(L)
  BY <1>3, <1>5, FS_Subset
<1> HIDE DEF H, L, all
<1>11. Cardinality(H) + Cardinality(L) <= Cardinality(all)
  <2>1. Cardinality(H \cup L) = Cardinality(H) + Cardinality(L)
    <3>1. Cardinality(H \cup L) = Cardinality(H) + Cardinality(L) - Cardinality(H \cap L)
      BY <1>10, FS_Union
    <3>2. Cardinality(H \cap L) = 0
      BY <1>8, FS_EmptySet
    <3>3. Cardinality(H) \in Nat /\ Cardinality(L) \in Nat
      BY <1>10, FS_CardinalityType
    <3>4. QED
      BY <3>1, <3>2, <3>3
  <2>2. Cardinality(H \cup L) <= Cardinality(all)
    BY <1>9, <1>10, FS_Subset
  <2>3. QED
    BY <2>1, <2>2
<1>12. PercentOf(Cardinality(H), Cardinality(all)) + PercentOf(Cardinality(L), Cardinality(all)) <= 10000
  BY <1>10, <1>11, DisjointShares, FS_CardinalityType
<1>13. QED
  BY <1>12 DEF GetCompliantAllocatorsStat, GetNonCompliantAllocatorsStat, GetAllocatorsPercentageByScoreRange,
               H, L, all, within, scores

\* What is said of an allocator's clients.
LEMMA ClientStatsAre ==
  ASSUME StatisticsInv, NEW a
  PROVE  LET row == AllocatorClientStatsOf(a, today)
         IN  /\ row.numberOfClients = Cardinality(ClientsOf(a)) /\ row.numberOfClients \in Nat
             /\ row.returning \in Nat /\ row.returning <= 10000
             /\ \A c : Cardinality(AllocationsTo(a, c)) = 1 => row.returning <= 9999
<1> DEFINE of == {x \in AllocationsSince(0, today) : x.allocator = a}
           returning == {c \in ClientsOfAll(of) : Cardinality({x \in of : x.client = c}) > 1}
           row == AllocatorClientStatsOf(a, today)
<1>1. ClientsOfAll(of) = ClientsOf(a) /\ \A c : {x \in of : x.client = c} = AllocationsTo(a, c)
  BY ToDate DEF ClientsOfAll, ClientsOf, AllocationsTo
<1>2. returning = {c \in ClientsOf(a) : Cardinality(AllocationsTo(a, c)) > 1}
  BY <1>1
<1>3. /\ row.numberOfClients = Cardinality(ClientsOf(a))
      /\ row.returning = PercentOf(Cardinality(returning), Cardinality(ClientsOf(a)))
  BY <1>1 DEF AllocatorClientStatsOf
<1> HIDE DEF row, of, returning
<1>4. IsFiniteSet(ClientsOf(a)) /\ returning \subseteq ClientsOf(a)
  BY <1>2, ClientsAre DEF StatisticsInv, FilPlusInv
<1>5. /\ IsFiniteSet(returning) /\ Cardinality(returning) <= Cardinality(ClientsOf(a))
      /\ Cardinality(returning) = Cardinality(ClientsOf(a)) => returning = ClientsOf(a)
      /\ Cardinality(returning) \in Nat /\ Cardinality(ClientsOf(a)) \in Nat
  BY <1>4, FS_Subset, FS_CardinalityType
<1>6. row.returning \in Nat /\ row.returning <= 10000
  BY <1>3, <1>5, PercentIs
<1>7. ASSUME NEW c, Cardinality(AllocationsTo(a, c)) = 1 PROVE row.returning <= 9999
  <2>1. AllocationsTo(a, c) # {}
    BY <1>7, FS_EmptySet
  <2>2. c \in ClientsOf(a) /\ c \notin returning
    BY <1>2, <1>7, <2>1 DEF ClientsOf, AllocationsTo
  <2>3. Cardinality(returning) < Cardinality(ClientsOf(a))
    BY <1>5, <2>2
  <2>4. QED
    BY <1>3, <1>5, <2>3, SmallerShare
<1>8. QED
  BY <1>3, <1>5, <1>6, <1>7 DEF row

\* The numbers of allocators agree with each other.
LEMMA AllocatorsDo ==
  ASSUME StatisticsInv
  PROVE  AllocatorsAgree
<1> DEFINE clients == GetAllocatorsClientsStats(today)
           stats == [a \in Allocators |-> AllocatorClientStatsOf(a, today)]
           number == [a \in Allocators |-> stats[a].numberOfClients]
           share == [a \in Allocators |-> stats[a].returning]
           n == Cardinality(Allocators)
           N == SumOver(Allocators, number)
           R == SumOver(Allocators, share)
<1>0. IsFiniteSet(Allocators) /\ n \in Nat /\ (Allocators # {} => n >= 1)
  BY ScoringAssumption, FS_CardinalityType, FS_EmptySet
<1>1. /\ clients.averageNumberOfClients = IF Allocators = {} THEN 0 ELSE (100 * N) \div n
      /\ clients.averageReturningClientsPercentage = R \div n
  BY SumOfIs DEF GetAllocatorsClientsStats, AverageOf, BigIntDiv
<1>2. \A a \in Allocators : /\ number[a] = Cardinality(ClientsOf(a)) /\ number[a] \in Int
                            /\ share[a] \in Int /\ share[a] \in Nat /\ share[a] <= 10000
                            /\ \A c : Cardinality(AllocationsTo(a, c)) = 1 => share[a] <= 9999
  BY ClientStatsAre
<1> HIDE DEF clients, number, share, n, N, R
<1>3. N \in Int /\ R \in Int
  BY <1>0, <1>2, SumType DEF N, R
<1>4. ASSUME Allocators # {}
      PROVE  (clients.averageNumberOfClients + 1) * n > 100 * GetClientsCountStat(today)
  <2> DEFINE U == [a \in Allocators |-> ClientsOf(a)]
  <2>1. GetClientsCountStat(today) = Cardinality(Clientele) /\ IsFiniteSet(Clientele)
    <3>1. Clientele \subseteq Clients
      BY DEF Clientele, StatisticsInv, FilPlusInv, FilPlusTypeOK, Allocation
    <3>2. QED
      BY <3>1, ToDate, DashboardAssumption, FS_Subset DEF GetClientsCountStat, ClientsOfAll, Clientele
  <2>2. \A a \in Allocators : IsFiniteSet(U[a]) /\ number[a] = Cardinality(U[a])
    BY <1>2, ClientsAre DEF StatisticsInv, FilPlusInv
  <2>3. \A c \in Clientele : \E a \in Allocators : c \in U[a]
    BY DEF Clientele, ClientsOf, StatisticsInv, FilPlusInv, FilPlusTypeOK, Allocation
  <2> HIDE DEF U
  <2>4. Cardinality(Clientele) <= N
    BY <1>0, <2>1, <2>2, <2>3, CoverSize DEF N
  <2>5. Cardinality(Clientele) \in Nat
    BY <2>1, FS_CardinalityType
  <2> DEFINE b == 100 * N
             q == b \div n
  <2>6. b \in Nat /\ 100 * Cardinality(Clientele) <= b
    BY <1>3, <2>4, <2>5
  <2> HIDE DEF b
  <2>7. q \in Nat /\ b < n * q + n
    BY <1>0, <1>4, <2>6, CutOff
  <2>8. clients.averageNumberOfClients = q
    BY <1>1, <1>4 DEF b
  <2> HIDE DEF q
  <2>9. n * (q + 1) = n * q + n * 1 /\ n * q \in Int /\ n * (q + 1) = (q + 1) * n
    BY <1>0, <2>7, TimesSum
  <2>10. (q + 1) * n > 100 * Cardinality(Clientele)
    BY <1>0, <2>5, <2>6, <2>7, <2>9
  <2>11. QED
    BY <2>1, <2>8, <2>10
<1>5. ASSUME clients.averageReturningClientsPercentage = 10000, NEW a \in Allocators, NEW c \in Clients,
             Cardinality(AllocationsTo(a, c)) = 1
      PROVE  FALSE
  <2> DEFINE rest == Allocators \ {a}
             all == [x \in Allocators |-> 10000]
  <2>1. SumOver(Allocators, share) = share[a] + SumOver(rest, share)
    BY <1>0, <1>2, SumRemove
  <2>2. IsFiniteSet(rest) /\ Cardinality(rest) = n - 1
    BY <1>0, FS_RemoveElement DEF n
  <2>3. \A x \in rest : share[x] \in Int /\ all[x] \in Int /\ share[x] <= all[x] /\ all[x] = 10000
    BY <1>2
  <2> HIDE DEF rest, all
  <2>4. SumOver(rest, share) <= SumOver(rest, all)
    BY <2>2, <2>3, SumCompare
  <2>5. SumOver(rest, all) = 10000 * Cardinality(rest)
    BY <2>2, <2>3, SumConstant
  <2>6. SumOver(rest, share) \in Int
    BY <2>2, <2>3, SumType
  <2>7. share[a] \in Nat /\ share[a] <= 9999
    BY <1>2, <1>5
  <2>8. R < 10000 * n
    BY <1>0, <2>1, <2>2, <2>4, <2>5, <2>6, <2>7 DEF R
  <2>9. n >= 1 /\ R \div n = 10000
    BY <1>0, <1>1, <1>5
  <2>10. R \in Nat
    <3>1. 0 <= R
      BY <1>0, <1>2, SumPart DEF R
    <3>2. QED
      BY <1>3, <3>1
  <2>11. n * (R \div n) <= R
    BY <1>0, <2>9, <2>10, CutOff
  <2>12. QED
    BY <1>0, <1>3, <2>8, <2>9, <2>11
<1>6. QED
  BY <1>4, <1>5, SharesOfScores DEF AllocatorsAgree, clients, n, StatisticsInv, FilPlusInv

\* What the dashboard says of datacap, clients, providers and allocators agrees with
\* the tables it is counted from, and with itself.
THEOREM DashboardAlwaysAgrees == FilPlusSpec => []DashboardAgrees
<1>1. StatisticsInv => DashboardAgrees
  BY DatacapDoes, ListsDo, ProvidersDo, AllocatorsDo DEF DashboardAgrees
<1>2. QED
  BY <1>1, StatisticsInvariance, PTL

-----------------------------------------------------------------------------
(* What is over *)

\* What a step adds is of today.
LEMMA StepAdds ==
  ASSUME StatisticsInv, [FilPlusNext]_filPlusVars
  PROVE  /\ today \in Nat /\ today' \in {today, today + 1}
         /\ allocations \subseteq allocations' /\ claims \subseteq claims'
         /\ \A x \in allocations' \ allocations : x.day = today
         /\ \A k \in claims' \ claims : k.day = today
<1>1. today \in Nat
  BY DEF StatisticsInv, FilPlusInv, FilPlusTypeOK, Days
<1>2. ASSUME NEW a \in Allocators, NEW c \in Clients, Allocate(a, c)
      PROVE  /\ today' = today /\ claims' = claims
             /\ allocations' = allocations \cup {[allocator |-> a, client |-> c, day |-> today]}
  BY <1>2 DEF Allocate
<1>3. ASSUME NEW c \in Clients, NEW p \in Providers, NEW piece \in Pieces, ClaimPiece(c, p, piece)
      PROVE  /\ today' = today /\ allocations' = allocations
             /\ claims' = claims \cup {[client |-> c, provider |-> p, piece |-> piece, day |-> today]}
  BY <1>3 DEF ClaimPiece
<1>4. ASSUME NextDay
      PROVE  today' = today + 1 /\ allocations' = allocations /\ claims' = claims
  BY <1>4 DEF NextDay
<1>5. QED
  BY <1>1, <1>2, <1>3, <1>4 DEF FilPlusNext, filPlusVars

\* What a step leaves as it is: the rows of the days and of the weeks that are over.
LEMMA PastRows ==
  ASSUME StatisticsInv, [FilPlusNext]_filPlusVars
  PROVE  /\ \A first : \A day \in Int : day < today =>
              /\ AllocationsSince(first, day)' = AllocationsSince(first, day)
              /\ ClaimsSince(first, day)' = ClaimsSince(first, day)
         /\ \A week \in Int : week < ThisWeek =>
              AllocationsUpTo(week)' = AllocationsUpTo(week) /\ ClaimsUpTo(week)' = ClaimsUpTo(week)
<1>1. /\ today \in Nat /\ allocations \subseteq allocations' /\ claims \subseteq claims'
      /\ \A x \in allocations' \ allocations : x.day = today
      /\ \A k \in claims' \ claims : k.day = today
  BY StepAdds
<1>2. ASSUME NEW first, NEW day \in Int, day < today
      PROVE  /\ AllocationsSince(first, day)' = AllocationsSince(first, day)
             /\ ClaimsSince(first, day)' = ClaimsSince(first, day)
  BY <1>1, <1>2 DEF AllocationsSince, ClaimsSince
<1>3. ASSUME NEW week \in Int, week < ThisWeek
      PROVE  AllocationsUpTo(week)' = AllocationsUpTo(week) /\ ClaimsUpTo(week)' = ClaimsUpTo(week)
  <2>1. Week(today) \in Int
    BY <1>1, FilPlusAssumption DEF Week
  <2>2. \A x \in allocations' \ allocations : ~(Week(x.day) <= week)
    BY <1>1, <1>3, <2>1 DEF ThisWeek
  <2>3. \A k \in claims' \ claims : ~(Week(k.day) <= week)
    BY <1>1, <1>3, <2>1 DEF ThisWeek
  <2>4. QED
    BY <1>1, <2>2, <2>3 DEF AllocationsUpTo, ClaimsUpTo
<1>4. QED
  BY <1>2, <1>3

\* The numbers of providers up to a day that is over stay.
LEMMA ProvidersOfPast ==
  ASSUME StatisticsInv, [FilPlusNext]_filPlusVars, NEW day \in 0..(today - 1)
  PROVE  ProvidersNumbers(day, 1)' = ProvidersNumbers(day, 1)
<1>1. today \in Nat
  BY StepAdds
<1>2. /\ ClaimsSince(0, day)' = ClaimsSince(0, day)
      /\ ClaimsSince(0, day - 1)' = ClaimsSince(0, day - 1)
      /\ ClaimsSince(day - 1 + 1, day)' = ClaimsSince(day - 1 + 1, day)
  BY <1>1, PastRows
<1>3. MeasuredOn(day)' = MeasuredOn(day)
  BY <1>2 DEF MeasuredOn
<1>4. GetStorageProvidersCountStat(day)' = GetStorageProvidersCountStat(day)
  BY <1>2 DEF GetStorageProvidersCountStat
<1>5. /\ GetDDOPercentageStat(0, day)' = GetDDOPercentageStat(0, day)
      /\ GetDDOPercentageStat(day - 1 + 1, day)' = GetDDOPercentageStat(day - 1 + 1, day)
  BY <1>2 DEF GetDDOPercentageStat
<1>6. GetStorageProvidersPercentageByUrlFinderRetrievability(day, HighRetrievability)'
        = GetStorageProvidersPercentageByUrlFinderRetrievability(day, HighRetrievability)
  BY <1>3 DEF GetStorageProvidersPercentageByUrlFinderRetrievability
<1>7. GetAverageUrlFinderRetrievabilityStats(day)' = GetAverageUrlFinderRetrievabilityStats(day)
  BY <1>3 DEF GetAverageUrlFinderRetrievabilityStats
<1>8. GetStorageProvidersReportingToIPNIPercentage(day)' = GetStorageProvidersReportingToIPNIPercentage(day)
  BY <1>2, <1>3 DEF GetStorageProvidersReportingToIPNIPercentage, GetAggregatedProvidersReportingStatus
<1>9. QED
  BY <1>4, <1>5, <1>6, <1>7, <1>8 DEF ProvidersNumbers
\* So do those of clients.
LEMMA ClientsOfPast ==
  ASSUME StatisticsInv, [FilPlusNext]_filPlusVars, NEW day \in 0..(today - 1)
  PROVE  ClientsNumbers(day)' = ClientsNumbers(day)
<1>1. today \in Nat
  BY StepAdds
<1>2. /\ ClaimsSince(0, day)' = ClaimsSince(0, day)
      /\ AllocationsSince(0, day)' = AllocationsSince(0, day)
      /\ AllocationsSince(day - ActiveDays + 1, day)' = AllocationsSince(day - ActiveDays + 1, day)
  BY <1>1, PastRows
<1>3. \A c : Remaining(c, day)' = Remaining(c, day)
  BY <1>2 DEF Remaining
<1>4. [c \in Clients |-> Remaining(c, day)]' = [c \in Clients |-> Remaining(c, day)]
  BY <1>3
<1>5. GetClientsGenericStats(day)' = GetClientsGenericStats(day)
  BY <1>2, <1>3, <1>4 DEF GetClientsGenericStats
<1>6. /\ GetClientsCountStat(day)' = GetClientsCountStat(day)
      /\ GetActiveClientsStat(day)' = GetActiveClientsStat(day)
      /\ GetDatacapSpentByClientsStat(day)' = GetDatacapSpentByClientsStat(day)
  BY <1>2 DEF GetClientsCountStat, GetActiveClientsStat, GetDatacapSpentByClientsStat
<1>7. QED
  BY <1>5, <1>6 DEF ClientsNumbers

DealsAfter(x, day) == {k.day : k \in {j \in ClaimsSince(x.day, day) : j.client = x.client}}

\* And those of the allocators' clients.
LEMMA AllocatorsOfPast ==
  ASSUME StatisticsInv, [FilPlusNext]_filPlusVars, NEW day \in 0..(today - 1)
  PROVE  GetAllocatorsClientsStats(day)' = GetAllocatorsClientsStats(day)
<1>1. today \in Nat
  BY StepAdds
<1>2. /\ \A first : ClaimsSince(first, day)' = ClaimsSince(first, day)
      /\ AllocationsSince(0, day)' = AllocationsSince(0, day)
  BY <1>1, PastRows
<1>3. \A set : DaysToFirstDeal(set, day)' = DaysToFirstDeal(set, day)
  <2> SUFFICES ASSUME NEW set PROVE DaysToFirstDeal(set, day)' = DaysToFirstDeal(set, day)
    OBVIOUS
  <2>1. \A x : DealsAfter(x, day)' = DealsAfter(x, day)
    BY <1>2 DEF DealsAfter
  <2>2. DaysToFirstDeal(set, day) = {[allocation |-> x, days |-> Min(DealsAfter(x, day)) - x.day]
                                       : x \in {y \in set : DealsAfter(y, day) # {}}}
    BY DEF DaysToFirstDeal, DealsAfter
  <2>3. DaysToFirstDeal(set, day)' = {[allocation |-> x, days |-> Min(DealsAfter(x, day)') - x.day]
                                       : x \in {y \in set : DealsAfter(y, day)' # {}}}
    BY DEF DaysToFirstDeal, DealsAfter
  <2>4. QED
    BY <2>1, <2>2, <2>3
<1>4. \A set : GetAverageSecondsToFirstDeal(set, day)' = GetAverageSecondsToFirstDeal(set, day)
  BY <1>3 DEF GetAverageSecondsToFirstDeal
<1>5. \A a : AllocatorClientStatsOf(a, day)' = AllocatorClientStatsOf(a, day)
  BY <1>2, <1>3, <1>4 DEF AllocatorClientStatsOf
<1>6. [a \in Allocators |-> AllocatorClientStatsOf(a, day)]' = [a \in Allocators |-> AllocatorClientStatsOf(a, day)]
  BY <1>5
<1>7. QED
  BY <1>6 DEF GetAllocatorsClientsStats

\* The verdicts on providers are the same for any average when it is not asked for.
LEMMA AnyAverage ==
  ASSUME NEW rows, NEW p, NEW q, NEW metrics \in SUBSET {"numberOfClients", "totalDealSize"}
  PROVE  {[provider |-> row.name, total |-> row.total,
           score |-> CalculateProviderComplianceScore(row, p, metrics)] : row \in rows}
         = {[provider |-> row.name, total |-> row.total,
             score |-> CalculateProviderComplianceScore(row, q, metrics)] : row \in rows}
<1>1. ASSUME NEW row
      PROVE  CalculateProviderComplianceScore(row, p, metrics) = CalculateProviderComplianceScore(row, q, metrics)
  <2>1. \A m \in metrics : MeetsMetric(row, p, m) <=> MeetsMetric(row, q, m)
    BY DEF MeetsMetric
  <2>2. {m \in metrics : ~MeetsMetric(row, p, m)} = {m \in metrics : ~MeetsMetric(row, q, m)}
    BY <2>1
  <2>3. QED
    BY <2>2, Zenon DEF CalculateProviderComplianceScore
<1>2. QED
  BY <1>1

\* The verdicts of a week that is over stay, if the retrievability is not asked for.
LEMMA VerdictsOfPast ==
  ASSUME StatisticsInv, [FilPlusNext]_filPlusVars, NEW week \in Int, week < ThisWeek
  PROVE  /\ ProvidersWeeklyAcc(week)' = ProvidersWeeklyAcc(week)
         /\ AllocatorsWeeklyAcc(week)' = AllocatorsWeeklyAcc(week)
         /\ \A metrics \in SUBSET {"numberOfClients", "totalDealSize"} :
              WeekProvidersCompliance(week, metrics)' = WeekProvidersCompliance(week, metrics)
<1>1. AllocationsUpTo(week)' = AllocationsUpTo(week) /\ ClaimsUpTo(week)' = ClaimsUpTo(week)
  BY PastRows
<1>2. \A p : ClaimsAt(p, week)' = ClaimsAt(p, week)
  BY <1>1 DEF ClaimsAt
<1>3. \A a : AllocatedBy(a, week)' = AllocatedBy(a, week)
  BY <1>1 DEF AllocatedBy
<1>4. ProvidersWeeklyAcc(week)' = ProvidersWeeklyAcc(week)
  BY <1>1, <1>2 DEF ProvidersWeeklyAcc
<1>5. AllocatorsWeeklyAcc(week)' = AllocatorsWeeklyAcc(week)
  BY <1>1, <1>3 DEF AllocatorsWeeklyAcc
<1>6. ASSUME NEW metrics \in SUBSET {"numberOfClients", "totalDealSize"}
      PROVE  WeekProvidersCompliance(week, metrics)' = WeekProvidersCompliance(week, metrics)
  <2> DEFINE rows == ProvidersWeeklyAcc(week)
             average == GetWeekAverageProviderRetrievability(rows, TRUE)
             verdicts(av) == {[provider |-> row.name, total |-> row.total,
                               score |-> CalculateProviderComplianceScore(row, av, metrics)] : row \in rows}
  <2>1. WeekProvidersCompliance(week, metrics) = verdicts(average)
    BY DEF WeekProvidersCompliance, ProvidersCompliance, ProvidersScored
  <2>2. WeekProvidersCompliance(week, metrics)'
          = {[provider |-> row.name, total |-> row.total,
              score |-> CalculateProviderComplianceScore(row, average', metrics)] : row \in rows'}
    BY DEF WeekProvidersCompliance, ProvidersCompliance, ProvidersScored
  <2>3. \A p, q : verdicts(p) = verdicts(q)
    BY AnyAverage
  <2>4. QED
    BY <1>4, <2>1, <2>2, <2>3
<1>7. QED
  BY <1>4, <1>5, <1>6

\* The weeks shown go on being shown.
LEMMA WeeksShown ==
  ASSUME StatisticsInv, [FilPlusNext]_filPlusVars
  PROVE  /\ ThisWeek \in Nat /\ ThisWeek' \in Nat /\ ThisWeek <= ThisWeek'
         /\ \A w \in WithoutCurrentWeek(GetWeeksTracked) :
              w \in Nat /\ w < ThisWeek /\ w \in WithoutCurrentWeek(GetWeeksTracked)'
         /\ \A w \in WithoutCurrentWeek(WeeksAllocated) :
              w \in Nat /\ w < ThisWeek /\ w \in WithoutCurrentWeek(WeeksAllocated)'
<1>1. today \in Nat /\ today' \in Nat /\ today <= today'
  BY StepAdds
<1>2. ThisWeek \in Nat /\ ThisWeek' \in Nat /\ ThisWeek <= ThisWeek'
  BY <1>1, WeeksInOrder DEF ThisWeek
<1>3. \A w : w \in 0..ThisWeek \ {ThisWeek} =>
         /\ w \in Nat /\ w < ThisWeek /\ w \in 0..ThisWeek' \ {ThisWeek'}
         /\ ClaimsUpTo(w)' = ClaimsUpTo(w) /\ AllocationsUpTo(w)' = AllocationsUpTo(w)
  BY <1>2, PastRows
<1>4. QED
  BY <1>2, <1>3 DEF WithoutCurrentWeek, GetWeeksTracked, WeeksAllocated

\* The verdicts shown stay.
LEMMA ComplianceStays ==
  ASSUME StatisticsInv, [FilPlusNext]_filPlusVars, NEW metrics \in SUBSET {"numberOfClients", "totalDealSize"}
  PROVE  GetProviderComplianceWeekly(metrics) \subseteq GetProviderComplianceWeekly(metrics)'
<1> DEFINE rec(w, c) == [week |-> w, totalSps |-> Cardinality(c), sps |-> Sps(c), datacap |-> Datacap(c)]
<1>1. GetProviderComplianceWeekly(metrics)
        = {rec(w, WeekProvidersCompliance(w, metrics)) : w \in WithoutCurrentWeek(GetWeeksTracked)}
  BY DEF GetProviderComplianceWeekly
<1>2. GetProviderComplianceWeekly(metrics)'
        = {rec(w, WeekProvidersCompliance(w, metrics)') : w \in WithoutCurrentWeek(GetWeeksTracked)'}
  BY DEF GetProviderComplianceWeekly
<1> HIDE DEF rec
<1>3. \A w \in WithoutCurrentWeek(GetWeeksTracked) :
        /\ w \in WithoutCurrentWeek(GetWeeksTracked)'
        /\ WeekProvidersCompliance(w, metrics)' = WeekProvidersCompliance(w, metrics)
  BY WeeksShown, VerdictsOfPast
<1>4. QED
  BY <1>1, <1>2, <1>3

\* A histogram shows the same of a week as long as its table is the same and the top is given.
LEMMA HistogramStays ==
  \A old, new, by, shown, later :
    (\A w \in shown \cap DOMAIN old : w \in later \cap DOMAIN new /\ new[w] = old[w]) =>
      GetWeeklyHistogramResult(Flat(old, by), 5, 100, shown)
        \subseteq GetWeeklyHistogramResult(Flat(new, by), 5, 100, later)
<1> SUFFICES ASSUME NEW old, NEW new, NEW by, NEW shown, NEW later,
                    \A w \in shown \cap DOMAIN old : w \in later \cap DOMAIN new /\ new[w] = old[w]
             PROVE  GetWeeklyHistogramResult(Flat(old, by), 5, 100, shown)
                      \subseteq GetWeeklyHistogramResult(Flat(new, by), 5, 100, later)
  OBVIOUS
<1> DEFINE at(w, rows) == [week |-> w, results |-> Buckets(rows, by)]
           rec(x) == [week |-> x.week, total |-> CountOf(x.results),
                      results |-> x.results \cup MissingBuckets(x.results, 5, 100)]
<1>1. \A flat, weeks : GetWeeklyHistogramResult(flat, 5, 100, weeks) = {rec(x) : x \in {x \in flat : x.week \in weeks}}
  BY DEF GetWeeklyHistogramResult
<1>2. \A tables : Flat(tables, by) = {at(w, tables[w]) : w \in DOMAIN tables}
  BY DEF Flat
<1>3. \A w, rows : at(w, rows).week = w
  OBVIOUS
<1> HIDE DEF at, rec
<1>4. {x \in Flat(old, by) : x.week \in shown} \subseteq {x \in Flat(new, by) : x.week \in later}
  BY <1>2, <1>3
<1>5. QED
  BY <1>1, <1>4

\* The histogram of the providers by share of their biggest client stays.
LEMMA HistogramsStay ==
  ASSUME StatisticsInv, [FilPlusNext]_filPlusVars
  PROVE  GetProviderBiggestClientDistributionWeekly \subseteq GetProviderBiggestClientDistributionWeekly'
<1> DEFINE show(tables) == WithoutCurrentWeek(DOMAIN tables)
<1>1. DOMAIN ProviderTables = GetWeeksTracked /\ (DOMAIN ProviderTables)' = GetWeeksTracked'
  BY DEF ProviderTables
<1>2. \A w \in show(ProviderTables) :
        /\ w \in show(ProviderTables)' \cap DOMAIN ProviderTables'
        /\ ProviderTables'[w] = ProviderTables[w]
  BY <1>1, WeeksShown, VerdictsOfPast DEF ProviderTables, WithoutCurrentWeek
<1>3. QED
  BY <1>2, HistogramStays DEF GetProviderBiggestClientDistributionWeekly, Histogram

Monday == ThisWeek * DaysPerWeek

\* The date of a row is the first day of its week.
LEMMA WeekDates ==
  ASSUME NEW row, row[2] \in Nat
  PROVE  /\ DateOf(row, "week") = row[2] * DaysPerWeek
         /\ DateOf(row, "week") \in Nat /\ Week(DateOf(row, "week")) = row[2]
<1> DEFINE n == row[2]
           s == DaysPerWeek
           q == (n * s + s - 1) \div s
           w == (n * s) \div s
<1>1. s \in Nat /\ s >= 1 /\ n \in Nat
  BY FilPlusAssumption
<1>2. n * s \in Nat /\ n * s + s - 1 \in Nat
  BY <1>1
<1>3. /\ q \in Nat /\ s * q <= n * s + s - 1 /\ n * s + s - 1 < s * q + s
      /\ w \in Nat /\ s * w <= n * s /\ n * s < s * w + s
  <2> HIDE DEF n, s
  <2>1. QED
    BY <1>1, <1>2, CutOff
<1>4. DateOf(row, "week") = s * q /\ Week(n * s) = w
  BY DEF DateOf, PeriodDays, Week
<1> HIDE DEF n, s, q, w
<1>5. ASSUME NEW y \in Nat, s * y <= n * s + s - 1, n * s < s * y + s
      PROVE  y = n
  <2>1. ASSUME y >= n + 1 PROVE FALSE
    <3>1. s * (n + 1) <= s * y /\ s * (n + 1) = s * n + s
      BY <1>1, <1>5, <2>1, TimesOrdered
    <3>2. QED
      BY <1>1, <1>2, <1>5, <3>1
  <2>2. ASSUME n >= y + 1 PROVE FALSE
    <3>1. s * (y + 1) <= s * n /\ s * (y + 1) = s * y + s
      BY <1>1, <1>5, <2>2, TimesOrdered
    <3>2. QED
      BY <1>1, <1>2, <1>5, <3>1
  <2>3. QED
    BY <1>1, <1>5, <2>1, <2>2
<1>6. q = n /\ w = n
  BY <1>1, <1>2, <1>3, <1>5
<1>7. QED
  BY <1>1, <1>2, <1>4, <1>6 DEF n, s

\* A step adds rows of the current week to an allocator's, and changes only such ones.
LEMMA RowsAdded ==
  ASSUME StatisticsInv, [FilPlusNext]_filPlusVars, NEW a
  PROVE  /\ WeeklyRows(a) \subseteq WeeklyRows(a)'
         /\ \A row \in WeeklyRows(a)' \ WeeklyRows(a) : row[2] = ThisWeek
         /\ \A row \in WeeklyRows(a) : row[2] \in Nat /\ row[2] <= ThisWeek
         /\ \A row : row[2] # ThisWeek => Amount(a, row)' = Amount(a, row)
<1>1. /\ today \in Nat /\ allocations \subseteq allocations'
      /\ \A x \in allocations' \ allocations : x.day = today
  BY StepAdds
<1>2. WeeklyRows(a) \subseteq WeeklyRows(a)' /\ \A row \in WeeklyRows(a)' \ WeeklyRows(a) : row[2] = ThisWeek
  BY <1>1 DEF WeeklyRows, ThisWeek
<1>3. \A row \in WeeklyRows(a) : row[2] \in Nat /\ row[2] <= ThisWeek
  <2>1. \A x \in allocations : x.day \in Nat /\ x.day <= today
    BY AllocationsAre DEF StatisticsInv, FilPlusInv
  <2>2. \A x \in allocations : Week(x.day) \in Nat /\ Week(x.day) <= ThisWeek
    BY <1>1, <2>1, WeeksInOrder DEF ThisWeek
  <2>3. QED
    BY <2>2 DEF WeeklyRows
<1>4. \A row : row[2] # ThisWeek => Amount(a, row)' = Amount(a, row)
  <2> SUFFICES ASSUME NEW row, row[2] # ThisWeek PROVE Amount(a, row)' = Amount(a, row)
    OBVIOUS
  <2>1. {x \in AllocationsTo(a, row[1]) : Week(x.day) = row[2]}'
          = {x \in AllocationsTo(a, row[1]) : Week(x.day) = row[2]}
    BY <1>1 DEF AllocationsTo, ThisWeek
  <2>2. QED
    BY <2>1 DEF Amount
<1>5. QED
  BY <1>2, <1>3, <1>4

\* The dates of an allocator's entries go on from where they were.
LEMMA DatesGoOn ==
  ASSUME StatisticsInv, [FilPlusNext]_filPlusVars, NEW a
  PROVE  EveryDate(a, "week") \subseteq EveryDate(a, "week")'
<1> DEFINE old == Dates(a, "week")
           new == Dates(a, "week")'
<1>1. /\ old \in SUBSET Nat /\ IsFiniteSet(old)
      /\ old = {} => EveryDate(a, "week") = {}
      /\ old # {} => /\ Min(old) \in old /\ Max(old) \in old
                     /\ \A d \in old : Min(old) <= d /\ d <= Max(old)
  BY DatesAre DEF Periods, StatisticsInv, FilPlusInv
<1>2. Monday \in Nat /\ ThisWeek \in Nat
  BY WeeksShown, FilPlusAssumption DEF Monday
<1>3. \A row \in WeeklyRows(a) : DateOf(row, "week") <= Monday
  <2> SUFFICES ASSUME NEW row \in WeeklyRows(a) PROVE DateOf(row, "week") <= Monday
    OBVIOUS
  <2>1. row[2] \in Nat /\ row[2] <= ThisWeek
    BY RowsAdded
  <2>2. DaysPerWeek * row[2] <= DaysPerWeek * ThisWeek
    BY <1>2, <2>1, TimesOrdered, FilPlusAssumption
  <2>3. QED
    BY <1>2, <2>1, <2>2, WeekDates, FilPlusAssumption DEF Monday
<1>4. \A row \in WeeklyRows(a)' \ WeeklyRows(a) : DateOf(row, "week") = Monday
  BY <1>2, RowsAdded, WeekDates DEF Monday
<1>5. new = {DateOf(row, "week") : row \in WeeklyRows(a)'}
  BY DEF Dates
<1>6. old = {DateOf(row, "week") : row \in WeeklyRows(a)}
  BY DEF Dates
<1>7. old \subseteq new /\ new \subseteq old \cup {Monday} /\ \A d \in old : d <= Monday
  BY <1>3, <1>4, <1>5, <1>6, RowsAdded
<1>8. EveryDate(a, "week") = IF old = {} THEN {}
                             ELSE {d \in Min(old)..Max(old) : (d - Min(old)) % PeriodDays("week") = 0}
  BY DEF EveryDate
<1>9. EveryDate(a, "week")' = IF new = {} THEN {}
                              ELSE {d \in Min(new)..Max(new) : (d - Min(new)) % PeriodDays("week") = 0}
  BY DEF EveryDate
<1> HIDE DEF old, new
<1>10. \A T \in SUBSET Nat : IsFiniteSet(T) /\ T # {} =>
         Min(T) \in T /\ Max(T) \in T /\ \A d \in T : Min(T) <= d /\ d <= Max(T)
  BY MinIs, MaxOfFinite
<1>11. new \in SUBSET Nat /\ IsFiniteSet(new)
  <2>1. IsFiniteSet(old \cup {Monday})
    BY <1>1, FS_AddElement
  <2>2. QED
    BY <1>1, <1>2, <1>7, <2>1, FS_Subset
<1>12. ASSUME old # {}
       PROVE  Min(new) = Min(old) /\ Max(old) <= Max(new) /\ new # {} /\ Min(old) \in Nat /\ Max(old) \in Nat /\ Max(new) \in Nat
  <2>1. Min(new) \in new /\ Max(new) \in new /\ \A d \in new : Min(new) <= d /\ d <= Max(new)
    BY <1>7, <1>10, <1>11, <1>12
  <2>2. Min(new) \in old \/ Min(new) = Monday
    BY <1>7, <2>1
  <2>3. /\ Min(old) \in Nat /\ Max(old) \in Nat /\ Min(old) \in new /\ Max(old) \in new
        /\ Min(old) <= Monday /\ \A d \in old : Min(old) <= d
    BY <1>1, <1>7, <1>12
  <2>4. Min(new) \in Nat /\ Max(new) \in Nat
    BY <1>11, <2>1
  <2>5. Min(new) <= Min(old) /\ Max(old) <= Max(new)
    BY <2>1, <2>3
  <2>6. Min(old) <= Min(new)
    BY <2>2, <2>3
  <2>7. Min(new) = Min(old)
    BY <2>3, <2>4, <2>5, <2>6
  <2>8. QED
    BY <1>7, <1>12, <2>3, <2>4, <2>5, <2>7
<1>13. QED
  BY <1>1, <1>8, <1>9, <1>12

\* The entries of weeks that are over stay.
LEMMA EntriesStay ==
  ASSUME StatisticsInv, [FilPlusNext]_filPlusVars, NEW a
  PROVE  PastEntries(a) \subseteq PastEntries(a)'
<1>1. ThisWeek \in Nat /\ ThisWeek' \in Nat /\ ThisWeek <= ThisWeek'
  BY WeeksShown
<1>2. ASSUME NEW d \in Nat, Week(d) < ThisWeek
      PROVE  Entry(a, "week", d)' = Entry(a, "week", d)
  <2>1. \A n : n \in Int /\ n <= d => RowsUpTo(a, "week", n)' = RowsUpTo(a, "week", n)
    <3> SUFFICES ASSUME NEW n \in Int, n <= d PROVE RowsUpTo(a, "week", n)' = RowsUpTo(a, "week", n)
      OBVIOUS
    <3>1. ASSUME NEW row \in WeeklyRows(a)' \ WeeklyRows(a), DateOf(row, "week") <= n PROVE FALSE
      <4>1. row[2] = ThisWeek
        BY <3>1, RowsAdded
      <4>2. DateOf(row, "week") \in Nat /\ Week(DateOf(row, "week")) = ThisWeek
        BY <1>1, <4>1, WeekDates
      <4>3. ThisWeek <= Week(d) /\ Week(d) \in Nat
        BY <3>1, <4>2, WeeksInOrder
      <4>4. QED
        BY <1>1, <1>2, <4>3
    <3>2. QED
      BY <3>1, RowsAdded DEF RowsUpTo
  <2>2. \A row \in RowsUpTo(a, "week", d) : Amount(a, row)' = Amount(a, row)
    <3> SUFFICES ASSUME NEW row \in RowsUpTo(a, "week", d) PROVE row[2] # ThisWeek
      BY RowsAdded
    <3>1. row[2] \in Nat /\ DateOf(row, "week") <= d
      BY RowsAdded DEF RowsUpTo
    <3>2. row[2] <= Week(d) /\ Week(d) \in Nat
      BY <3>1, WeekDates, WeeksInOrder
    <3>3. QED
      BY <1>1, <1>2, <3>1, <3>2
  <2> DEFINE rows == RowsUpTo(a, "week", d)
  <2>3. rows' = rows /\ RowsUpTo(a, "week", d - 1)' = RowsUpTo(a, "week", d - 1)
    BY <2>1
  <2>4. \A part \in SUBSET rows : AmountOf(a, part)' = AmountOf(a, part)
    <3> SUFFICES ASSUME NEW part \in SUBSET rows PROVE AmountOf(a, part)' = AmountOf(a, part)
      OBVIOUS
    <3>1. [row \in part |-> Amount(a, row)]' = [row \in part |-> Amount(a, row)]
      BY <2>2
    <3>2. QED
      BY <3>1 DEF AmountOf
  <2>5. NewClients(a, "week", d)' = NewClients(a, "week", d)
    BY <2>3 DEF NewClients
  <2>6. ClientsToDate(a, rows)' = ClientsToDate(a, rows)
    BY <2>3, <2>4 DEF ClientsToDate
  <2>7. QED
    BY <2>3, <2>4, <2>5, <2>6 DEF Entry
<1>3. \A d \in EveryDate(a, "week") : d \in Nat
  BY DatesAre DEF Periods, StatisticsInv, FilPlusInv
<1>4. PastEntries(a) = {e \in {Entry(a, "week", d) : d \in EveryDate(a, "week")} : Week(e.date) < ThisWeek}
  BY DEF PastEntries, GetAllocationsByAllocator
<1>5. PastEntries(a)' = {e \in {Entry(a, "week", d)' : d \in EveryDate(a, "week")'} : Week(e.date) < ThisWeek'}
  BY DEF PastEntries, GetAllocationsByAllocator
<1>6. \A d : Entry(a, "week", d).date = d
  BY EntriesAre
<1>7. \A d \in Nat : Week(d) \in Nat
  BY WeeksInOrder
<1>8. QED
  BY <1>1, <1>2, <1>3, <1>4, <1>5, <1>6, <1>7, DatesGoOn

\* What is no less than it was is not shown as fallen.
LEMMA NotFallen ==
  ASSUME NEW current \in Nat, NEW previous \in Nat, previous <= current
  PROVE  \A change \in CalculateDashboardStatistic(current, previous) : ~(change < 0)
<1>1. ASSUME previous # 0 PROVE ~(BigIntDiv(current, previous) - 100 < 0)
  <2> DEFINE q == (100 * current) \div previous
  <2>1. q \in Nat /\ 100 * current < previous * q + previous
    BY <1>1, CutOff
  <2> HIDE DEF q
  <2>2. ASSUME q + 1 <= 100 PROVE FALSE
    <3>1. previous * (q + 1) <= previous * 100 /\ previous * (q + 1) = previous * q + previous
      BY <2>1, <2>2, TimesOrdered
    <3>2. QED
      BY <2>1, <3>1
  <2>3. QED
    BY <2>1, <2>2 DEF BigIntDiv, q
<1>2. QED
  BY <1>1 DEF CalculateDashboardStatistic

\* The rows up to a day are among those of today, and there are no more providers or clients
\* of them, and no more was claimed.
LEMMA NumbersGrow ==
  ASSUME StatisticsInv, NEW day \in Nat, day <= today
  PROVE  /\ \A n \in {day, today} : /\ GetStorageProvidersCountStat(n) \in Nat /\ GetClientsCountStat(n) \in Nat
                                    /\ GetDatacapSpentByClientsStat(n) \in Nat
                                    /\ GetClientsGenericStats(n).clientsWithActiveDeals \in Nat
         /\ GetStorageProvidersCountStat(day) <= GetStorageProvidersCountStat(today)
         /\ GetClientsCountStat(day) <= GetClientsCountStat(today)
         /\ GetDatacapSpentByClientsStat(day) <= GetDatacapSpentByClientsStat(today)
         /\ GetClientsGenericStats(day).clientsWithActiveDeals <= GetClientsGenericStats(today).clientsWithActiveDeals
<1> DEFINE provider == [k \in claims |-> k.provider]
           claimant == [k \in claims |-> k.client]
           holder == [x \in allocations |-> x.client]
<1>1. /\ IsFiniteSet(claims) /\ IsFiniteSet(allocations) /\ claims \in SUBSET Claim
      /\ AllocationsSince(0, today) = allocations /\ ClaimsSince(0, today) = claims
      /\ AllocationsSince(0, day) \subseteq allocations /\ ClaimsSince(0, day) \subseteq claims
  BY ToDate DEF StatisticsInv, FilPlusInv, FilPlusTypeOK, AllocationsSince, ClaimsSince
<1>2. \A S \in SUBSET claims : ProvidersIn(S) = {provider[k] : k \in S} /\ ClientsOfAll(S) = {claimant[k] : k \in S}
  BY DEF ProvidersIn, ClientsOfAll
<1>3. \A S \in SUBSET allocations : ClientsOfAll(S) = {holder[x] : x \in S}
  BY DEF ClientsOfAll
<1> HIDE DEF provider, claimant, holder
<1>4. \A f, S, T : IsFiniteSet(T) /\ S \subseteq T =>
        /\ Cardinality({f[x] : x \in S}) \in Nat /\ Cardinality({f[x] : x \in T}) \in Nat
        /\ Cardinality({f[x] : x \in S}) <= Cardinality({f[x] : x \in T})
  <2> SUFFICES ASSUME NEW f, NEW S, NEW T, IsFiniteSet(T), S \subseteq T
               PROVE  /\ Cardinality({f[x] : x \in S}) \in Nat /\ Cardinality({f[x] : x \in T}) \in Nat
                      /\ Cardinality({f[x] : x \in S}) <= Cardinality({f[x] : x \in T})
    OBVIOUS
  <2>1. IsFiniteSet({f[x] : x \in T}) /\ {f[x] : x \in S} \subseteq {f[x] : x \in T}
    BY ImageSize
  <2>2. QED
    BY <2>1, FS_Subset, FS_CardinalityType
<1>5. /\ GetStorageProvidersCountStat(day) <= GetStorageProvidersCountStat(today)
      /\ GetStorageProvidersCountStat(day) \in Nat /\ GetStorageProvidersCountStat(today) \in Nat
  BY <1>1, <1>2, <1>4 DEF GetStorageProvidersCountStat
<1>6. /\ GetClientsCountStat(day) <= GetClientsCountStat(today)
      /\ GetClientsCountStat(day) \in Nat /\ GetClientsCountStat(today) \in Nat
  BY <1>1, <1>3, <1>4 DEF GetClientsCountStat
<1>7. \A n : GetClientsGenericStats(n).clientsWithActiveDeals = Cardinality(ClientsOfAll(ClaimsSince(0, n)))
  BY DEF GetClientsGenericStats
<1>8. LET of(n) == GetClientsGenericStats(n).clientsWithActiveDeals
      IN  of(day) <= of(today) /\ of(day) \in Nat /\ of(today) \in Nat
  <2>1. /\ ClientsOfAll(ClaimsSince(0, day)) = {claimant[k] : k \in ClaimsSince(0, day)}
        /\ ClientsOfAll(ClaimsSince(0, today)) = {claimant[k] : k \in claims}
    BY <1>1, <1>2
  <2> DEFINE p == Cardinality(ClientsOfAll(ClaimsSince(0, day)))
             q == Cardinality(ClientsOfAll(ClaimsSince(0, today)))
  <2>2. p \in Nat /\ q \in Nat /\ p <= q
    BY <1>1, <1>4, <2>1
  <2>3. QED
    BY <1>7, <2>2
<1>9. /\ Total(ClaimsSince(0, day)) <= Total(claims)
      /\ Total(ClaimsSince(0, day)) \in Nat /\ Total(claims) \in Nat
  BY <1>1, TotalOfClaims
<1>10. QED
  BY <1>1, <1>5, <1>6, <1>8, <1>9 DEF GetDatacapSpentByClientsStat

\* The average of the allocators' numbers of clients does not fall.
LEMMA AverageGrows ==
  ASSUME StatisticsInv, NEW day \in Nat, day <= today
  PROVE  LET of(n) == GetAllocatorsClientsStats(n).averageNumberOfClients
         IN  of(day) \in Nat /\ of(today) \in Nat /\ of(day) <= of(today)
<1> DEFINE given(a, n) == {x \in AllocationsSince(0, n) : x.allocator = a}
           number(n) == [a \in Allocators |-> AllocatorClientStatsOf(a, n).numberOfClients]
           of(n) == GetAllocatorsClientsStats(n).averageNumberOfClients
           holder == [x \in allocations |-> x.client]
           m == Cardinality(Allocators)
<1>1. \A n : of(n) = AverageOf(Allocators, number(n))
  <2> SUFFICES ASSUME NEW n PROVE of(n) = AverageOf(Allocators, number(n))
    OBVIOUS
  <2> DEFINE row == [a \in Allocators |-> AllocatorClientStatsOf(a, n)]
  <2>1. of(n) = AverageOf(Allocators, [a \in Allocators |-> row[a].numberOfClients])
    BY DEF GetAllocatorsClientsStats
  <2>2. [a \in Allocators |-> row[a].numberOfClients] = number(n)
    OBVIOUS
  <2>3. QED
    BY <2>1, <2>2
<1>2. \A a \in Allocators : \A n : number(n)[a] = Cardinality(ClientsOfAll(given(a, n)))
  BY DEF AllocatorClientStatsOf
<1>3. /\ IsFiniteSet(allocations)
      /\ \A a : given(a, day) \subseteq given(a, today) /\ given(a, today) \subseteq allocations
  BY ToDate DEF StatisticsInv, FilPlusInv, FilPlusTypeOK, AllocationsSince
<1>4. \A S \in SUBSET allocations : ClientsOfAll(S) = {holder[x] : x \in S}
  BY DEF ClientsOfAll
<1> HIDE DEF given, number, of, holder
<1>5. ASSUME NEW a \in Allocators
      PROVE  number(day)[a] \in Nat /\ number(today)[a] \in Nat /\ number(day)[a] <= number(today)[a]
  <2>1. IsFiniteSet(given(a, today))
    BY <1>3, FS_Subset
  <2>2. ClientsOfAll(given(a, day)) \subseteq ClientsOfAll(given(a, today))
    BY <1>3 DEF ClientsOfAll
  <2>3. IsFiniteSet(ClientsOfAll(given(a, today)))
    BY <1>3, <1>4, <2>1, ImageSize
  <2>4. QED
    BY <1>2, <2>2, <2>3, FS_Subset, FS_CardinalityType
<1>6. ASSUME Allocators # {}
      PROVE  of(day) \in Nat /\ of(today) \in Nat /\ of(day) <= of(today)
  <2> DEFINE p == SumOver(Allocators, number(day))
             q == SumOver(Allocators, number(today))
  <2>1. \A f : (\A a \in Allocators : f[a] \in Nat) => SumOver(Allocators, f) \in Nat
    <3> SUFFICES ASSUME NEW f, \A a \in Allocators : f[a] \in Nat PROVE SumOver(Allocators, f) \in Nat
      OBVIOUS
    <3>1. \A a \in Allocators : f[a] \in Int /\ 0 <= f[a]
      OBVIOUS
    <3>2. SumOver(Allocators, f) \in Int /\ 0 <= SumOver(Allocators, f)
      BY <3>1, ScoringAssumption, SumType, SumPart
    <3>3. QED
      BY <3>2
  <2>2. p \in Nat /\ q \in Nat
    BY <1>5, <2>1
  <2>3. p <= q
    BY <1>5, ScoringAssumption, SumCompare
  <2>4. m \in Nat /\ m >= 1
    BY <1>6, ScoringAssumption, FS_CardinalityType, FS_EmptySet
  <2>5. of(day) = (100 * p) \div m /\ of(today) = (100 * q) \div m
    BY <1>1, <1>6, SumOfIs DEF AverageOf, BigIntDiv
  <2> HIDE DEF p, q, m
  <2>6. QED
    BY <2>2, <2>3, <2>4, <2>5, WindowsInOrder
<1>7. ASSUME Allocators = {}
      PROVE  of(day) = 0 /\ of(today) = 0
  BY <1>1, <1>7 DEF AverageOf
<1>8. QED
  BY <1>6, <1>7 DEF of

\* The numbers of all that there was never fall.
LEMMA NothingFalls ==
  ASSUME StatisticsInv, NEW day \in 0..(today - 1)
  PROVE  /\ ~Falls(GetStorageProvidersStatistics(today - day), {"TOTAL_STORAGE_PROVIDERS"})
         /\ ~Falls(GetClientsStatistics(today - day),
                   {"TOTAL_CLIENTS", "DATACAP_SPENT_BY_CLIENTS", "CLIENTS_WITH_ACTIVE_DEALS"})
         /\ ~Falls(GetAllocatorsStatistics(today - day), {"AVERAGE_NUMBER_OF_CLIENTS"})
<1>1. today \in Nat /\ day \in Nat /\ day <= today /\ today - (today - day) = day
  BY DEF StatisticsInv, FilPlusInv, FilPlusTypeOK, Days
<1>2. LET shown == GetStorageProvidersStatistics(today - day)["TOTAL_STORAGE_PROVIDERS"]
      IN  shown.percentageChange = CalculateDashboardStatistic(GetStorageProvidersCountStat(today),
                                                               GetStorageProvidersCountStat(day))
  BY <1>1 DEF GetStorageProvidersStatistics, Changes, ProvidersNumbers
<1>3. LET shown == GetClientsStatistics(today - day)
      IN  /\ shown["TOTAL_CLIENTS"].percentageChange
               = CalculateDashboardStatistic(GetClientsCountStat(today), GetClientsCountStat(day))
          /\ shown["DATACAP_SPENT_BY_CLIENTS"].percentageChange
               = CalculateDashboardStatistic(GetDatacapSpentByClientsStat(today), GetDatacapSpentByClientsStat(day))
          /\ shown["CLIENTS_WITH_ACTIVE_DEALS"].percentageChange
               = CalculateDashboardStatistic(GetClientsGenericStats(today).clientsWithActiveDeals,
                                             GetClientsGenericStats(day).clientsWithActiveDeals)
  BY <1>1 DEF GetClientsStatistics, Changes, ClientsNumbers
<1>4. LET shown == GetAllocatorsStatistics(today - day)["AVERAGE_NUMBER_OF_CLIENTS"]
      IN  shown.percentageChange = CalculateDashboardStatistic(GetAllocatorsClientsStats(today).averageNumberOfClients,
                                                               GetAllocatorsClientsStats(day).averageNumberOfClients)
  BY <1>1 DEF GetAllocatorsStatistics, Changes, AllocatorsNumbers
<1>5. ~Falls(GetStorageProvidersStatistics(today - day), {"TOTAL_STORAGE_PROVIDERS"})
  BY <1>1, <1>2, NumbersGrow, NotFallen DEF Falls
<1>6. ~Falls(GetClientsStatistics(today - day),
             {"TOTAL_CLIENTS", "DATACAP_SPENT_BY_CLIENTS", "CLIENTS_WITH_ACTIVE_DEALS"})
  BY <1>1, <1>3, NumbersGrow, NotFallen DEF Falls
<1>7. ~Falls(GetAllocatorsStatistics(today - day), {"AVERAGE_NUMBER_OF_CLIENTS"})
  BY <1>1, <1>4, AverageGrows, NotFallen DEF Falls
<1>8. QED
  BY <1>5, <1>6, <1>7

\* Whatever happens, weeks and days that are over keep what was said of them, and the numbers
\* of all that there was never fall.
THEOREM PastAlwaysStays == FilPlusSpec => PastStays
<1>1. ASSUME StatisticsInv, [FilPlusNext]_filPlusVars, NEW day \in 0..(today - 1)
      PROVE  NumbersOf(day)' = NumbersOf(day)
  BY <1>1, ProvidersOfPast, ClientsOfPast, AllocatorsOfPast DEF NumbersOf
<1>2. ASSUME StatisticsInv, [FilPlusNext]_filPlusVars PROVE NothingPastChanges
  BY <1>1, <1>2, ComplianceStays, HistogramsStay, EntriesStay, NothingFalls DEF NothingPastChanges
<1>3. QED
  BY <1>2, StatisticsInvariance, PTL DEF PastStays, FilPlusSpec

==============================================================================
